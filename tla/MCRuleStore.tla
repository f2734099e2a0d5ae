---------------------------- MODULE MCRuleStore ----------------------------
(***************************************************************************)
(* Instances of RuleStore for TLC.                                         *)
(***************************************************************************)
EXTENDS RuleStore, TLC

CONSTANTS Good, Bad

Disk(f, m) == [files |-> [n \in Names |-> IF n \in DOMAIN f THEN f[n] ELSE NoFile],
               manifest |-> m]
Listed(name, enabled) == [name |-> name, enabled |-> enabled]

\* A fresh installation.
FreshDisk == {Disk(<<>>, NoManifest)}

\* What the store leaves when the default group and a disabled group exist,
\* and the same files without a manifest.
UsedDisks ==
    LET f == [n \in {1, Default} |-> IF n = 1 THEN Good ELSE Empty]
    IN {Disk(f, <<Listed(1, FALSE), Listed(Default, TRUE)>>), Disk(f, NoManifest)}

AnyDisk == FreshDisk \cup UsedDisks

=============================================================================
