----------------------------- MODULE RuleStore -----------------------------
(***************************************************************************)
(* The rule store of rsproxy-engine: rule_store.rs, rule_store/storage.rs  *)
(* and rule_store/watch.rs.                                                *)
(*                                                                         *)
(* Rule groups live in `<storage>/rules`: one text file per group and a    *)
(* manifest that lists names, order and enablement.  API threads change    *)
(* the files and publish the new snapshot under one update lock.  A        *)
(* watcher thread receives file notifications through a bounded queue,     *)
(* waits for a quiet moment and reloads the directory, reading it file by  *)
(* file while editors outside the process may be changing it.  The process *)
(* may crash between any two steps; the directory survives.                *)
(*                                                                         *)
(* Group names are numbers, ordered as the names are alphabetically.  A    *)
(* text is a model value; BadTexts are those the rule parser refuses.  The *)
(* notify crate and the file system are external.                          *)
(***************************************************************************)
EXTENDS Naturals, Sequences, FiniteSets, SequencesExt

CONSTANTS
    Names,          \* names a file in the directory can have
    ValidNames,     \* those validate_group_name accepts
    Default,        \* the group "default"
    Texts,          \* file contents
    BadTexts,       \* contents that do not parse
    Empty,          \* the empty file
    MaxGroups,      \* MAX_RULE_GROUPS_PER_SNAPSHOT
    Capacity,       \* EVENT_QUEUE_CAPACITY
    Writers,        \* threads that serve the control API
    InitialDisks,   \* directories an earlier process or the user left
    MaxEffort,      \* bound: updates, edits, faults and crashes together
    MaxOps,         \* bound: API updates
    MaxEdits,       \* bound: changes made outside the process
    MaxFaults,      \* bound: failing file operations
    MaxCrashes,     \* bound: crashes
    NoFile, NoManifest, BadManifest, LoadError, NoOp, Nobody, Watcher

ASSUME NamesAssumption ==
    /\ Names \subseteq Nat /\ IsFiniteSet(Names)
    /\ ValidNames \subseteq Names /\ Default \in ValidNames

ASSUME TextsAssumption ==
    /\ BadTexts \subseteq Texts
    /\ Empty \in Texts \ BadTexts
    /\ NoFile \notin Texts

ASSUME BoundsAssumption ==
    /\ MaxGroups \in Nat \ {0} /\ Capacity \in Nat \ {0}
    /\ MaxEffort \in Nat /\ MaxOps \in Nat /\ MaxEdits \in Nat /\ MaxFaults \in Nat /\ MaxCrashes \in Nat
    /\ Nobody \notin Writers \cup {Watcher} /\ Watcher \notin Writers

VARIABLES
    files, manifest,          \* the rules directory
    snap,                     \* RuleStoreInner.snapshot: the published groups
    lock,                     \* RuleStoreInner.update
    pc, op, next, idx,        \* API threads: step, request, prospective groups
    phase,                    \* the process: down, loading, loaded, up
    wpc, queue, stopq,        \* watcher thread, its queued events, Stop behind them
    handle,                   \* RuleWatchHandle: held, stopping, joining, joined
    notes,                    \* notifications the file system has not delivered
    lhas, lstage, ltodo, lgot,\* a load_snapshot in progress
    lresult,                  \* what the last reload_from_disk returned
    lastError, reloads,       \* RuleWatchStatus.last_error (is some), .reloads
    ops, edits, faults, crashes,
    gap                       \* ghost: an edit after the initial load began and
                              \* before the watcher was registered

diskVars == <<files, manifest>>
apiVars == <<pc, op, next, idx>>
watchVars == <<wpc, queue, stopq, handle>>
loadVars == <<lhas, lstage, ltodo, lgot, lresult>>
statusVars == <<lastError, reloads>>
boundVars == <<ops, edits, faults, crashes>>
vars == <<diskVars, snap, lock, apiVars, phase, watchVars, notes, loadVars, statusVars,
          boundVars, gap>>

\* What has happened so far, for the bound MaxEffort.
Effort == ops + edits + faults + crashes

Group == [name : ValidNames, enabled : BOOLEAN, text : Texts]
Entry == [name : Names, enabled : BOOLEAN]
Op == [kind : {"set", "remove", "enable"}, name : ValidNames, text : Texts,
       enabled : BOOLEAN]

NamesOf(groups) == {groups[i].name : i \in DOMAIN groups}
NoDuplicates(s) == \A i, j \in DOMAIN s : s[i].name = s[j].name => i = j

-----------------------------------------------------------------------------
(***************************************************************************)
(* Pure parts.                                                             *)
(***************************************************************************)
\* RuleSnapshot::compile: every group must parse, the disabled ones too.
Compiles(groups) ==
    /\ Len(groups) <= MaxGroups
    /\ \A i \in DOMAIN groups : groups[i].text \notin BadTexts

Exists(name) == name \in NamesOf(snap)

\* set_group, remove_group and set_enabled on a copy of the current groups.
SetText(groups, name, text) ==
    IF name \in NamesOf(groups)
    THEN [i \in DOMAIN groups |->
            IF groups[i].name = name THEN [groups[i] EXCEPT !.text = text]
                                     ELSE groups[i]]
    ELSE Append(groups, [name |-> name, enabled |-> TRUE, text |-> text])

Without(groups, name) == SelectSeq(groups, LAMBDA g : g.name # name)

SetEnabled(groups, name, enabled) ==
    [i \in DOMAIN groups |->
        IF groups[i].name = name THEN [groups[i] EXCEPT !.enabled = enabled]
                                 ELSE groups[i]]

Prospective(o) ==
    CASE o.kind = "set"    -> SetText(snap, o.name, o.text)
      [] o.kind = "remove" -> Without(snap, o.name)
      [] o.kind = "enable" -> SetEnabled(snap, o.name, o.enabled)

\* persist_manifest writes what the prospective snapshot says.
ManifestOf(groups) ==
    [i \in DOMAIN groups |-> [name |-> groups[i].name, enabled |-> groups[i].enabled]]

Alphabetical(S) == SetToSortSeq(S, LAMBDA a, b : a < b)
Enabled(names) == [i \in DOMAIN names |-> [name |-> names[i], enabled |-> TRUE]]

\* discover_group_names: the group files of the directory f; one with an
\* invalid name makes the whole scan fail.
Present(f) == {n \in Names : f[n] # NoFile}
ScanFails(f) == ~(Present(f) \subseteq ValidNames)
Unlisted(f, listed) == Enabled(Alphabetical(Present(f) \ listed))

\* discover_groups: without a manifest every file is a group, default first.
Discovered(f) ==
    LET names == Present(f)
    IN Enabled((IF Default \in names THEN <<Default>> ELSE <<>>)
               \o Alphabetical(names \ {Default}))

\* load_manifest_groups: what makes the manifest itself unusable.
ManifestUsable(m) ==
    /\ m \notin {NoManifest, BadManifest}
    /\ Len(m) <= MaxGroups
    /\ NoDuplicates(m)
    /\ NamesOf(m) \subseteq ValidNames

TextOr(f, name) == IF f[name] = NoFile THEN Empty ELSE f[name]
Read(f, entries) ==
    [i \in DOMAIN entries |->
        [name |-> entries[i].name, enabled |-> entries[i].enabled,
         text |-> TextOr(f, entries[i].name)]]

WithDefault(f, groups) ==
    IF Default \in NamesOf(groups) THEN groups
    ELSE <<[name |-> Default, enabled |-> TRUE, text |-> TextOr(f, Default)]>> \o groups

\* load_snapshot of a directory that nobody is changing.
LoadOf(f, m) ==
    LET listed == IF m = NoManifest THEN Discovered(f) ELSE m
        all == Read(f, listed \o Unlisted(f, NamesOf(listed)))
        groups == WithDefault(f, all)
    IN IF \/ ScanFails(f)
          \/ m # NoManifest /\ ~ManifestUsable(m)
          \/ m # NoManifest /\ ~(NamesOf(m) \subseteq Present(f))
          \/ ~Compiles(groups)
       THEN LoadError ELSE groups

-----------------------------------------------------------------------------
(***************************************************************************)
(* The file system's notifications.  While the watcher is registered every *)
(* change of a group file or of the manifest becomes one notification.     *)
(***************************************************************************)
Watching == phase = "up" /\ handle = "held"
Notify == notes' = IF Watching THEN notes + 1 ELSE notes

Init ==
    /\ \E d \in InitialDisks : files = d.files /\ manifest = d.manifest
    /\ snap = <<>> /\ lock = Nobody
    /\ pc = [a \in Writers |-> "idle"] /\ op = [a \in Writers |-> NoOp]
    /\ next = [a \in Writers |-> <<>>] /\ idx = [a \in Writers |-> 0]
    /\ phase = "down" /\ wpc = "stopped" /\ queue = 0 /\ stopq = FALSE
    /\ handle = "joined" /\ notes = 0
    /\ lhas = FALSE /\ lstage = "none" /\ ltodo = <<>> /\ lgot = <<>> /\ lresult = "none"
    /\ lastError = FALSE /\ reloads = 0
    /\ ops = 0 /\ edits = 0 /\ faults = 0 /\ crashes = 0 /\ gap = FALSE

-----------------------------------------------------------------------------
(***************************************************************************)
(* API threads.                                                            *)
(***************************************************************************)
ApiFrame == UNCHANGED <<phase, watchVars, loadVars, statusVars, edits, crashes, gap>>

\* A request arrives; validate_group_name has accepted the name, and
\* remove_group refuses the default group before it takes the lock.
Call(a) ==
    /\ Watching /\ pc[a] = "idle" /\ ops < MaxOps /\ Effort < MaxEffort
    /\ \E o \in Op :
          /\ o.kind # "set" => o.text = Empty
          /\ o.kind # "enable" => o.enabled
          /\ o.kind = "remove" => o.name # Default
          /\ op' = [op EXCEPT ![a] = o]
    /\ pc' = [pc EXCEPT ![a] = "lock"]
    /\ ops' = ops + 1
    /\ UNCHANGED <<diskVars, snap, lock, next, idx, notes, faults>>
    /\ ApiFrame

Accepts(o) ==
    /\ o.kind # "set" => Exists(o.name)
    /\ Compiles(Prospective(o))

LockRemoveFirst(a) ==
    /\ pc[a] = "lock" /\ lock = Nobody
    /\ Accepts(op[a])
    /\ lock' = a
    /\ next' = [next EXCEPT ![a] = Prospective(op[a])]
    /\ idx' = [idx EXCEPT ![a] = 1]
    /\ pc' = [pc EXCEPT ![a] = CASE op[a].kind = "set" -> "text"
                                 [] op[a].kind = "remove" -> "remove"
                                 [] OTHER -> "probe"]
    /\ UNCHANGED <<diskVars, snap, op, notes, ops, faults>>
    /\ ApiFrame
\* The lock is taken, the prospective snapshot compiles.
Lock(a) ==
    /\ pc[a] = "lock" /\ lock = Nobody
    /\ Accepts(op[a])
    /\ lock' = a
    /\ next' = [next EXCEPT ![a] = Prospective(op[a])]
    /\ idx' = [idx EXCEPT ![a] = 1]
    /\ pc' = [pc EXCEPT ![a] = IF op[a].kind = "set" THEN "text" ELSE "probe"]
    /\ UNCHANGED <<diskVars, snap, op, notes, ops, faults>>
    /\ ApiFrame

\* NotFound and Parse: the thread returns the error and drops the lock.
Reject(a) ==
    /\ pc[a] = "lock" /\ lock = Nobody
    /\ ~Accepts(op[a])
    /\ pc' = [pc EXCEPT ![a] = "idle"]
    /\ op' = [op EXCEPT ![a] = NoOp]
    /\ UNCHANGED <<diskVars, snap, lock, next, idx, notes, ops, faults>>
    /\ ApiFrame

\* set_group replaces the group's file (a rename over the old one).
WriteText(a) ==
    /\ pc[a] = "text"
    /\ files' = [files EXCEPT ![op[a].name] = op[a].text]
    /\ Notify
    /\ pc' = [pc EXCEPT ![a] = "probe"]
    /\ UNCHANGED <<manifest, snap, lock, op, next, idx, ops, faults>>
    /\ ApiFrame

\* persist_manifest looks for every group's file ...
ProbeStep(a, at) ==
    /\ pc' = [pc EXCEPT ![a] = at]
    /\ UNCHANGED <<diskVars, snap, lock, op, next, notes, ops, faults>>
    /\ ApiFrame

ProbeDone(a) ==
    /\ pc[a] = "probe" /\ idx[a] > Len(next[a])
    /\ UNCHANGED idx
    /\ ProbeStep(a, "manifest")

ProbePresent(a) ==
    /\ pc[a] = "probe" /\ idx[a] <= Len(next[a])
    /\ files[next[a][idx[a]].name] # NoFile
    /\ idx' = [idx EXCEPT ![a] = @ + 1]
    /\ ProbeStep(a, "probe")

ProbeMissing(a) ==
    /\ pc[a] = "probe" /\ idx[a] <= Len(next[a])
    /\ files[next[a][idx[a]].name] = NoFile
    /\ UNCHANGED idx
    /\ ProbeStep(a, "restore")

\* ... and writes the missing ones from memory.
Restore(a) ==
    /\ pc[a] = "restore"
    /\ LET g == next[a][idx[a]]
       IN files' = [files EXCEPT ![g.name] = g.text]
    /\ Notify
    /\ idx' = [idx EXCEPT ![a] = @ + 1]
    /\ pc' = [pc EXCEPT ![a] = "probe"]
    /\ UNCHANGED <<manifest, snap, lock, op, next, ops, faults>>
    /\ ApiFrame

WriteManifest(a) ==
    /\ pc[a] = "manifest"
    /\ manifest' = ManifestOf(next[a])
    /\ Notify
    /\ pc' = [pc EXCEPT ![a] = IF op[a].kind = "remove" THEN "remove" ELSE "publish"]
    /\ UNCHANGED <<files, snap, lock, op, next, idx, ops, faults>>
    /\ ApiFrame

\* remove_group deletes the file last; a file already gone is no error.
RemoveFile(a) ==
    /\ pc[a] = "remove"
    /\ files' = [files EXCEPT ![op[a].name] = NoFile]
    /\ IF files[op[a].name] = NoFile THEN UNCHANGED notes ELSE Notify
    /\ pc' = [pc EXCEPT ![a] = "publish"]
    /\ UNCHANGED <<manifest, snap, lock, op, next, idx, ops, faults>>
    /\ ApiFrame

Return(a) ==
    /\ lock' = Nobody
    /\ pc' = [pc EXCEPT ![a] = "idle"]
    /\ op' = [op EXCEPT ![a] = NoOp]
    /\ next' = [next EXCEPT ![a] = <<>>]
    /\ idx' = [idx EXCEPT ![a] = 0]

Publish(a) ==
    /\ pc[a] = "publish"
    /\ snap' = next[a]
    /\ Return(a)
    /\ UNCHANGED <<diskVars, notes, ops, faults>>
    /\ ApiFrame

\* A write, rename or removal fails: the error returns at once and nothing
\* that was already written is taken back.
UpdateFails(a) ==
    /\ pc[a] \in {"text", "restore", "manifest", "remove"} /\ faults < MaxFaults /\ Effort < MaxEffort
    /\ faults' = faults + 1
    /\ Return(a)
    /\ UNCHANGED <<diskVars, snap, notes, ops>>
    /\ ApiFrame

-----------------------------------------------------------------------------
(***************************************************************************)
(* load_snapshot, one file at a time.  The starting process runs it before *)
(* any other thread exists, the watcher runs it holding the update lock.   *)
(***************************************************************************)
LoadFrame == UNCHANGED <<diskVars, apiVars, queue, stopq, handle, notes, ops, edits, crashes>>

Loading == lstage # "none"

\* manifest_path.is_file()
BeginLoad ==
    /\ lhas' = (manifest # NoManifest)
    /\ lstage' = "manifest"
    /\ ltodo' = <<>> /\ lgot' = <<>>
    /\ UNCHANGED lresult

LoadStep(stage) ==
    /\ lstage' = stage
    /\ UNCHANGED <<lhas, lresult, snap, lock, phase, wpc, statusVars, faults, gap>>
    /\ LoadFrame

ReadManifest ==
    /\ lstage = "manifest"
    /\ IF lhas THEN ManifestUsable(manifest) /\ ltodo' = manifest
               ELSE ~ScanFails(files) /\ ltodo' = Discovered(files)
    /\ UNCHANGED lgot
    /\ LoadStep("listed")

\* A group the manifest lists must have a file; one that was discovered and
\* has vanished since reads as empty.
ReadGroup ==
    /\ lstage \in {"listed", "unlisted"} /\ ltodo # <<>>
    /\ Len(lgot) < MaxGroups
    /\ ~(lstage = "listed" /\ lhas /\ files[Head(ltodo).name] = NoFile)
    /\ lgot' = lgot \o Read(files, <<Head(ltodo)>>)
    /\ ltodo' = Tail(ltodo)
    /\ LoadStep(lstage)

\* append_unlisted_groups scans the directory again.
AppendUnlisted ==
    /\ lstage = "listed" /\ ltodo = <<>>
    /\ ~ScanFails(files)
    /\ ltodo' = Unlisted(files, NamesOf(lgot))
    /\ UNCHANGED lgot
    /\ LoadStep("unlisted")

LoadReturns(result) ==
    /\ lstage' = "none" /\ lhas' = FALSE /\ ltodo' = <<>> /\ lgot' = <<>>
    /\ lresult' = result
    /\ lock' = Nobody
    /\ UNCHANGED <<statusVars, gap>>
    /\ LoadFrame

LoadRejected ==
    \/ lstage = "manifest" /\ lhas /\ ~ManifestUsable(manifest)
    \/ lstage = "manifest" /\ ~lhas /\ ScanFails(files)
    \/ lstage \in {"listed", "unlisted"} /\ ltodo # <<>>
       /\ \/ Len(lgot) = MaxGroups
          \/ lstage = "listed" /\ lhas /\ files[Head(ltodo).name] = NoFile
    \/ lstage = "listed" /\ ltodo = <<>> /\ ScanFails(files)
    \/ lstage = "unlisted" /\ ltodo = <<>> /\ ~Compiles(WithDefault(files, lgot))

\* At startup the error ends the process, in the watcher it ends the reload.
LoadFails ==
    /\ LoadRejected
    /\ IF phase = "up" THEN wpc' = "record" /\ UNCHANGED phase
                       ELSE phase' = "down" /\ UNCHANGED wpc
    /\ UNCHANGED <<snap, faults>>
    /\ LoadReturns("failed")

\* Any of the reads fails with an I/O error.
ReadFails ==
    /\ Loading /\ faults < MaxFaults /\ Effort < MaxEffort
    /\ faults' = faults + 1
    /\ IF phase = "up" THEN wpc' = "record" /\ UNCHANGED phase
                       ELSE phase' = "down" /\ UNCHANGED wpc
    /\ UNCHANGED snap
    /\ LoadReturns("failed")

\* The default group is added when it is missing, the groups compile, and
\* they replace the snapshot if they differ from it.
LoadSucceeds ==
    /\ lstage = "unlisted" /\ ltodo = <<>>
    /\ LET groups == WithDefault(files, lgot)
       IN /\ Compiles(groups)
          /\ snap' = groups
          /\ LoadReturns(IF groups = snap THEN "same" ELSE "changed")
    /\ IF phase = "up" THEN wpc' = "record" /\ UNCHANGED phase
                       ELSE phase' = "loaded" /\ UNCHANGED wpc
    /\ UNCHANGED faults

-----------------------------------------------------------------------------
(***************************************************************************)
(* The watcher.                                                            *)
(***************************************************************************)
\* The callback: try_send, and the event is dropped when the queue is full.
CallbackFrame ==
    UNCHANGED <<diskVars, snap, lock, apiVars, phase, wpc, stopq, handle, loadVars,
                reloads, ops, edits, crashes, gap>>

HasRoom == queue < Capacity

EnqueueEvent ==
    /\ Watching /\ notes > 0 /\ HasRoom
    /\ notes' = notes - 1 /\ queue' = queue + 1
    /\ UNCHANGED <<lastError, faults>>
    /\ CallbackFrame

DropEvent ==
    /\ Watching /\ notes > 0 /\ ~HasRoom
    /\ notes' = notes - 1
    /\ UNCHANGED <<queue, lastError, faults>>
    /\ CallbackFrame

\* notify reports an error of its own instead of an event.
NotifyError ==
    /\ Watching /\ faults < MaxFaults /\ Effort < MaxEffort
    /\ faults' = faults + 1 /\ lastError' = TRUE
    /\ UNCHANGED <<notes, queue>>
    /\ CallbackFrame

WatchFrame ==
    UNCHANGED <<diskVars, snap, apiVars, phase, handle, notes, boundVars>>

WatchStep(to) ==
    /\ wpc' = to
    /\ UNCHANGED <<lock, loadVars, statusVars, gap>>
    /\ WatchFrame

\* watch_loop receives the first event of a burst, collect_burst the others.
RecvEvent ==
    /\ wpc = "recv" /\ queue > 0
    /\ queue' = queue - 1 /\ UNCHANGED stopq
    /\ WatchStep("burst")

BurstEvent ==
    /\ wpc = "burst" /\ queue > 0
    /\ queue' = queue - 1 /\ UNCHANGED stopq
    /\ WatchStep("burst")

RecvStopPutBack ==
    /\ wpc \in {"recv", "burst"} /\ queue = 0 /\ stopq
    /\ stopq' = (wpc = "burst") /\ UNCHANGED queue
    /\ WatchStep(IF wpc = "burst" THEN "burst" ELSE "stopped")
\* The Stop message, in watch_loop or in the middle of a burst.
RecvStop ==
    /\ wpc \in {"recv", "burst"} /\ queue = 0 /\ stopq
    /\ stopq' = FALSE /\ UNCHANGED queue
    /\ WatchStep("stopped")

\* recv_timeout finds nothing for one debounce interval.
BurstEnds ==
    /\ wpc = "burst" /\ queue = 0 /\ ~stopq
    /\ UNCHANGED <<queue, stopq>>
    /\ WatchStep("lock")

\* reload_from_disk takes the update lock.
UpdateLockFree == lock = Nobody

ReloadBegins ==
    /\ wpc = "lock" /\ UpdateLockFree
    /\ lock' = Watcher
    /\ wpc' = "load"
    /\ BeginLoad
    /\ gap' = FALSE
    /\ UNCHANGED <<queue, stopq, statusVars>>
    /\ WatchFrame

RecordedErrorSticky == lastError \/ lresult = "failed"
RecordedError == lresult = "failed"

\* record_reload for both Ok values, record_failure for the error.
Record ==
    /\ wpc = "record"
    /\ wpc' = "recv"
    /\ lastError' = RecordedError
    /\ reloads' = IF RecordedError THEN reloads ELSE reloads + 1
    /\ lresult' = "none"
    /\ UNCHANGED <<queue, stopq, lock, lhas, lstage, ltodo, lgot, gap>>
    /\ WatchFrame

-----------------------------------------------------------------------------
(***************************************************************************)
(* The process.                                                            *)
(***************************************************************************)
\* SharedState::new loads the rules, then registers the watcher.
Start ==
    /\ phase = "down"
    /\ phase' = "loading"
    /\ BeginLoad
    /\ UNCHANGED <<snap, lock, wpc, statusVars, faults, gap>>
    /\ LoadFrame

Watch ==
    /\ phase = "loaded"
    /\ phase' = "up" /\ wpc' = "recv" /\ handle' = "held"
    /\ lresult' = "none"
    /\ UNCHANGED <<diskVars, snap, lock, apiVars, queue, stopq, notes, lhas, lstage, ltodo,
                   lgot, statusVars, boundVars, gap>>

\* What the end of the process takes with it.
Vanish ==
    /\ phase' = "down" /\ snap' = <<>> /\ lock' = Nobody
    /\ pc' = [a \in Writers |-> "idle"] /\ op' = [a \in Writers |-> NoOp]
    /\ next' = [a \in Writers |-> <<>>] /\ idx' = [a \in Writers |-> 0]
    /\ wpc' = "stopped" /\ queue' = 0 /\ stopq' = FALSE /\ handle' = "joined" /\ notes' = 0
    /\ lhas' = FALSE /\ lstage' = "none" /\ ltodo' = <<>> /\ lgot' = <<>> /\ lresult' = "none"
    /\ lastError' = FALSE /\ reloads' = 0 /\ gap' = FALSE

Crash ==
    /\ phase # "down" /\ crashes < MaxCrashes /\ Effort < MaxEffort
    /\ crashes' = crashes + 1
    /\ Vanish
    /\ UNCHANGED <<diskVars, ops, edits, faults>>

\* The watcher cannot be created: the start fails.
WatchFails ==
    /\ phase = "loaded" /\ faults < MaxFaults /\ Effort < MaxEffort
    /\ faults' = faults + 1
    /\ Vanish
    /\ UNCHANGED <<diskVars, ops, edits, crashes>>

\* The last SharedState goes, so no API thread is left: Drop of
\* RuleWatchHandle ends the notifications, sends Stop (waiting for room)
\* and joins the thread.
HandleFrame ==
    UNCHANGED <<diskVars, snap, lock, apiVars, phase, wpc, queue, loadVars, statusVars,
                boundVars, gap>>

DropHandle ==
    /\ Watching /\ \A a \in Writers : pc[a] = "idle"
    /\ handle' = "stopping" /\ notes' = 0
    /\ UNCHANGED stopq
    /\ HandleFrame

SendStop ==
    /\ handle = "stopping" /\ HasRoom
    /\ handle' = "joining" /\ stopq' = TRUE
    /\ UNCHANGED notes
    /\ HandleFrame

Join ==
    /\ handle = "joining" /\ wpc = "stopped"
    /\ Vanish
    /\ UNCHANGED <<diskVars, boundVars>>

-----------------------------------------------------------------------------
(***************************************************************************)
(* Editors outside the process change a file, create or delete one, or     *)
(* replace the manifest, at any time.                                      *)
(***************************************************************************)
Edited ==
    /\ edits < MaxEdits /\ Effort < MaxEffort
    /\ edits' = edits + 1
    /\ Notify
    /\ gap' = (gap \/ phase \in {"loading", "loaded"})
    /\ UNCHANGED <<snap, lock, apiVars, phase, watchVars, loadVars, statusVars, ops,
                   faults, crashes>>

EditFile ==
    /\ \E n \in Names, t \in Texts \cup {NoFile} :
          /\ files[n] # t
          /\ files' = [files EXCEPT ![n] = t]
    /\ UNCHANGED manifest
    /\ Edited

\* Manifests a user writes: none, unreadable, or the groups that have a file
\* in some order, or the current list with an entry toggled or repeated.
Rewrites ==
    {NoManifest, BadManifest}
    \cup {Enabled(s) : s \in SetToSeqs(Present(files))}
    \cup (IF manifest \in {NoManifest, BadManifest} THEN {}
          ELSE {[manifest EXCEPT ![i].enabled = ~@] : i \in DOMAIN manifest}
               \cup {Append(manifest, manifest[i]) : i \in DOMAIN manifest})

EditManifest ==
    /\ \E m \in Rewrites : m # manifest /\ manifest' = m
    /\ UNCHANGED files
    /\ Edited

-----------------------------------------------------------------------------
ApiStep(a) ==
    \/ Lock(a) \/ Reject(a) \/ WriteText(a) \/ ProbeDone(a) \/ ProbePresent(a)
    \/ ProbeMissing(a) \/ Restore(a) \/ WriteManifest(a) \/ RemoveFile(a) \/ Publish(a)

LoadNext ==
    ReadManifest \/ ReadGroup \/ AppendUnlisted \/ LoadFails \/ LoadSucceeds

WatchNext ==
    \/ RecvEvent \/ BurstEvent \/ RecvStop \/ BurstEnds \/ ReloadBegins \/ Record

Callback == EnqueueEvent \/ DropEvent
Stopping == SendStop \/ Join
Environment == EditFile \/ EditManifest \/ Crash \/ WatchFails \/ ReadFails \/ NotifyError

Next ==
    \/ \E a \in Writers : Call(a) \/ ApiStep(a) \/ UpdateFails(a)
    \/ LoadNext \/ WatchNext \/ Callback
    \/ Start \/ Watch \/ DropHandle \/ Stopping
    \/ Environment

\* Threads that can run do run, and the file system delivers.
Fairness ==
    /\ \A a \in Writers : WF_vars(ApiStep(a))
    /\ WF_vars(LoadNext) /\ WF_vars(WatchNext) /\ WF_vars(Callback) /\ WF_vars(Stopping)

Spec == Init /\ [][Next]_vars
FairSpec == Spec /\ Fairness

-----------------------------------------------------------------------------
(***************************************************************************)
(* Properties.                                                             *)
(***************************************************************************)
TypeOK ==
    /\ files \in [Names -> Texts \cup {NoFile}]
    /\ manifest \in {NoManifest, BadManifest} \/ manifest \in Seq(Entry)
    /\ snap \in Seq(Group)
    /\ lock \in Writers \cup {Watcher, Nobody}
    /\ pc \in [Writers -> {"idle", "lock", "text", "probe", "restore", "manifest",
                           "remove", "publish"}]
    /\ op \in [Writers -> Op \cup {NoOp}]
    /\ next \in [Writers -> Seq(Group)] /\ idx \in [Writers -> Nat]
    /\ phase \in {"down", "loading", "loaded", "up"}
    /\ wpc \in {"recv", "burst", "lock", "load", "record", "stopped"}
    /\ queue \in 0..Capacity /\ stopq \in BOOLEAN
    /\ handle \in {"held", "stopping", "joining", "joined"} /\ notes \in Nat
    /\ lhas \in BOOLEAN /\ lstage \in {"none", "manifest", "listed", "unlisted"}
    /\ ltodo \in Seq(Entry) /\ lgot \in Seq(Group)
    /\ lresult \in {"none", "same", "changed", "failed"}
    /\ lastError \in BOOLEAN /\ reloads \in Nat /\ gap \in BOOLEAN
    /\ ops \in Nat /\ edits \in Nat /\ faults \in Nat /\ crashes \in Nat

\* Request handlers only ever see a snapshot that compiles, that names no
\* group twice and that has the default group, whatever editors leave in the
\* directory while it is being read (rule_store.rs, load_snapshot).
SnapshotValid ==
    phase \in {"loaded", "up"}
    => Compiles(snap) /\ NoDuplicates(snap) /\ Default \in NamesOf(snap)

\* Nothing is on its way to the watcher and nobody is updating.
Settled ==
    /\ Watching /\ wpc = "recv" /\ queue = 0 /\ notes = 0 /\ lock = Nobody

\* Once the watcher has nothing left to do, either the published groups are
\* the ones in the directory or last_error says that they are not; without
\* failing file operations last_error is set only for a directory that does
\* not load.  Dropped events, events that arrive in the middle of a reload
\* and half-finished edits make no difference (watch_loop, collect_burst,
\* enqueue_event).  Edits made while the process starts are excepted.
Agreement ==
    /\ snap = LoadOf(files, manifest) \/ lastError
    /\ lastError /\ faults = 0 => LoadOf(files, manifest) = LoadError
SettledAgrees == Settled /\ ~gap => Agreement

\* With no edits from outside and no failing file operation, the directory is
\* exactly what is published whenever no update is running: an update is
\* never published without being persisted, nor persisted and then replaced
\* by an older reload (the update lock in set_group, remove_group,
\* set_enabled and reload_from_disk).
DiskMatchesMemory ==
    (edits = 0 /\ faults = 0 /\ phase = "up" /\ lock = Nobody)
    => LoadOf(files, manifest) = snap

\* As long as nobody edits the directory from outside, it can be loaded at
\* any moment, also between two writes of an update and after one of them
\* failed: a crash never leaves a store that refuses to start (the order of
\* the writes in set_group, persist_manifest and remove_group).  The one
\* exception is a directory that failed updates filled beyond the group
\* limit, which set_group checks against memory and load against the files.
Restartable ==
    edits = 0 /\ Cardinality(Present(files) \cup {Default}) <= MaxGroups
    => LoadOf(files, manifest) # LoadError

\* A crash in the middle of an update leaves the names and texts of the old
\* groups or those of the new ones, never a mixture (set_group,
\* remove_group; the order and enablement of a group being removed can
\* differ).
NamesAndTexts(groups) == {<<g.name, g.text>> : g \in ToSet(groups)}
CrashAtomic ==
    (edits = 0 /\ faults = 0 /\ phase = "up")
    => \/ NamesAndTexts(LoadOf(files, manifest)) = NamesAndTexts(snap)
       \/ \E a \in Writers :
             /\ lock = a
             /\ NamesAndTexts(LoadOf(files, manifest)) = NamesAndTexts(next[a])

\* After the last edit the watcher brings memory and directory together, or
\* reports the error (Drop of the handle and crashes end the watcher).
Converges == (Watching /\ ~gap /\ ~Agreement) ~> (Agreement \/ ~Watching)

\* Dropping the last handle ends the watcher thread even when its queue is
\* full, a burst is being collected or a reload is running (Drop for
\* RuleWatchHandle).
WatcherStops == handle = "stopping" ~> handle = "joined"

\* An update is atomic for the directory: between updates it is what is published,
\* within one it loads as the old or the new groups, and at every moment it loads
\* (set_group, remove_group, set_enabled, persist_manifest).
UpdatesAtomic == Restartable /\ DiskMatchesMemory /\ CrashAtomic

\* Readers only see snapshots that compile, and once the watcher has nothing left to do
\* the published one is that of the directory or the error is reported (watch_loop,
\* reload_from_disk).
SnapshotsSettle == TypeOK /\ SnapshotValid /\ SettledAgrees

\* The watcher catches up with the last edit, and ends when its handle is dropped
\* (watch_loop, Drop for RuleWatchHandle).
WatcherLive == Converges /\ WatcherStops

=============================================================================
