------------------------------ MODULE CaStore ------------------------------
(***************************************************************************)
(* The root certificate authority (rsproxy-platform/src/ca/storage.rs and  *)
(* ca/trust.rs, rsproxy-cli/src/cli/ca.rs): a certificate and a key file   *)
(* under <storage>/ca, written one after the other with no temporary file, *)
(* and the host's trust store.  A root is known by its generation: the     *)
(* certificate and the key of one generation belong together.              *)
(***************************************************************************)
EXTENDS Startup

VARIABLES
    ca,          \* [cert, key]: the generation in each file, 0 when missing, -1 when truncated
    trusted,     \* generations the trust store holds (its certificates)
    anchors,     \* macOS: generations with trust settings
    lastRoot     \* generations made so far

caVars == <<ca, trusted, anchors, lastRoot>>

NoFile == 0
Truncated == -1

CaInit == ca = NoRoot /\ trusted = {} /\ anchors = {} /\ lastRoot = 0

\* A CA is initialized when both files exist, whatever they hold.
root_ca_status == ca.cert # NoFile /\ ca.key # NoFile

\* What a starting daemon loads: both files as they are, or no interception.
LoadedRoot == IF root_ca_status THEN ca ELSE NoRoot

generate_root_ca == lastRoot + 1

-----------------------------------------------------------------------------
\* initialize_root_ca: both files present are left alone and one alone is
\* refused, unless forced; then a new root is made and written, the
\* certificate first, each file truncated and filled.

InitCompletes(c) ==
    LET here == {f \in {"cert", "key"} : ca[f] # NoFile}
    IN  /\ At(c, "ca_init")
        /\ IF Cardinality(here) = 2 /\ ~cli[c].flag THEN Return(c, "already") /\ UNCHANGED lastRoot
           ELSE /\ lastRoot' = generate_root_ca
                /\ Go(c, [gen |-> lastRoot', pc |-> IF here = {} \/ cli[c].flag THEN "ca_cert" ELSE "ca_key"])
        /\ UNCHANGED <<daemonVars, proxyVars, startupVars, ca, trusted, anchors>>

InitCheck(c) ==
    LET here == {f \in {"cert", "key"} : ca[f] # NoFile}
    IN  /\ At(c, "ca_init")
        /\ IF here # {} /\ ~cli[c].flag
           THEN Return(c, IF Cardinality(here) = 2 THEN "already" ELSE "partial") /\ UNCHANGED lastRoot
           ELSE lastRoot' = generate_root_ca /\ Go(c, [gen |-> lastRoot', pc |-> "ca_cert"])
        /\ UNCHANGED <<daemonVars, proxyVars, startupVars, ca, trusted, anchors>>

\* A write may fail, before or after the file was emptied.
InitWrite(c) ==
    LET half == IF cli[c].pc \in {"ca_cert", "ca_cert2"} THEN "cert" ELSE "key"
        next == CASE At(c, "ca_cert") -> "ca_cert2"
                  [] At(c, "ca_cert2") -> "ca_key"
                  [] At(c, "ca_key") -> "ca_key2"
                  [] OTHER -> "ca_readme"
    IN  /\ cli[c].pc \in {"ca_cert", "ca_cert2", "ca_key", "ca_key2"}
        /\ \/ /\ ca' = [ca EXCEPT ![half] = IF cli[c].pc \in {"ca_cert", "ca_key"} THEN Truncated
                                                                                    ELSE cli[c].gen]
              /\ Go(c, [pc |-> next])
           \/ UNCHANGED ca /\ Return(c, "failed")
        /\ UNCHANGED <<daemonVars, proxyVars, startupVars, trusted, anchors, lastRoot>>

\* The notice beside the two files; a failure to write it fails the command.
InitReadme(c) ==
    /\ At(c, "ca_readme")
    /\ \E res \in {"created", "failed"} : Return(c, res)
    /\ UNCHANGED <<daemonVars, proxyVars, startupVars, caVars>>

-----------------------------------------------------------------------------
\* install_root_ca and uninstall_root_ca: root_ca_info reads the certificate,
\* then the trust store is changed by the certificate that is in the file when
\* the platform's tool opens it, or by the fingerprint that was read.

TrustRead(c) ==
    /\ At(c, "tr_read")
    /\ IF ca.cert \in {NoFile, Truncated} THEN Return(c, "failed")
       ELSE Go(c, [gen |-> ca.cert, pc |-> IF cli[c].cmd = "ca_install" THEN "tr_add" ELSE "tr_remove"])
    /\ UNCHANGED <<daemonVars, proxyVars, startupVars, caVars>>

\* An external tool changes the trust store to the given sets, or fails, or is
\* killed at its deadline with or without having done so.
Tool(c, newTrusted, newAnchors, res) ==
    \/ trusted' = newTrusted /\ anchors' = newAnchors /\ Return(c, res)
    \/ trusted' = newTrusted /\ anchors' = newAnchors /\ Return(c, "failed")
    \/ UNCHANGED <<trusted, anchors>> /\ Return(c, "failed")

\* `trust anchor --store | --remove` names the file.
LinuxTrust(c) ==
    /\ platform = "linux" /\ ca.cert > 0
    /\ \/ At(c, "tr_add") /\ Tool(c, trusted \cup {ca.cert}, anchors, "installed")
       \/ At(c, "tr_remove") /\ Tool(c, trusted \ {ca.cert}, anchors, "uninstalled")

\* `certutil -addstore` names the file, `-delstore` the thumbprint that was read.
WindowsTrust(c) ==
    /\ platform = "windows" /\ ca.cert > 0
    /\ \/ At(c, "tr_add") /\ Tool(c, trusted \cup {ca.cert}, anchors, "installed")
       \/ At(c, "tr_remove") /\ Tool(c, trusted \ {cli[c].gen}, anchors, "uninstalled")

\* `security add-trusted-cert` adds the certificate and its trust settings.
MacosInstall(c) ==
    /\ platform = "macos" /\ ca.cert > 0 /\ At(c, "tr_add")
    /\ Tool(c, trusted \cup {ca.cert}, anchors \cup {ca.cert}, "installed")

\* Trust settings for the fingerprint that was read are removed by the file's
\* name, one that is not found counting as removed, and only then the
\* certificate by its fingerprint.
trust_settings_contains_fingerprint(gen) == gen \in anchors
remove_trusted_certificate(c) ==
    \/ anchors' = anchors \ {ca.cert} /\ UNCHANGED trusted /\ Go(c, [pc |-> "tr_delete"])
    \/ anchors' \in {anchors, anchors \ {ca.cert}} /\ UNCHANGED trusted /\ Return(c, "failed")
delete_keychain_certificate(c) == Tool(c, trusted \ {cli[c].gen}, anchors, "uninstalled")

MacosUninstall(c) ==
    /\ platform = "macos"
    /\ \/ /\ At(c, "tr_remove")
          /\ \/ trust_settings_contains_fingerprint(cli[c].gen) /\ remove_trusted_certificate(c)
             \/ /\ ~trust_settings_contains_fingerprint(cli[c].gen)
                /\ Go(c, [pc |-> "tr_delete"]) /\ UNCHANGED <<trusted, anchors>>
       \/ At(c, "tr_delete") /\ delete_keychain_certificate(c)

\* The tool finds no certificate in the file: another invocation has emptied it.
TrustFileGone(c) ==
    /\ cli[c].pc \in {"tr_add", "tr_remove"} /\ ca.cert = Truncated
    /\ platform # "macos" \/ At(c, "tr_add")
    /\ Return(c, "failed") /\ UNCHANGED <<trusted, anchors>>

TrustTool(c) ==
    /\ LinuxTrust(c) \/ WindowsTrust(c) \/ MacosInstall(c) \/ MacosUninstall(c) \/ TrustFileGone(c)
    /\ UNCHANGED <<daemonVars, proxyVars, startupVars, ca, lastRoot>>

CaStep(c) == InitCheck(c) \/ InitWrite(c) \/ InitReadme(c) \/ TrustRead(c) \/ TrustTool(c)
=============================================================================
