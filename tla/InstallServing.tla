--------------------------- MODULE InstallServing ---------------------------
(***************************************************************************)
(* Install codes, the signed install script and the agent package as the   *)
(* gateway serves them, and the hosts that install from them               *)
(* (crates/warp-gateway: api/install.rs, install.sh,                       *)
(* infra/install_signing.rs, infra/config.rs).                             *)
(*                                                                         *)
(* The package, the signing key and the certificate are files that the     *)
(* admin replaces while the gateway runs.  The gateway keeps a hash of the *)
(* package and the parsed key, each under the time and length its file had *)
(* when it looked; several requests look, read and fill these caches at    *)
(* once.  The public key in the install command and the served certificate *)
(* are those of the start.                                                 *)
(*                                                                         *)
(* A file is a version, written whole or in part.  All versions have the   *)
(* same length: only a partial file is told from them by it.               *)
(***************************************************************************)
EXTENDS Integers

CONSTANTS
    Hosts,      \* hosts that install, one request each at a time
    MaxWrites   \* bound: times the admin replaces a file

ASSUME WritesAssumption == MaxWrites \in Nat

Files == {"package", "key", "cert"}
Platforms == {"linux", "macos"}

VARIABLES
    file,       \* the files
    served,     \* public key and certificate the process loaded when it started
    hashCache,  \* PACKAGE_HASH_CACHE
    keyCache,   \* SIGNING_KEY_CACHE
    host        \* the installs, with the request each waits for

gateway == <<served, hashCache, keyCache>>
installVars == <<file, gateway, host>>

None == [stamp |-> <<>>, content |-> <<>>]
Content(f) == <<file[f].version, file[f].whole>>

MutTimeOnly(f) == <<file[f].mtime>>
\* metadata: modification time and length
Stamp(f) == <<file[f].mtime, file[f].whole>>

Entry(stamp, content) == [stamp |-> stamp, content |-> content]

\* One install: the platform, where it is and for which of the three
\* renderings; what the command pins, the script (its package hash) and the
\* signature; the stamp and content of the gateway's request under way.
\* History: whether a file or the process changed since the code was requested.
Fresh == [pc |-> "idle", for |-> "code", platform |-> "linux", pin |-> <<>>, script |-> <<>>,
          signed |-> <<>>, stamp |-> <<>>, key |-> <<>>, disturbed |-> FALSE]

\* load_from_path and validate: the process starts only with a key that parses
\* and a certificate; reading the public key fills the cache.
Startable == file["key"].whole /\ file["cert"].whole

\* The public key of the install commands and the certificate of the listener
Loaded == [key |-> Content("key"), cert |-> Content("cert")]

InstallInit ==
    /\ file = [f \in Files |-> [version |-> 0, mtime |-> 0, whole |-> TRUE]]
    /\ served = Loaded
    /\ hashCache = None
    /\ keyCache = Entry(Stamp("key"), Content("key"))
    /\ host = [h \in Hosts |-> Fresh]

\* An install that is not under way.  It "failed" when what it was served does
\* not fit together, and was "refused" when a request was not answered.
Ended == {"idle", "installed", "failed", "refused"}

Goto(h, pc) == host' = [host EXCEPT ![h].pc = pc]
Fail(h) == Goto(h, "failed")
Refuse(h) ==
    /\ host' = [host EXCEPT ![h] = [Fresh EXCEPT !.pc = "refused"]]
    /\ UNCHANGED <<file, gateway>>

-----------------------------------------------------------------------------
(* The admin *)

Disturb == host' = [h \in Hosts |->
                        IF host[h].pc \in Ended THEN host[h]
                        ELSE [host[h] EXCEPT !.disturbed = TRUE]]

\* A file is replaced in two steps, as by cp: truncated, then written out,
\* perhaps within one tick of the file system's clock.  Two replacements are
\* a tick apart.
TruncateFile(f) ==
    /\ file[f].whole
    /\ file["package"].version + file["key"].version + file["cert"].version < MaxWrites
    /\ file' = [file EXCEPT ![f] = [version |-> @.version + 1, mtime |-> @.mtime + 1, whole |-> FALSE]]
    /\ Disturb
    /\ UNCHANGED gateway

WriteFile(f, ticks) ==
    /\ ~file[f].whole
    /\ file' = [file EXCEPT ![f].mtime = @ + ticks, ![f].whole = TRUE]
    /\ Disturb
    /\ UNCHANGED gateway

\* The process is restarted; the requests it was serving fail.
RestartGateway ==
    /\ Startable
    /\ served' = Loaded
    /\ hashCache' = None
    /\ keyCache' = Entry(Stamp("key"), Content("key"))
    /\ host' = [h \in Hosts |->
                    IF host[h].pc \in Ended THEN host[h]
                    ELSE [host[h] EXCEPT !.disturbed = TRUE, !.pc = "failed"]]
    /\ UNCHANGED file

-----------------------------------------------------------------------------
(* agent_package_sha256, called for the code, the script and the signature *)

\* get_agent_install_code: the token is stored (AgentEnrollment), then the
\* package hashed.
RequestInstallCode(h, platform) ==
    /\ host[h].pc = "idle"
    /\ host' = [host EXCEPT ![h] = [Fresh EXCEPT
                    !.pc = "stat", !.platform = platform,
                    !.disturbed = \/ \E f \in Files : ~file[f].whole
                                  \/ served # Loaded]]
    /\ UNCHANGED <<file, gateway>>

\* require_admin_bearer refuses (401, 429), or the token could not be stored or
\* its storing not be confirmed (500).
CodeRefused(h) ==
    /\ host[h].pc = "idle"
    /\ Refuse(h)

\* curl --pinnedpubkey: macOS only
Connects(h) ==
    host[h].platform = "macos" /\ host[h].for = "script" => host[h].pin = served.cert

\* The file is looked at before the cache is locked.
StatPackage(h) ==
    /\ host[h].pc = "stat"
    /\ Connects(h)
    /\ host' = [host EXCEPT ![h].stamp = Stamp("package"), ![h].pc = "hash"]
    /\ UNCHANGED <<file, gateway>>

ConnectionRefused(h) ==
    /\ host[h].pc = "stat"
    /\ ~Connects(h)
    /\ Fail(h)
    /\ UNCHANGED <<file, gateway>>

\* install_command embeds the public key of the start, macos_install_command
\* the pin of the certificate file as it is now, install_script the hash.
Rendered(h, hash) ==
    LET c == host[h] IN
    CASE c.for = "code" ->
            [c EXCEPT !.pc = "stat", !.for = "script",
                      !.pin = IF c.platform = "linux" THEN served.key ELSE Content("cert")]
      [] c.for = "script" /\ c.platform = "linux" ->
            [c EXCEPT !.pc = "stat", !.for = "signature", !.script = hash]
      [] c.for = "script" /\ c.platform = "macos" -> [c EXCEPT !.pc = "download", !.script = hash]
      [] c.for = "signature" -> [c EXCEPT !.pc = "key_stat", !.signed = hash]

\* Under the lock: the cached hash if the stamp is the same, or the hash of the
\* file, kept under the stamp taken before.  Rendering the code fails when the
\* certificate cannot be read.
HashPackage(h) ==
    LET hash == IF hashCache.stamp = host[h].stamp THEN hashCache.content ELSE Content("package")
    IN  /\ host[h].pc = "hash"
        /\ hashCache' = Entry(host[h].stamp, hash)
        /\ IF host[h].for = "code" /\ ~file["cert"].whole THEN Fail(h)
           ELSE host' = [host EXCEPT ![h] = [Rendered(h, hash) EXCEPT !.stamp = <<>>]]
        /\ UNCHANGED <<file, served, keyCache>>

-----------------------------------------------------------------------------
(* load_install_script_signing_key_pair and sign *)

StatKey(h) ==
    /\ host[h].pc = "key_stat"
    /\ host' = [host EXCEPT ![h].stamp = Stamp("key"), ![h].pc = "key_lookup"]
    /\ UNCHANGED <<file, gateway>>

Signed(h, key) == [host EXCEPT ![h].pc = "verify", ![h].key = key, ![h].stamp = <<>>]

KeyCached(h) ==
    /\ host[h].pc = "key_lookup"
    /\ keyCache.stamp = host[h].stamp
    /\ host' = Signed(h, keyCache.content)
    /\ UNCHANGED <<file, gateway>>

KeyNotCached(h) ==
    /\ host[h].pc = "key_lookup"
    /\ keyCache.stamp # host[h].stamp
    /\ Goto(h, "key_read")
    /\ UNCHANGED <<file, gateway>>

\* decode_private_key_pem: a partial file does not parse.
KeyParses == file["key"].whole

\* Outside the lock
ReadKey(h) ==
    /\ host[h].pc = "key_read"
    /\ IF KeyParses
        THEN host' = [host EXCEPT ![h].key = Content("key"), ![h].pc = "key_store"]
        ELSE Fail(h)
    /\ UNCHANGED <<file, gateway>>

MutStatAfterRead(h) == Entry(Stamp("key"), host[h].key)
\* The key as read, under the stamp taken before it was read.
KeyEntry(h) == Entry(host[h].stamp, host[h].key)

StoreKey(h) ==
    /\ host[h].pc = "key_store"
    /\ keyCache' = KeyEntry(h)
    /\ host' = Signed(h, host[h].key)
    /\ UNCHANGED <<file, served, hashCache>>

-----------------------------------------------------------------------------
(* The host: the install command, then install.sh *)

\* openssl pkeyutl -verify with the key of the command
VerifyScript(h) ==
    /\ host[h].pc = "verify"
    /\ IF host[h].key = host[h].pin /\ host[h].signed = host[h].script
        THEN Goto(h, "download") ELSE Fail(h)
    /\ UNCHANGED <<file, gateway>>

\* The script compares the bytes it downloaded with the hash in it.
PackageMatches(h) == Content("package") = host[h].script

\* download_agent_package
DownloadPackage(h) ==
    /\ host[h].pc = "download"
    /\ IF PackageMatches(h) THEN Goto(h, "configure") ELSE Fail(h)
    /\ UNCHANGED <<file, gateway>>

\* get_agent_initial_config_with_token
FetchConfig(h) ==
    /\ host[h].pc = "configure"
    /\ Goto(h, "installed")
    /\ UNCHANGED <<file, gateway>>

\* check_rate_limit refuses either of them (429).  The bucket is that of the peer
\* address, which other hosts share, so any check may find it blocked, whatever
\* this host did; how it comes to be is RateLimit.
RateLimited(h) ==
    /\ host[h].pc \in {"download", "configure"}
    /\ Refuse(h)

\* validate_bootstrap_token_for_config refuses either of them (401): the token
\* has expired or was used, or its store call fails (ValidateBootstrapToken of
\* AgentEnrollment).
TokenRefused(h) ==
    /\ host[h].pc \in {"download", "configure"}
    /\ Refuse(h)

\* A file cannot be looked at or read, or the connection breaks: the request is
\* not answered.  If its answer is lost, the caches are as it left them: the host
\* is then a step on.
RequestBreaks(h) ==
    /\ host[h].pc \in {"stat", "hash", "key_stat", "key_read", "verify", "download", "configure"}
    /\ Refuse(h)

\* The admin takes another code for the host.
TryAgain(h) ==
    /\ host[h].pc \in Ended \ {"idle"}
    /\ host' = [host EXCEPT ![h] = Fresh]
    /\ UNCHANGED <<file, gateway>>

HostStep(h) ==
    \/ \E platform \in Platforms : RequestInstallCode(h, platform)
    \/ StatPackage(h) \/ ConnectionRefused(h) \/ HashPackage(h)
    \/ StatKey(h) \/ KeyCached(h) \/ KeyNotCached(h) \/ ReadKey(h) \/ StoreKey(h)
    \/ VerifyScript(h) \/ DownloadPackage(h) \/ FetchConfig(h)
    \/ CodeRefused(h) \/ RateLimited(h) \/ TokenRefused(h) \/ RequestBreaks(h)
    \/ TryAgain(h)

InstallNext ==
    \/ \E f \in Files : TruncateFile(f)
    \/ \E f \in Files, ticks \in 0 .. 1 : WriteFile(f, ticks)
    \/ RestartGateway
    \/ \E h \in Hosts : HostStep(h)

InstallSpec == InstallInit /\ [][InstallNext]_installVars

-----------------------------------------------------------------------------
(* Properties *)

\* Whoever filled a cache last, with a stamp taken before or after a file was
\* replaced: when the stamp is that of the file now, the entry is its content.
CacheTrue ==
    /\ keyCache.stamp = Stamp("key") => keyCache.content = Content("key")
    /\ hashCache.stamp = Stamp("package") => hashCache.content = Content("package")

\* Script, signature and package come from three requests that render and read
\* anew.  When they are all answered, what they served fits together, unless a
\* file was replaced or the gateway restarted since the code was requested, or
\* the files of the start were replaced before: nothing an earlier request left
\* in a cache makes an install fail.
FailsOnlyIfDisturbed == \A h \in Hosts : host[h].pc = "failed" => host[h].disturbed
=============================================================================
