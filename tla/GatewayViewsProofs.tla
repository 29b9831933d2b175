------------------------- MODULE GatewayViewsProofs -------------------------
(***************************************************************************)
(* Proofs about what a gateway serves besides enrolment: its caches are    *)
(* true and make no install fail (InstallServing), the overview counts the *)
(* agents it should (AgentOverview), and the groups and the summary of the *)
(* pipeline add up to its rows (PipelineView).                             *)
(*                                                                         *)
(* The parts keep their state apart, so each is proved of its own          *)
(* specification, which ViewsSpec implies.  Sums are folds over finite     *)
(* sets: what is needed of them is proved here by induction over the       *)
(* subsets of a finite set, which are well-founded.                        *)
(***************************************************************************)
EXTENDS GatewayViews, FiniteSetTheorems, WellFoundedInduction, TLAPS

\* The installs of the gateway behave as InstallServing says: the other parts
\* leave them alone.
LEMMA InstallsApart == ViewsSpec => InstallSpec
<1>1. ViewsInit => InstallInit
  BY DEF ViewsInit
<1>2. [ViewsNext]_<<part, installVars, overviewVars, pipelineVars>> => [InstallNext]_installVars
  BY DEF ViewsNext, InstallsServed, OverviewServed, PipelineServed
<1> QED
  BY <1>1, <1>2, PTL DEF ViewsSpec, InstallSpec

\* So does the overview of its agents.
LEMMA OverviewApart == ViewsSpec => OverviewSpec
<1>1. ViewsInit => OverviewInit
  BY DEF ViewsInit
<1>2. [ViewsNext]_<<part, installVars, overviewVars, pipelineVars>> => [OverviewNext]_overviewVars
  BY DEF ViewsNext, InstallsServed, OverviewServed, PipelineServed
<1> QED
  BY <1>1, <1>2, PTL DEF ViewsSpec, OverviewSpec

\* And so does the view of its pipeline.
LEMMA PipelineApart == ViewsSpec => PipelineSpec
<1>1. ViewsInit => PipelineInit
  BY DEF ViewsInit
<1>2. [ViewsNext]_<<part, installVars, overviewVars, pipelineVars>> => [PipelineNext]_pipelineVars
  BY DEF ViewsNext, InstallsServed, OverviewServed, PipelineServed
<1> QED
  BY <1>1, <1>2, PTL DEF ViewsSpec, PipelineSpec

-----------------------------------------------------------------------------
(* The installs: files, stamps and caches *)

\* A stamp or a content, and one that may be missing
Pair == Nat \X BOOLEAN
Perhaps == Pair \cup {<<>>}

Row == [version : Nat, mtime : Nat, whole : BOOLEAN]
StampOf(row) == <<row.mtime, row.whole>>
ContentOf(row) == <<row.version, row.whole>>

Steps == {"idle", "stat", "hash", "key_stat", "key_lookup", "key_read", "key_store", "verify",
          "download", "configure", "installed", "failed", "refused"}
Install == [pc : Steps, for : {"code", "script", "signature"}, platform : Platforms, pin : Perhaps,
            script : Perhaps, signed : Perhaps, stamp : Perhaps, key : Perhaps, disturbed : BOOLEAN]
CacheEntry == [stamp : Perhaps, content : Perhaps]

\* The stamp was that of the file at an earlier moment and is not any more, nor
\* will be.
Before(stamp, row) ==
    \/ stamp = <<>>
    \/ stamp[1] < row.mtime
    \/ stamp[1] = row.mtime /\ ~stamp[2] /\ row.whole

SeenOf(stamp, row) == stamp = StampOf(row) \/ Before(stamp, row)

\* The content is that of the file under this stamp, or the stamp is over.
Holds(stamp, content, row) ==
    \/ stamp = StampOf(row) /\ content = ContentOf(row)
    \/ Before(stamp, row)

InstallTyped ==
    /\ file \in [Files -> Row]
    /\ served \in [key : Pair, cert : Pair]
    /\ hashCache \in CacheEntry
    /\ keyCache \in CacheEntry
    /\ host \in [Hosts -> Install]

CachesHold ==
    /\ Holds(hashCache.stamp, hashCache.content, file["package"])
    /\ Holds(keyCache.stamp, keyCache.content, file["key"])

\* What a request carries over its steps goes back to what it looked at.
Carried(c, files) ==
    /\ c.pc = "hash" => SeenOf(c.stamp, files["package"])
    /\ c.pc \in {"key_lookup", "key_read"} => SeenOf(c.stamp, files["key"])
    /\ c.pc = "key_store" => Holds(c.stamp, c.key, files["key"])

Active(c) == c.pc \notin Ended
Signing == {"key_stat", "key_lookup", "key_read", "key_store", "verify"}

\* An install nothing came across holds what the files and the process have.
OnCourse(c, files, now) ==
    /\ \A f \in Files : files[f].whole
    /\ now = [key |-> ContentOf(files["key"]), cert |-> ContentOf(files["cert"])]
    /\ c.for # "code" => c.pin = IF c.platform = "linux" THEN ContentOf(files["key"]) ELSE ContentOf(files["cert"])
    /\ c.pc = "hash" => c.stamp = StampOf(files["package"])
    /\ c.pc \in {"key_lookup", "key_read", "key_store"} => c.stamp = StampOf(files["key"])
    /\ c.for = "signature" \/ c.pc \in {"download", "configure"} => c.script = ContentOf(files["package"])
    /\ c.pc \in Signing => c.for = "signature" /\ c.signed = ContentOf(files["package"])
    /\ c.for = "signature" => c.platform = "linux"
    /\ c.pc \in {"key_store", "verify"} => c.key = ContentOf(files["key"])

HostOK(c, files, now) ==
    /\ Carried(c, files)
    /\ c.pc = "failed" => c.disturbed
    /\ Active(c) /\ ~c.disturbed => OnCourse(c, files, now)

HostsOK == \A h \in Hosts : HostOK(host[h], file, served)

InstallInv == InstallTyped /\ CachesHold /\ HostsOK

-----------------------------------------------------------------------------
\* A replaced file leaves every stamp that was seen of it behind.
LEMMA TruncatedIsLater ==
    ASSUME NEW row \in Row, NEW stamp \in Perhaps, SeenOf(stamp, row), NEW next \in Row,
           next.mtime = row.mtime + 1
    PROVE  Before(stamp, next)
BY DEF SeenOf, Before, StampOf, Perhaps, Pair, Row

\* The file is written out at the same moment or a tick later: whole, it does
\* not have the stamp it had in part.
LEMMA WrittenIsLater ==
    ASSUME NEW row \in Row, ~row.whole, NEW stamp \in Perhaps, SeenOf(stamp, row), NEW next \in Row,
           NEW ticks \in 0 .. 1, next.mtime = row.mtime + ticks, next.whole
    PROVE  Before(stamp, next)
BY DEF SeenOf, Before, StampOf, Perhaps, Pair, Row

\* What the file has now is never over.
LEMMA NowIsNotBefore ==
    ASSUME NEW row \in Row
    PROVE  ~Before(StampOf(row), row)
BY DEF Before, StampOf, Row

\* Stamp and Content in the terms used here
LEMMA StampContent ==
    ASSUME InstallTyped, NEW f \in Files
    PROVE  /\ Stamp(f) = StampOf(file[f]) /\ Content(f) = ContentOf(file[f])
           /\ Stamp(f) \in Pair /\ Content(f) \in Pair
BY DEF InstallTyped, Stamp, StampOf, Content, ContentOf, Pair, Row

-----------------------------------------------------------------------------
\* One host moves on and the files stay: it suffices to look at that host.
LEMMA HostMoves ==
    ASSUME InstallInv, NEW h \in Hosts, NEW c \in Install, host' = [host EXCEPT ![h] = c],
           file' = file, served' = served, HostOK(c, file, served)
    PROVE  host' \in [Hosts -> Install] /\ HostsOK'
<1>1. host \in [Hosts -> Install] /\ \A k \in Hosts : HostOK(host[k], file, served)
  BY DEF InstallInv, InstallTyped, HostsOK
<1>2. host' \in [Hosts -> Install] /\ \A k \in Hosts : host'[k] = IF k = h THEN c ELSE host[k]
  BY <1>1
<1>3. \A k \in Hosts : HostOK(host'[k], file', served')
  BY <1>1, <1>2
<1> QED
  BY <1>2, <1>3 DEF HostsOK

\* Nothing but that host changes.
LEMMA OnlyHostMoves ==
    ASSUME InstallInv, NEW h \in Hosts, NEW c \in Install, host' = [host EXCEPT ![h] = c],
           UNCHANGED <<file, gateway>>, HostOK(c, file, served)
    PROVE  InstallInv'
<1>1. file' = file /\ served' = served /\ hashCache' = hashCache /\ keyCache' = keyCache
  BY DEF gateway
<1>2. host' \in [Hosts -> Install] /\ HostsOK'
  BY <1>1, HostMoves
<1>3. InstallTyped' /\ CachesHold'
  BY <1>1, <1>2 DEF InstallInv, InstallTyped, CachesHold
<1> QED
  BY <1>2, <1>3 DEF InstallInv

\* A failed install is fine when something came across it.
LEMMA FailureAllowed ==
    ASSUME InstallInv, NEW h \in Hosts, Fail(h), host[h].disturbed, UNCHANGED <<file, gateway>>
    PROVE  InstallInv'
<1>1. host[h] \in Install
  BY DEF InstallInv, InstallTyped
<1>2. PICK c \in Install : c = [host[h] EXCEPT !.pc = "failed"]
  BY <1>1 DEF Install, Steps
<1>3. c.pc = "failed" /\ c.disturbed
  BY <1>1, <1>2 DEF Install
<1>4. HostOK(c, file, served)
  BY <1>3 DEF HostOK, Carried, Active, Ended
<1>5. host' = [host EXCEPT ![h] = c]
  BY <1>2 DEF Fail, Goto
<1> QED
  BY <1>4, <1>5, OnlyHostMoves

\* What is known of a host before its step
LEMMA HostKnown ==
    ASSUME InstallInv, NEW h \in Hosts
    PROVE  /\ host[h] \in Install
           /\ HostOK(host[h], file, served)
           /\ \A f \in Files : Stamp(f) = StampOf(file[f]) /\ Content(f) = ContentOf(file[f])
           /\ \A f \in Files : Stamp(f) \in Pair /\ Content(f) \in Pair
BY StampContent DEF InstallInv, InstallTyped, HostsOK

\* A code is requested: nothing is on its way yet.
LEMMA RequestStep ==
    ASSUME InstallInv, NEW h \in Hosts, NEW platform \in Platforms, RequestInstallCode(h, platform)
    PROVE  InstallInv'
<1>1. PICK c : c = [Fresh EXCEPT !.pc = "stat", !.platform = platform,
                    !.disturbed = \/ \E f \in Files : ~file[f].whole
                                  \/ served # Loaded]
  OBVIOUS
<1>2. /\ c.pc = "stat" /\ c.for = "code" /\ c \in Install
      /\ ~c.disturbed => (\A f \in Files : file[f].whole) /\ served = Loaded
  BY <1>1 DEF Fresh, Install, Steps, Perhaps, Pair
<1>3. Loaded = [key |-> ContentOf(file["key"]), cert |-> ContentOf(file["cert"])]
  BY HostKnown DEF Loaded, Files
<1>4. HostOK(c, file, served)
  BY <1>2, <1>3 DEF HostOK, Carried, Active, Ended, OnCourse, Signing
<1>5. host' = [host EXCEPT ![h] = c] /\ UNCHANGED <<file, gateway>>
  BY <1>1 DEF RequestInstallCode
<1> QED
  BY <1>2, <1>4, <1>5, OnlyHostMoves

\* The package is looked at.
LEMMA StatPackageStep ==
    ASSUME InstallInv, NEW h \in Hosts, StatPackage(h)
    PROVE  InstallInv'
<1> USE HostKnown
<1>1. PICK c : c = [host[h] EXCEPT !.stamp = Stamp("package"), !.pc = "hash"]
  OBVIOUS
<1>2. /\ c \in Install /\ c.pc = "hash" /\ c.stamp = StampOf(file["package"])
      /\ c.for = host[h].for /\ c.platform = host[h].platform /\ c.pin = host[h].pin /\ c.script = host[h].script
      /\ c.disturbed = host[h].disturbed
  BY <1>1 DEF Install, Steps, Files, Perhaps
<1>3. host[h].pc = "stat"
  BY DEF StatPackage
<1>4. HostOK(c, file, served)
  BY <1>2, <1>3 DEF HostOK, Carried, Active, Ended, OnCourse, Signing, SeenOf
<1>5. host' = [host EXCEPT ![h] = c] /\ UNCHANGED <<file, gateway>>
  BY <1>1 DEF StatPackage
<1> QED
  BY <1>2, <1>4, <1>5, OnlyHostMoves

\* Only a host whose pinned certificate is not the served one is refused.
LEMMA ConnectionRefusedStep ==
    ASSUME InstallInv, NEW h \in Hosts, ConnectionRefused(h)
    PROVE  InstallInv'
<1> USE HostKnown
<1>1. host[h].pc = "stat" /\ ~Connects(h) /\ Fail(h) /\ UNCHANGED <<file, gateway>>
  BY DEF ConnectionRefused
<1>2. ASSUME ~host[h].disturbed PROVE FALSE
  <2>1. OnCourse(host[h], file, served)
    BY <1>1, <1>2 DEF HostOK, Active, Ended
  <2>2. host[h].pin = ContentOf(file["cert"]) /\ served.cert = ContentOf(file["cert"])
    BY <1>1, <2>1 DEF OnCourse, Connects
  <2> QED
    BY <1>1, <2>2 DEF Connects
<1> QED
  BY <1>1, <1>2, FailureAllowed

\* The hash a request is given: the cached one, or that of the file
HashFor(h) == IF hashCache.stamp = host[h].stamp THEN hashCache.content ELSE Content("package")

\* It is kept under the stamp taken before, and rightly so: the file has that
\* stamp still and this content, or will never have that stamp again.
LEMMA HashHolds ==
    ASSUME InstallInv, NEW h \in Hosts, host[h].pc = "hash"
    PROVE  /\ HashFor(h) \in Perhaps
           /\ Holds(host[h].stamp, HashFor(h), file["package"])
           /\ host[h].stamp = StampOf(file["package"]) => HashFor(h) = ContentOf(file["package"])
<1>1. /\ SeenOf(host[h].stamp, file["package"]) /\ file["package"] \in Row
      /\ Content("package") = ContentOf(file["package"]) /\ Content("package") \in Perhaps
      /\ hashCache \in CacheEntry
  BY HostKnown DEF HostOK, Carried, Files, Perhaps, InstallInv, InstallTyped
<1>2. Holds(hashCache.stamp, hashCache.content, file["package"])
  BY DEF InstallInv, CachesHold
<1>3. Holds(host[h].stamp, HashFor(h), file["package"])
  BY <1>1, <1>2 DEF HashFor, Holds, SeenOf
<1>4. ~Before(StampOf(file["package"]), file["package"])
  BY <1>1, NowIsNotBefore
<1> QED
  BY <1>1, <1>3, <1>4 DEF HashFor, Holds, CacheEntry

\* The rendering of one of the three requests
LEMMA RenderedOK ==
    ASSUME InstallInv, NEW h \in Hosts, host[h].pc = "hash",
           NEW c, c = [Rendered(h, HashFor(h)) EXCEPT !.stamp = <<>>]
    PROVE  c \in Install /\ HostOK(c, file, served)
<1> DEFINE x == host[h]
<1>1. /\ x \in Install /\ HostOK(x, file, served) /\ x.pc = "hash"
      /\ HashFor(h) \in Perhaps
      /\ x.stamp = StampOf(file["package"]) => HashFor(h) = ContentOf(file["package"])
      /\ Content("cert") \in Perhaps /\ Content("cert") = ContentOf(file["cert"])
      /\ served.key \in Perhaps
  BY HostKnown, HashHolds DEF InstallInv, InstallTyped, Perhaps, Files
<1>2. ~x.disturbed => OnCourse(x, file, served) /\ HashFor(h) = ContentOf(file["package"])
  BY <1>1 DEF HostOK, Active, Ended, OnCourse
<1>3. CASE x.for = "code"
  <2>1. c = [x EXCEPT !.pc = "stat", !.for = "script",
                      !.pin = IF x.platform = "linux" THEN served.key ELSE Content("cert"), !.stamp = <<>>]
    BY <1>1, <1>3 DEF Rendered, Install
  <2>2. /\ c \in Install /\ c.pc = "stat" /\ c.for = "script" /\ c.platform = x.platform
        /\ c.disturbed = x.disturbed
        /\ c.pin = IF x.platform = "linux" THEN served.key ELSE Content("cert")
    BY <1>1, <2>1 DEF Install, Steps, Perhaps
  <2>3. ~x.disturbed => served.key = ContentOf(file["key"])
    BY <1>2 DEF OnCourse
  <2> QED
    BY <1>1, <1>2, <2>2, <2>3 DEF HostOK, Carried, Active, Ended, OnCourse, Signing
<1>4. CASE x.for = "script" /\ x.platform = "linux"
  <2>1. c = [x EXCEPT !.pc = "stat", !.for = "signature", !.script = HashFor(h), !.stamp = <<>>]
    BY <1>1, <1>4 DEF Rendered, Install
  <2>2. /\ c \in Install /\ c.pc = "stat" /\ c.for = "signature" /\ c.platform = x.platform
        /\ c.disturbed = x.disturbed /\ c.pin = x.pin /\ c.script = HashFor(h)
    BY <1>1, <2>1 DEF Install, Steps, Perhaps
  <2> QED
    BY <1>1, <1>2, <1>4, <2>2 DEF HostOK, Carried, Active, Ended, OnCourse, Signing
<1>5. CASE x.for = "script" /\ x.platform = "macos"
  <2>1. c = [x EXCEPT !.pc = "download", !.script = HashFor(h), !.stamp = <<>>]
    BY <1>1, <1>5 DEF Rendered, Install
  <2>2. /\ c \in Install /\ c.pc = "download" /\ c.for = "script" /\ c.platform = x.platform
        /\ c.disturbed = x.disturbed /\ c.pin = x.pin /\ c.script = HashFor(h)
    BY <1>1, <1>5, <2>1 DEF Install, Steps, Perhaps
  <2> QED
    BY <1>1, <1>2, <1>5, <2>2 DEF HostOK, Carried, Active, Ended, OnCourse, Signing
<1>6. CASE x.for = "signature"
  <2>1. c = [x EXCEPT !.pc = "key_stat", !.signed = HashFor(h), !.stamp = <<>>]
    BY <1>1, <1>6 DEF Rendered, Install
  <2>2. /\ c \in Install /\ c.pc = "key_stat" /\ c.for = "signature" /\ c.platform = x.platform
        /\ c.disturbed = x.disturbed /\ c.pin = x.pin /\ c.script = x.script /\ c.signed = HashFor(h)
    BY <1>1, <1>6, <2>1 DEF Install, Steps, Perhaps
  <2> QED
    BY <1>1, <1>2, <1>6, <2>2 DEF HostOK, Carried, Active, Ended, OnCourse, Signing
<1>7. x.for \in {"code", "script", "signature"} /\ x.platform \in {"linux", "macos"}
  BY <1>1 DEF Install, Platforms
<1> QED
  BY <1>3, <1>4, <1>5, <1>6, <1>7

\* The package is hashed and the request answered.
LEMMA HashPackageStep ==
    ASSUME InstallInv, NEW h \in Hosts, HashPackage(h)
    PROVE  InstallInv'
<1> USE HostKnown
<1>1. /\ host[h].pc = "hash" /\ hashCache' = Entry(host[h].stamp, HashFor(h))
      /\ IF host[h].for = "code" /\ ~file["cert"].whole THEN Fail(h)
         ELSE host' = [host EXCEPT ![h] = [Rendered(h, HashFor(h)) EXCEPT !.stamp = <<>>]]
      /\ file' = file /\ served' = served /\ keyCache' = keyCache
  BY DEF HashPackage, HashFor
<1>2. HashFor(h) \in Perhaps /\ Holds(host[h].stamp, HashFor(h), file["package"]) /\ host[h].stamp \in Perhaps
  BY <1>1, HashHolds DEF Install
<1>3. host' \in [Hosts -> Install] /\ HostsOK'
  <2>1. CASE host[h].for = "code" /\ ~file["cert"].whole
    <3>1. host[h].disturbed
      BY <1>1, <2>1 DEF HostOK, Active, Ended, OnCourse, Files
    <3>2. PICK c \in Install : c = [host[h] EXCEPT !.pc = "failed"]
      BY DEF Install, Steps
    <3>3. c.pc = "failed" /\ c.disturbed
      BY <3>1, <3>2 DEF Install
    <3>4. HostOK(c, file, served)
      BY <3>3 DEF HostOK, Carried, Active, Ended
    <3> QED
      BY <1>1, <2>1, <3>2, <3>4, HostMoves DEF Fail, Goto
  <2>2. CASE ~(host[h].for = "code" /\ ~file["cert"].whole)
    <3>1. PICK c : c = [Rendered(h, HashFor(h)) EXCEPT !.stamp = <<>>]
      OBVIOUS
    <3>2. c \in Install /\ HostOK(c, file, served)
      BY <1>1, <3>1, RenderedOK
    <3> QED
      BY <1>1, <2>2, <3>1, <3>2, HostMoves
  <2> QED
    BY <2>1, <2>2
<1>4. InstallTyped'
  BY <1>1, <1>2, <1>3 DEF InstallInv, InstallTyped, CacheEntry, Entry
<1>5. CachesHold'
  BY <1>1, <1>2 DEF InstallInv, CachesHold, Entry
<1> QED
  BY <1>3, <1>4, <1>5 DEF InstallInv

\* The key is looked at.
LEMMA StatKeyStep ==
    ASSUME InstallInv, NEW h \in Hosts, StatKey(h)
    PROVE  InstallInv'
<1> USE HostKnown
<1>1. PICK c : c = [host[h] EXCEPT !.stamp = Stamp("key"), !.pc = "key_lookup"]
  OBVIOUS
<1>2. /\ c \in Install /\ c.pc = "key_lookup" /\ c.stamp = StampOf(file["key"])
      /\ c.for = host[h].for /\ c.platform = host[h].platform /\ c.pin = host[h].pin /\ c.script = host[h].script
      /\ c.signed = host[h].signed /\ c.disturbed = host[h].disturbed
  BY <1>1 DEF Install, Steps, Files, Perhaps
<1>3. host[h].pc = "key_stat" /\ host' = [host EXCEPT ![h] = c] /\ UNCHANGED <<file, gateway>>
  BY <1>1 DEF StatKey
<1>4. HostOK(c, file, served)
  BY <1>2, <1>3 DEF HostOK, Carried, Active, Ended, OnCourse, Signing, SeenOf
<1> QED
  BY <1>2, <1>3, <1>4, OnlyHostMoves

\* The signature is made with a key: the cached one, or the one read.
LEMMA SignedOK ==
    ASSUME InstallInv, NEW h \in Hosts, host[h].pc \in {"key_lookup", "key_store"}, NEW key \in Perhaps,
           host[h].stamp = StampOf(file["key"]) => key = ContentOf(file["key"]),
           NEW c, c = [host[h] EXCEPT !.pc = "verify", !.key = key, !.stamp = <<>>]
    PROVE  c \in Install /\ HostOK(c, file, served)
<1> USE HostKnown
<1>1. /\ c \in Install /\ c.pc = "verify" /\ c.key = key
      /\ c.for = host[h].for /\ c.platform = host[h].platform /\ c.pin = host[h].pin /\ c.script = host[h].script
      /\ c.signed = host[h].signed /\ c.disturbed = host[h].disturbed
  BY DEF Install, Steps, Perhaps
<1>2. ~c.disturbed => OnCourse(host[h], file, served)
  BY <1>1 DEF HostOK, Active, Ended
<1>3. ~c.disturbed => OnCourse(c, file, served)
  BY <1>1, <1>2 DEF OnCourse, Signing
<1> QED
  BY <1>1, <1>3 DEF HostOK, Carried, Active, Ended

\* The key of the cache has the stamp of the request.
LEMMA KeyCachedStep ==
    ASSUME InstallInv, NEW h \in Hosts, KeyCached(h)
    PROVE  InstallInv'
<1>1. /\ host[h].pc = "key_lookup" /\ keyCache.stamp = host[h].stamp
      /\ host' = Signed(h, keyCache.content) /\ UNCHANGED <<file, gateway>>
  BY DEF KeyCached
<1>2. keyCache.content \in Perhaps /\ Holds(keyCache.stamp, keyCache.content, file["key"]) /\ file["key"] \in Row
  BY DEF InstallInv, InstallTyped, CachesHold, CacheEntry, Files
<1>3. host[h].stamp = StampOf(file["key"]) => keyCache.content = ContentOf(file["key"])
  BY <1>1, <1>2, NowIsNotBefore DEF Holds
<1>4. PICK c : c = [host[h] EXCEPT !.pc = "verify", !.key = keyCache.content, !.stamp = <<>>]
  OBVIOUS
<1>5. c \in Install /\ HostOK(c, file, served)
  BY <1>1, <1>2, <1>3, <1>4, SignedOK
<1>6. host' = [host EXCEPT ![h] = c]
  BY <1>1, <1>4, HostKnown DEF Signed, Install
<1> QED
  BY <1>1, <1>5, <1>6, OnlyHostMoves

\* The key of the cache has another one.
LEMMA KeyNotCachedStep ==
    ASSUME InstallInv, NEW h \in Hosts, KeyNotCached(h)
    PROVE  InstallInv'
<1> USE HostKnown
<1>1. PICK c : c = [host[h] EXCEPT !.pc = "key_read"]
  OBVIOUS
<1>2. /\ c \in Install /\ c.pc = "key_read" /\ c.stamp = host[h].stamp
      /\ c.for = host[h].for /\ c.platform = host[h].platform /\ c.pin = host[h].pin /\ c.script = host[h].script
      /\ c.signed = host[h].signed /\ c.disturbed = host[h].disturbed
  BY <1>1 DEF Install, Steps
<1>3. host[h].pc = "key_lookup" /\ host' = [host EXCEPT ![h] = c] /\ UNCHANGED <<file, gateway>>
  BY <1>1 DEF KeyNotCached, Goto
<1>4. HostOK(c, file, served)
  BY <1>2, <1>3 DEF HostOK, Carried, Active, Ended, OnCourse, Signing
<1> QED
  BY <1>2, <1>3, <1>4, OnlyHostMoves

\* The key is read after it was looked at: it is that key, or the stamp is over.
LEMMA ReadKeyStep ==
    ASSUME InstallInv, NEW h \in Hosts, ReadKey(h)
    PROVE  InstallInv'
<1> USE HostKnown
<1>1. host[h].pc = "key_read" /\ UNCHANGED <<file, gateway>>
  BY DEF ReadKey
<1>2. CASE ~KeyParses
  <2>1. Fail(h)
    BY <1>2 DEF ReadKey
  <2>2. host[h].disturbed
    BY <1>1, <1>2 DEF HostOK, Active, Ended, OnCourse, Files, KeyParses
  <2> QED
    BY <1>1, <2>1, <2>2, FailureAllowed
<1>3. CASE KeyParses
  <2>1. PICK c : c = [host[h] EXCEPT !.key = Content("key"), !.pc = "key_store"]
    OBVIOUS
  <2>2. /\ c \in Install /\ c.pc = "key_store" /\ c.stamp = host[h].stamp /\ c.key = ContentOf(file["key"])
        /\ c.for = host[h].for /\ c.platform = host[h].platform /\ c.pin = host[h].pin
        /\ c.script = host[h].script /\ c.signed = host[h].signed /\ c.disturbed = host[h].disturbed
    BY <2>1 DEF Install, Steps, Files, Perhaps
  <2>3. HostOK(c, file, served)
    BY <1>1, <2>2 DEF HostOK, Carried, Active, Ended, OnCourse, Signing, SeenOf, Holds
  <2>4. host' = [host EXCEPT ![h] = c]
    BY <1>3, <2>1 DEF ReadKey
  <2> QED
    BY <1>1, <2>2, <2>3, <2>4, OnlyHostMoves
<1> QED
  BY <1>2, <1>3

\* The key is kept, after other requests kept theirs perhaps.
LEMMA StoreKeyStep ==
    ASSUME InstallInv, NEW h \in Hosts, StoreKey(h)
    PROVE  InstallInv'
<1>1. /\ host[h].pc = "key_store" /\ keyCache' = Entry(host[h].stamp, host[h].key)
      /\ host' = Signed(h, host[h].key)
      /\ file' = file /\ served' = served /\ hashCache' = hashCache
  BY DEF StoreKey, KeyEntry
<1>2. /\ host[h].stamp \in Perhaps /\ host[h].key \in Perhaps /\ file["key"] \in Row
      /\ Holds(host[h].stamp, host[h].key, file["key"])
  BY <1>1, HostKnown DEF Install, HostOK, Carried, InstallInv, InstallTyped, Files
<1>3. host[h].stamp = StampOf(file["key"]) => host[h].key = ContentOf(file["key"])
  BY <1>2, NowIsNotBefore DEF Holds
<1>4. PICK c : c = [host[h] EXCEPT !.pc = "verify", !.key = host[h].key, !.stamp = <<>>]
  OBVIOUS
<1>5. c \in Install /\ HostOK(c, file, served)
  BY <1>1, <1>2, <1>3, <1>4, SignedOK
<1>6. host' = [host EXCEPT ![h] = c]
  BY <1>1, <1>4, HostKnown DEF Signed, Install
<1>7. host' \in [Hosts -> Install] /\ HostsOK'
  BY <1>1, <1>5, <1>6, HostMoves
<1>8. InstallTyped'
  BY <1>1, <1>2, <1>7 DEF InstallInv, InstallTyped, CacheEntry, Entry
<1>9. CachesHold'
  BY <1>1, <1>2 DEF InstallInv, CachesHold, Entry
<1> QED
  BY <1>7, <1>8, <1>9 DEF InstallInv

\* The signature is verified, the package downloaded, the config fetched.
LEMMA InstallerStep ==
    ASSUME InstallInv, NEW h \in Hosts, VerifyScript(h) \/ DownloadPackage(h) \/ FetchConfig(h)
    PROVE  InstallInv'
<1> USE HostKnown
<1>1. /\ UNCHANGED <<file, gateway>>
      /\ host[h].pc \in {"verify", "download", "configure"}
      /\ \/ Fail(h) /\ host[h].pc = "verify" /\ ~(host[h].key = host[h].pin /\ host[h].signed = host[h].script)
         \/ Fail(h) /\ host[h].pc = "download" /\ ~PackageMatches(h)
         \/ Goto(h, "download") /\ host[h].pc = "verify"
         \/ Goto(h, "configure") /\ host[h].pc = "download"
         \/ Goto(h, "installed") /\ host[h].pc = "configure"
  BY DEF VerifyScript, DownloadPackage, FetchConfig
<1>2. CASE Fail(h) /\ host[h].pc = "verify" /\ ~(host[h].key = host[h].pin /\ host[h].signed = host[h].script)
  <2>1. host[h].disturbed
    BY <1>2 DEF HostOK, Active, Ended, OnCourse, Signing
  <2> QED
    BY <1>1, <1>2, <2>1, FailureAllowed
<1>3. CASE Fail(h) /\ host[h].pc = "download" /\ ~PackageMatches(h)
  <2>1. host[h].disturbed
    BY <1>3 DEF HostOK, Active, Ended, OnCourse, PackageMatches, Files
  <2> QED
    BY <1>1, <1>3, <2>1, FailureAllowed
<1>4. ASSUME NEW pc \in {"download", "configure", "installed"}, Goto(h, pc),
             pc = "download" => host[h].pc = "verify", pc = "configure" => host[h].pc = "download"
      PROVE  InstallInv'
  <2>1. PICK c : c = [host[h] EXCEPT !.pc = pc]
    OBVIOUS
  <2>2. /\ c \in Install /\ c.pc = pc
        /\ c.for = host[h].for /\ c.platform = host[h].platform /\ c.pin = host[h].pin
        /\ c.script = host[h].script /\ c.disturbed = host[h].disturbed
    BY <2>1 DEF Install, Steps
  <2>3. HostOK(c, file, served)
    BY <1>4, <2>2 DEF HostOK, Carried, Active, Ended, OnCourse, Signing
  <2>4. host' = [host EXCEPT ![h] = c]
    BY <1>4, <2>1 DEF Goto
  <2> QED
    BY <1>1, <2>2, <2>3, <2>4, OnlyHostMoves
<1> QED
  BY <1>1, <1>2, <1>3, <1>4

\* A request is not answered, or another code taken.
LEMMA EndedStep ==
    ASSUME InstallInv, NEW h \in Hosts,
           CodeRefused(h) \/ RateLimited(h) \/ TokenRefused(h) \/ RequestBreaks(h) \/ TryAgain(h)
    PROVE  InstallInv'
<1> USE HostKnown
<1>1. CASE Refuse(h)
  <2>1. PICK c : c = [Fresh EXCEPT !.pc = "refused"]
    OBVIOUS
  <2>2. c \in Install /\ c.pc = "refused"
    BY <2>1 DEF Fresh, Install, Steps, Platforms, Perhaps
  <2>3. HostOK(c, file, served)
    BY <2>2 DEF HostOK, Carried, Active, Ended
  <2>4. host' = [host EXCEPT ![h] = c] /\ UNCHANGED <<file, gateway>>
    BY <1>1, <2>1 DEF Refuse
  <2> QED
    BY <2>2, <2>3, <2>4, OnlyHostMoves
<1>2. CASE TryAgain(h)
  <2>1. PICK c : c = Fresh
    OBVIOUS
  <2>2. c \in Install /\ HostOK(c, file, served)
    BY <2>1 DEF Fresh, Install, Steps, Platforms, Perhaps, HostOK, Carried, Active, Ended
  <2>3. host' = [host EXCEPT ![h] = c] /\ UNCHANGED <<file, gateway>>
    BY <1>2, <2>1 DEF TryAgain
  <2> QED
    BY <2>2, <2>3, OnlyHostMoves
<1> QED
  BY <1>1, <1>2 DEF CodeRefused, RateLimited, TokenRefused, RequestBreaks

\* A file becomes another one: what was seen of it is over, and every install
\* on its way is disturbed.
LEMMA FileMoves ==
    ASSUME InstallInv, NEW f \in Files, NEW next \in Row,
           \A stamp \in Perhaps : SeenOf(stamp, file[f]) => Before(stamp, next),
           file' = [file EXCEPT ![f] = next], Disturb, UNCHANGED gateway
    PROVE  InstallInv'
<1>1. /\ file \in [Files -> Row] /\ file' \in [Files -> Row]
      /\ \A g \in Files : file'[g] = IF g = f THEN next ELSE file[g]
      /\ served' = served /\ hashCache' = hashCache /\ keyCache' = keyCache
  BY DEF InstallInv, InstallTyped, gateway
<1>2. \A g \in Files, stamp \in Perhaps : SeenOf(stamp, file[g]) => SeenOf(stamp, file'[g])
  BY <1>1 DEF SeenOf
<1>3. \A g \in Files, stamp \in Perhaps, content \in Perhaps :
        Holds(stamp, content, file[g]) => Holds(stamp, content, file'[g])
  BY <1>1 DEF Holds, SeenOf
<1>4. ASSUME NEW h \in Hosts PROVE host'[h] \in Install /\ HostOK(host'[h], file', served')
  <2>1. host[h] \in Install /\ HostOK(host[h], file, served)
    BY HostKnown
  <2>2. /\ host'[h] \in Install /\ host'[h].pc = host[h].pc
        /\ host'[h].stamp = host[h].stamp /\ host'[h].key = host[h].key
        /\ Active(host[h]) => host'[h].disturbed
        /\ ~Active(host[h]) => host'[h].disturbed = host[h].disturbed
    BY <2>1 DEF Disturb, Active, Ended, Install
  <2>3. host[h].stamp \in Perhaps /\ host[h].key \in Perhaps
    BY <2>1 DEF Install
  <2>4. Carried(host'[h], file')
    BY <1>2, <1>3, <2>1, <2>2, <2>3 DEF HostOK, Carried, Files
  <2> QED
    BY <2>1, <2>2, <2>4 DEF HostOK, Active, Ended
<1>5. InstallTyped'
  <2>1. host' = [h \in Hosts |-> host'[h]]
    BY DEF Disturb
  <2>2. host' \in [Hosts -> Install]
    BY <1>4, <2>1
  <2> QED
    BY <1>1, <2>2 DEF InstallInv, InstallTyped
<1>6. CachesHold'
  <2>1. /\ hashCache.stamp \in Perhaps /\ hashCache.content \in Perhaps
        /\ keyCache.stamp \in Perhaps /\ keyCache.content \in Perhaps
    BY DEF InstallInv, InstallTyped, CacheEntry
  <2> QED
    BY <1>1, <1>3, <2>1 DEF InstallInv, CachesHold, Files
<1>7. HostsOK'
  BY <1>4 DEF HostsOK
<1> QED
  BY <1>5, <1>6, <1>7 DEF InstallInv

\* A file is truncated.
LEMMA TruncateStep ==
    ASSUME InstallInv, NEW f \in Files, TruncateFile(f)
    PROVE  InstallInv'
<1>1. file[f] \in Row
  BY DEF InstallInv, InstallTyped
<1>2. PICK next : next = [version |-> file[f].version + 1, mtime |-> file[f].mtime + 1, whole |-> FALSE]
  OBVIOUS
<1>3. next \in Row /\ next.mtime = file[f].mtime + 1
  BY <1>1, <1>2 DEF Row
<1>4. file' = [file EXCEPT ![f] = next]
  BY <1>2 DEF TruncateFile
<1>5. \A stamp \in Perhaps : SeenOf(stamp, file[f]) => Before(stamp, next)
  BY <1>1, <1>3, TruncatedIsLater
<1> QED
  BY <1>3, <1>4, <1>5, FileMoves DEF TruncateFile

\* A file is written out.
LEMMA WriteStep ==
    ASSUME InstallInv, NEW f \in Files, NEW ticks \in 0 .. 1, WriteFile(f, ticks)
    PROVE  InstallInv'
<1>1. file[f] \in Row /\ ~file[f].whole
  BY DEF InstallInv, InstallTyped, WriteFile
<1>2. PICK next : next = [version |-> file[f].version, mtime |-> file[f].mtime + ticks, whole |-> TRUE]
  OBVIOUS
<1>3. next \in Row /\ next.mtime = file[f].mtime + ticks /\ next.whole
  BY <1>1, <1>2 DEF Row
<1>4. file' = [file EXCEPT ![f] = next]
  BY <1>1, <1>2 DEF WriteFile, InstallInv, InstallTyped, Row
<1>5. \A stamp \in Perhaps : SeenOf(stamp, file[f]) => Before(stamp, next)
  BY <1>1, <1>3, WrittenIsLater
<1> QED
  BY <1>3, <1>4, <1>5, FileMoves DEF WriteFile

\* The files are loaded, also at the start.
LEMMA LoadedHolds ==
    ASSUME file \in [Files -> Row]
    PROVE  /\ Loaded \in [key : Pair, cert : Pair]
           /\ None \in CacheEntry /\ Holds(None.stamp, None.content, file["package"])
           /\ Entry(Stamp("key"), Content("key")) \in CacheEntry
           /\ Holds(Entry(Stamp("key"), Content("key")).stamp, Entry(Stamp("key"), Content("key")).content,
                    file["key"])
<1>1. "key" \in Files /\ "cert" \in Files /\ "package" \in Files
  BY DEF Files
<1>2. /\ Content("key") \in Pair /\ Content("cert") \in Pair /\ Stamp("key") \in Pair
      /\ Stamp("key") = StampOf(file["key"]) /\ Content("key") = ContentOf(file["key"])
  BY <1>1 DEF Stamp, StampOf, Content, ContentOf, Row, Pair
<1> QED
  BY <1>2 DEF Loaded, None, CacheEntry, Perhaps, Entry, Holds, Before

\* The gateway restarts: every request on its way fails, disturbed.
LEMMA RestartStep ==
    ASSUME InstallInv, RestartGateway
    PROVE  InstallInv'
<1>1. /\ file' = file /\ file \in [Files -> Row] /\ served' = Loaded /\ hashCache' = None
      /\ keyCache' = Entry(Stamp("key"), Content("key"))
  BY DEF RestartGateway, InstallInv, InstallTyped
<1>2. ASSUME NEW h \in Hosts PROVE host'[h] \in Install /\ HostOK(host'[h], file', served')
  <2>1. host[h] \in Install /\ HostOK(host[h], file, served)
    BY HostKnown
  <2>2. /\ host'[h] \in Install
        /\ host'[h].pc \in Ended
        /\ host'[h].pc = "failed" => host'[h].disturbed
    BY <2>1 DEF RestartGateway, Install, Steps, Ended, HostOK
  <2> QED
    BY <2>2 DEF HostOK, Carried, Active, Ended
<1>3. host' \in [Hosts -> Install] /\ HostsOK'
  BY <1>2 DEF RestartGateway, HostsOK
<1>4. InstallTyped' /\ CachesHold'
  BY <1>1, <1>3, LoadedHolds DEF InstallTyped, CachesHold
<1> QED
  BY <1>3, <1>4 DEF InstallInv

\* The invariant holds when the gateway starts,
LEMMA InitInstallInv == InstallInit => InstallInv
<1> SUFFICES ASSUME InstallInit PROVE InstallInv
  OBVIOUS
<1>1. file \in [Files -> Row]
  BY DEF InstallInit, Row
<1>2. Fresh \in Install /\ Fresh.pc = "idle"
  BY DEF Fresh, Install, Steps, Platforms, Perhaps
<1>3. InstallTyped
  BY <1>1, <1>2, LoadedHolds DEF InstallInit, InstallTyped
<1>4. CachesHold
  BY <1>1, LoadedHolds DEF InstallInit, CachesHold
<1>5. HostsOK
  BY <1>2 DEF InstallInit, HostsOK, HostOK, Carried, Active, Ended
<1> QED
  BY <1>3, <1>4, <1>5 DEF InstallInv

\* and after every step.
LEMMA NextInstallInv == InstallInv /\ [InstallNext]_installVars => InstallInv'
<1> SUFFICES ASSUME InstallInv, [InstallNext]_installVars PROVE InstallInv'
  OBVIOUS
<1>1. ASSUME NEW f \in Files, TruncateFile(f) PROVE InstallInv'
  BY <1>1, TruncateStep
<1>2. ASSUME NEW f \in Files, NEW ticks \in 0 .. 1, WriteFile(f, ticks) PROVE InstallInv'
  BY <1>2, WriteStep
<1>3. CASE RestartGateway
  BY <1>3, RestartStep
<1>4. ASSUME NEW h \in Hosts, HostStep(h) PROVE InstallInv'
  BY <1>4, RequestStep, StatPackageStep, ConnectionRefusedStep, HashPackageStep, StatKeyStep, KeyCachedStep,
     KeyNotCachedStep, ReadKeyStep, StoreKeyStep, InstallerStep, EndedStep DEF HostStep
<1>5. CASE UNCHANGED installVars
  <2>1. file' = file /\ served' = served /\ hashCache' = hashCache /\ keyCache' = keyCache /\ host' = host
    BY <1>5 DEF installVars, gateway
  <2> QED
    BY <2>1 DEF InstallInv, InstallTyped, CachesHold, HostsOK
<1> QED
  BY <1>1, <1>2, <1>3, <1>4, <1>5 DEF InstallNext

\* The caches, what every request carries, and the undisturbed installs are in
\* order in every state.
THEOREM InstallsInOrder == ViewsSpec => []InstallInv
<1> QED
  BY InitInstallInv, NextInstallInv, InstallsApart, PTL DEF InstallSpec

\* However requests look, read and fill the caches while files are replaced: an
\* entry under the stamp a file has now is that file's content.
THEOREM CachesTrue == ViewsSpec => []CacheTrue
<1>1. InstallInv => CacheTrue
  <2> SUFFICES ASSUME InstallInv PROVE CacheTrue
    OBVIOUS
  <2>1. /\ file["key"] \in Row /\ file["package"] \in Row
        /\ Stamp("key") = StampOf(file["key"]) /\ Content("key") = ContentOf(file["key"])
        /\ Stamp("package") = StampOf(file["package"]) /\ Content("package") = ContentOf(file["package"])
    BY StampContent DEF InstallInv, InstallTyped, Files
  <2>2. ~Before(StampOf(file["key"]), file["key"]) /\ ~Before(StampOf(file["package"]), file["package"])
    BY <2>1, NowIsNotBefore
  <2> QED
    BY <2>1, <2>2 DEF InstallInv, CachesHold, Holds, CacheTrue
<1> QED
  BY <1>1, InstallsInOrder, PTL

\* What the requests of an install served fits together when all were answered,
\* unless a file or the process was replaced: what earlier requests left in the
\* caches never makes an install fail.
THEOREM InstallsFailOnlyIfDisturbed == ViewsSpec => []FailsOnlyIfDisturbed
<1>1. InstallInv => FailsOnlyIfDisturbed
  BY DEF InstallInv, HostsOK, HostOK, FailsOnlyIfDisturbed
<1> QED
  BY <1>1, InstallsInOrder, PTL

-----------------------------------------------------------------------------
(* The overview: what is known of enrolments, reports and cards *)

\* An entry of the list, a card or a report under way
Card == [agent : Agents, at : Nat]
Registration == [registered : BOOLEAN, at : Nat, seen : Nat]
Enrolment == [agent : Agents, asked : Nat, since : Nat]
View == [pc : {"idle", "loaded", "counted", "shown"}, ok : BOOLEAN, rows : [Agents -> Registration],
         now : Nat, online : SUBSET Agents, cards : SUBSET Card,
         acked : [Agents -> Nat \cup {Never}], overtaken : [Agents -> SUBSET Nat]]

OverviewTyped ==
    /\ agents \in [Agents -> Registration]
    /\ acked \in [Agents -> Nat \cup {Never}]
    /\ overtaken \in [Agents -> SUBSET Nat]
    /\ enrolling \in SUBSET Enrolment
    /\ reports \in SUBSET Card
    /\ view \in [Views -> View]
    /\ clock \in Nat

\* The entries of agents the store has, whatever time they give
EnrolledNow == {c \in Card : c.agent \in Registered}

Distinct(list) == \A i, j \in DOMAIN list : list[i].agent = list[j].agent => i = j

\* The list in memory, and what is on its way there, is of agents the store has,
\* and it has each once.
ListedEnrolled ==
    /\ \A e \in enrolling : e.agent \in Registered
    /\ recent \in Seq(EnrolledNow)
    /\ Distinct(recent)

\* A time that is later than that of the newest answered report, or is known to
\* have been waiting when that was answered.
Reckoned(at, ack, waited) == at >= ack \/ at \in waited

RowReckoned(row, ack, waited, now) ==
    /\ ack <= now /\ row.seen <= now
    /\ row.registered => Reckoned(row.seen, ack, waited)
    /\ ~row.registered => ack = Never

TimesReckoned ==
    /\ \A a \in Agents : RowReckoned(agents[a], acked[a], overtaken[a], clock)
    /\ \A r \in reports :
        /\ r.agent \in Registered
        /\ r.at <= clock
        /\ Reckoned(r.at, acked[r.agent], overtaken[r.agent])

\* The times of an overview were in order when it loaded the store, and it counts
\* the rows it loaded by them.
RowsReckoned(o, now) == \A a \in Agents : RowReckoned(o.rows[a], o.acked[a], o.overtaken[a], now)

ViewInOrder(o) ==
    /\ RegisteredIn(o.rows) \subseteq Registered
    /\ o.cards \subseteq EnrolledNow
    /\ \A c, d \in o.cards : c.agent = d.agent => c = d
    /\ o.pc = "loaded" /\ o.ok => RowsReckoned(o, clock)
    /\ o.pc \in {"counted", "shown"} =>
        /\ o.online = {a \in RegisteredIn(o.rows) : Online(o.rows[a], o.now)}
        /\ o.ok => RowsReckoned(o, o.now)

ViewsInOrder == \A v \in Views : ViewInOrder(view[v])

OverviewInv == OverviewTyped /\ ListedEnrolled /\ TimesReckoned /\ ViewsInOrder

\* An agent has no entry in what is left of a list, and what was there once is
\* there once.
LEMMA WithoutAgent ==
    ASSUME NEW S, NEW list \in Seq(S), NEW a, Distinct(list)
    PROVE  /\ Without(list, a) \in Seq(S)
           /\ Distinct(Without(list, a))
           /\ \A i \in DOMAIN Without(list, a) : Without(list, a)[i].agent # a
<1>1. CASE \A i \in DOMAIN list : list[i].agent # a
  BY <1>1 DEF Without
<1>2. CASE \E i \in DOMAIN list : list[i].agent = a
  <2>1. PICK k : k = CHOOSE i \in DOMAIN list : list[i].agent = a
    OBVIOUS
  <2>2. k \in 1 .. Len(list) /\ list[k].agent = a
    BY <1>2, <2>1
  <2>3. PICK rest : rest = SubSeq(list, 1, k - 1) \o SubSeq(list, k + 1, Len(list))
    OBVIOUS
  <2>4. Without(list, a) = rest
    BY <1>2, <2>1, <2>3 DEF Without, RemoveAt
  <2>5. PICK front : front = SubSeq(list, 1, k - 1)
    OBVIOUS
  <2>6. PICK back : back = SubSeq(list, k + 1, Len(list))
    OBVIOUS
  <2>7. /\ rest \in Seq(S) /\ Len(rest) = Len(list) - 1
        /\ \A i \in 1 .. Len(list) - 1 : rest[i] = IF i < k THEN list[i] ELSE list[i + 1]
    <3>1. /\ front \in Seq(S) /\ Len(front) = k - 1
          /\ \A i \in 1 .. k - 1 : front[i] = list[i]
      BY <2>2, <2>5
    <3>2. /\ back \in Seq(S) /\ Len(back) = Len(list) - k
          /\ \A i \in 1 .. Len(list) - k : back[i] = list[k + i]
      BY <2>2, <2>6
    <3>3. rest = front \o back
      BY <2>3, <2>5, <2>6
    <3>4. /\ rest \in Seq(S) /\ Len(rest) = Len(front) + Len(back)
          /\ \A i \in 1 .. Len(front) + Len(back) :
                rest[i] = IF i <= Len(front) THEN front[i] ELSE back[i - Len(front)]
      <4>1. front \in Seq(S) /\ back \in Seq(S)
        BY <3>1, <3>2
      <4> QED
        BY ONLY <3>3, <4>1
    <3>5. Len(front) + Len(back) = Len(list) - 1 /\ Len(list) \in Nat
      BY <2>2, <3>1, <3>2
    <3>6. ASSUME NEW i \in 1 .. Len(list) - 1 PROVE rest[i] = IF i < k THEN list[i] ELSE list[i + 1]
      <4>1. CASE i < k
        BY <2>2, <3>1, <3>4, <3>5, <4>1
      <4>2. CASE ~(i < k)
        <5>1. PICK j \in 1 .. Len(list) - k : i = (k - 1) + j
          BY <2>2, <3>5, <4>2
        <5>2. rest[i] = back[j]
          BY <2>2, <3>1, <3>4, <3>5, <4>2, <5>1
        <5>3. back[j] = list[i + 1]
          BY <2>2, <3>2, <5>1
        <5> QED
          BY <4>2, <5>2, <5>3
      <4> QED
        BY <4>1, <4>2
    <3> QED
      BY <3>4, <3>5, <3>6
  <2>8. DOMAIN rest = 1 .. Len(list) - 1 /\ DOMAIN list = 1 .. Len(list) /\ Len(list) \in Nat
    BY <2>7
  <2>9. ASSUME NEW i \in DOMAIN rest PROVE rest[i].agent # a
    BY <2>2, <2>7, <2>8 DEF Distinct
  <2>10. ASSUME NEW i \in DOMAIN rest, NEW j \in DOMAIN rest, rest[i].agent = rest[j].agent PROVE i = j
    <3>1. PICK m, n \in DOMAIN list : /\ m = IF i < k THEN i ELSE i + 1
                                      /\ n = IF j < k THEN j ELSE j + 1
      BY <2>2, <2>8
    <3>2. rest[i] = list[m] /\ rest[j] = list[n]
      BY <2>7, <2>8, <3>1
    <3>3. m = n
      BY <2>10, <3>2 DEF Distinct
    <3> QED
      BY <2>2, <2>8, <3>1, <3>3
  <2> QED
    BY <2>4, <2>7, <2>9, <2>10 DEF Distinct
<1> QED
  BY <1>1, <1>2

\* An entry is put in front of a list that has none of its agent, and the list
\* cut.
LEMMA FrontOfList ==
    ASSUME NEW S, NEW list \in Seq(S), NEW e \in S, NEW n \in 0 .. Len(list) + 1,
           Distinct(list), \A i \in DOMAIN list : list[i].agent # e.agent
    PROVE  /\ SubSeq(<<e>> \o list, 1, n) \in Seq(S)
           /\ Distinct(SubSeq(<<e>> \o list, 1, n))
<1>1. PICK whole : whole = <<e>> \o list
  OBVIOUS
<1>2. /\ whole \in Seq(S) /\ Len(whole) = Len(list) + 1 /\ Len(list) \in Nat
      /\ \A i \in 1 .. Len(list) + 1 : whole[i] = IF i = 1 THEN e ELSE list[i - 1]
  BY <1>1
<1>3. PICK cut : cut = SubSeq(whole, 1, n)
  OBVIOUS
<1>4. /\ cut \in Seq(S) /\ Len(cut) = n /\ DOMAIN cut = 1 .. n
      /\ \A i \in 1 .. n : cut[i] = whole[i]
  BY <1>2, <1>3
<1>5. ASSUME NEW i \in 1 .. n, NEW j \in 1 .. n, cut[i].agent = cut[j].agent PROVE i = j
  <2>1. i \in 1 .. Len(list) + 1 /\ j \in 1 .. Len(list) + 1 /\ DOMAIN list = 1 .. Len(list)
    BY <1>2
  <2>2. cut[i] = (IF i = 1 THEN e ELSE list[i - 1]) /\ cut[j] = (IF j = 1 THEN e ELSE list[j - 1])
    BY <1>2, <1>4, <2>1
  <2>3. /\ i # 1 => i - 1 \in DOMAIN list
        /\ j # 1 => j - 1 \in DOMAIN list
    BY <2>1, <1>2
  <2>4. i # 1 /\ j # 1 => i - 1 = j - 1
    BY <1>5, <2>2, <2>3 DEF Distinct
  <2>5. i = 1 <=> j = 1
    BY <1>5, <2>2, <2>3
  <2> QED
    BY <2>4, <2>5
<1> QED
  BY <1>1, <1>3, <1>4, <1>5 DEF Distinct

\* More agents are enrolled, or time passes: the list and the overviews stay in
\* order.
LEMMA StillListed ==
    ASSUME OverviewInv, Registered \subseteq Registered', recent' = recent,
           \A e \in enrolling' : e \in enrolling \/ e.agent \in Registered'
    PROVE  ListedEnrolled'
<1>1. EnrolledNow \subseteq EnrolledNow'
  BY DEF EnrolledNow
<1>2. recent \in Seq(EnrolledNow') /\ Distinct(recent)
  BY <1>1 DEF OverviewInv, ListedEnrolled
<1> QED
  BY <1>2 DEF OverviewInv, ListedEnrolled

LEMMA StillShown ==
    ASSUME OverviewInv, Registered \subseteq Registered', clock' \in Nat, clock' >= clock, view' = view
    PROVE  ViewsInOrder'
<1>1. EnrolledNow \subseteq EnrolledNow'
  BY DEF EnrolledNow
<1>2. ASSUME NEW v \in Views, RowsReckoned(view[v], clock) PROVE RowsReckoned(view[v], clock')
  <2>1. view[v] \in View /\ clock \in Nat
    BY DEF OverviewInv, OverviewTyped
  <2>2. \A a \in Agents : view[v].acked[a] \in Int /\ view[v].rows[a].seen \in Int
    BY <2>1 DEF View, Registration, Never
  <2> QED
    BY <1>2, <2>1, <2>2 DEF RowsReckoned, RowReckoned
<1>3. ASSUME NEW v \in Views PROVE ViewInOrder(view[v])'
  <2>1. ViewInOrder(view[v])
    BY DEF OverviewInv, ViewsInOrder
  <2> QED
    BY <1>1, <1>2, <2>1 DEF ViewInOrder
<1> QED
  BY <1>3 DEF ViewsInOrder

\* An enrolment is committed.
LEMMA CommitStep ==
    ASSUME OverviewInv, NEW a \in Agents, NEW asked \in Requested, NEW now \in 0 .. clock,
           NEW outcome \in {"ok", "lost", "kept"}, CommitRegistration(a, asked, now, outcome)
    PROVE  OverviewInv'
<1>1. /\ clock \in Nat /\ now \in Nat /\ now <= clock /\ asked \in Nat /\ ~agents[a].registered
  BY OverviewConstants DEF CommitRegistration, Registered, RegisteredIn, OverviewInv, OverviewTyped
<1>2. PICK at \in Nat : agents' = IF outcome = "lost" THEN agents
                                  ELSE [agents EXCEPT ![a] = [registered |-> TRUE, at |-> at, seen |-> now]]
  BY <1>1 DEF CommitRegistration, RegisteredAt
<1>3. PICK e : e = [agent |-> a, asked |-> asked, since |-> now]
  OBVIOUS
<1>4. /\ acked' = IF outcome = "ok" THEN [acked EXCEPT ![a] = now] ELSE acked
      /\ enrolling' = IF outcome = "ok" THEN enrolling \cup {e} ELSE enrolling
      /\ overtaken' = overtaken /\ recent' = recent /\ reports' = reports /\ view' = view /\ clock' = clock
  BY <1>3 DEF CommitRegistration, Accepted
<1>5. /\ agents \in [Agents -> Registration] /\ acked \in [Agents -> Nat \cup {Never}]
      /\ e \in Enrolment /\ e.agent = a
  BY <1>1, <1>3 DEF OverviewInv, OverviewTyped, Enrolment
<1>6. /\ \A b \in Agents : b # a => agents'[b] = agents[b] /\ acked'[b] = acked[b]
      /\ outcome # "lost" => agents'[a] = [registered |-> TRUE, at |-> at, seen |-> now]
      /\ outcome = "lost" => agents' = agents
      /\ outcome = "ok" => acked'[a] = now
      /\ outcome # "ok" => acked' = acked
  BY <1>2, <1>4, <1>5
<1>7. agents' \in [Agents -> Registration]
  <2>1. [registered |-> TRUE, at |-> at, seen |-> now] \in Registration
    BY <1>1 DEF Registration
  <2> QED
    BY <1>2, <1>5, <2>1
<1>8. OverviewTyped'
  <2>1. acked' \in [Agents -> Nat \cup {Never}]
    BY <1>1, <1>4, <1>5
  <2> QED
    BY <1>4, <1>5, <1>7, <2>1 DEF OverviewInv, OverviewTyped
<1>9. Registered \subseteq Registered' /\ (outcome = "ok" => a \in Registered')
  BY <1>1, <1>6 DEF Registered, RegisteredIn
<1>10. ListedEnrolled'
  BY <1>4, <1>5, <1>9, StillListed
<1>11. ViewsInOrder'
  BY <1>1, <1>4, <1>9, StillShown
<1>12. TimesReckoned'
  <2>1. acked[a] = Never
    BY <1>1 DEF OverviewInv, TimesReckoned, RowReckoned
  <2>2. \A r \in reports : r \in Card /\ r.agent # a
    BY <1>1 DEF OverviewInv, TimesReckoned, OverviewTyped, Registered, RegisteredIn
  <2>3. ASSUME NEW b \in Agents PROVE RowReckoned(agents'[b], acked'[b], overtaken'[b], clock')
    <3>1. RowReckoned(agents[b], acked[b], overtaken[b], clock)
      BY DEF OverviewInv, TimesReckoned
    <3>2. CASE b # a
      BY <1>4, <1>6, <3>1, <3>2
    <3>3. CASE b = a
      BY <1>1, <1>4, <1>6, <2>1, <3>1, <3>3 DEF RowReckoned, Reckoned, Never
    <3> QED
      BY <3>2, <3>3
  <2>4. ASSUME NEW r \in reports
        PROVE  r.agent \in Registered' /\ r.at <= clock' /\ Reckoned(r.at, acked'[r.agent], overtaken'[r.agent])
    BY <1>4, <1>6, <1>9, <2>2 DEF OverviewInv, TimesReckoned, Card
  <2> QED
    BY <1>4, <2>3, <2>4 DEF TimesReckoned
<1> QED
  BY <1>8, <1>10, <1>11, <1>12 DEF OverviewInv

\* It is put in the list, with a time of its own.
LEMMA RecordStep ==
    ASSUME OverviewInv, NEW e \in enrolling, NEW now \in e.since .. clock, RecordRecentOnlineAgent(e, now)
    PROVE  OverviewInv'
<1>1. UNCHANGED <<agents, acked, overtaken, reports, view, clock>> /\ enrolling' = enrolling \ {e}
  BY DEF RecordRecentOnlineAgent, stored
<1>2. e \in Enrolment /\ e.agent \in Registered /\ clock \in Nat /\ recent \in Seq(EnrolledNow) /\ Distinct(recent)
  BY DEF OverviewInv, OverviewTyped, ListedEnrolled
<1>3. e.asked \in Nat /\ now \in Nat
  BY <1>2 DEF Enrolment
<1>4. PICK others : others = Without(recent, e.agent)
  OBVIOUS
<1>5. others \in Seq(EnrolledNow) /\ Distinct(others) /\ \A i \in DOMAIN others : others[i].agent # e.agent
  BY <1>2, <1>4, WithoutAgent
<1>6. PICK n : n = IF Len(others) < Cards THEN Len(others) + 1 ELSE Cards
  OBVIOUS
<1>7. n \in 0 .. Len(others) + 1
  BY <1>5, <1>6, OverviewConstants
<1>8. PICK at \in RegisteredAt(e.asked, now) : recent' = SubSeq(<<[agent |-> e.agent, at |-> at]>> \o others, 1, n)
  BY <1>4, <1>6 DEF RecordRecentOnlineAgent
<1>9. PICK entry : entry = [agent |-> e.agent, at |-> at]
  OBVIOUS
<1>10. entry \in EnrolledNow /\ entry.agent = e.agent
  BY <1>2, <1>3, <1>8, <1>9 DEF RegisteredAt, EnrolledNow, Card, Registered, RegisteredIn
<1>11. recent' \in Seq(EnrolledNow) /\ Distinct(recent')
  BY <1>5, <1>7, <1>8, <1>9, <1>10, FrontOfList
<1>12. Registered' = Registered /\ EnrolledNow' = EnrolledNow
  BY <1>1 DEF Registered, RegisteredIn, EnrolledNow
<1>13. ListedEnrolled'
  BY <1>1, <1>11, <1>12 DEF OverviewInv, ListedEnrolled
<1>14. OverviewTyped' /\ TimesReckoned'
  BY <1>1, <1>12 DEF OverviewInv, OverviewTyped, TimesReckoned
<1>15. ViewsInOrder'
  BY <1>1, <1>2, <1>12, StillShown
<1> QED
  BY <1>13, <1>14, <1>15 DEF OverviewInv

\* A report begins.
LEMMA BeginReportStep ==
    ASSUME OverviewInv, NEW a \in Agents, BeginReport(a)
    PROVE  OverviewInv'
<1>1. UNCHANGED <<agents, acked, overtaken, recent, enrolling, view, clock>>
  BY DEF BeginReport, stored
<1>2. a \in Registered /\ clock \in Nat /\ Registered' = Registered
  BY <1>1 DEF BeginReport, Registered, RegisteredIn, OverviewInv, OverviewTyped
<1>3. PICK new : new = [agent |-> a, at |-> clock]
  OBVIOUS
<1>4. reports' = reports \cup {new} /\ new \in Card /\ new.agent = a /\ new.at = clock
  BY <1>2, <1>3 DEF BeginReport, Card
<1>5. Reckoned(clock, acked[a], overtaken[a])
  BY <1>2 DEF OverviewInv, OverviewTyped, TimesReckoned, RowReckoned, Reckoned, Never
<1>6. TimesReckoned'
  <2>1. ASSUME NEW r \in reports'
        PROVE  r.agent \in Registered /\ r.at <= clock /\ Reckoned(r.at, acked[r.agent], overtaken[r.agent])
    BY <1>2, <1>4, <1>5 DEF OverviewInv, TimesReckoned
  <2> QED
    BY <1>1, <1>2, <2>1 DEF OverviewInv, TimesReckoned
<1>7. OverviewTyped'
  BY <1>1, <1>4 DEF OverviewInv, OverviewTyped
<1>8. ListedEnrolled' /\ ViewsInOrder'
  BY <1>1, <1>2, StillListed, StillShown
<1> QED
  BY <1>6, <1>7, <1>8 DEF OverviewInv

\* What is known of a report under way
LEMMA ReportKnown ==
    ASSUME OverviewInv, NEW r \in reports
    PROVE  /\ r \in Card /\ r.agent \in Agents /\ r.at \in Nat /\ r.at <= clock
           /\ agents[r.agent] \in Registration /\ agents[r.agent].registered
           /\ Reckoned(r.at, acked[r.agent], overtaken[r.agent])
BY DEF OverviewInv, OverviewTyped, TimesReckoned, Card, Registered, RegisteredIn

\* The report is in the store, be it answered or not: a registered agent stays
\* registered, and the row has the time of the report.
LEMMA ReportStored ==
    ASSUME OverviewInv, NEW r \in reports, agents' = [agents EXCEPT ![r.agent] = Reported(@, r.at)]
    PROVE  /\ agents' \in [Agents -> Registration]
           /\ agents'[r.agent].registered /\ agents'[r.agent].seen = r.at
           /\ \A b \in Agents : b # r.agent => agents'[b] = agents[b]
           /\ Registered' = Registered
<1>1. agents \in [Agents -> Registration] /\ agents[r.agent] \in Registration /\ r.agent \in Agents /\ r.at \in Nat
      /\ agents[r.agent].registered
  BY ReportKnown DEF OverviewInv, OverviewTyped
<1>2. PICK row : row = Reported(agents[r.agent], r.at)
  OBVIOUS
<1>3. row \in Registration /\ row.registered /\ row.seen = r.at
  BY <1>1, <1>2 DEF Registration, Reported
<1>4. agents' = [agents EXCEPT ![r.agent] = row]
  BY <1>2
<1>5. /\ agents' \in [Agents -> Registration] /\ agents'[r.agent] = row
      /\ \A b \in Agents : b # r.agent => agents'[b] = agents[b]
  BY <1>1, <1>3, <1>4
<1>6. Registered' = Registered
  BY <1>1, <1>3, <1>5 DEF Registered, RegisteredIn
<1> QED
  BY <1>3, <1>5, <1>6

\* A report is answered with an error, stored or not.
LEMMA ReportFailsStep ==
    ASSUME OverviewInv, NEW r \in reports, NEW outcome \in {"lost", "kept"}, ReportFails(r, outcome)
    PROVE  OverviewInv'
<1>1. /\ UNCHANGED <<acked, overtaken, recent, enrolling, view, clock>>
      /\ reports' = reports \ {r}
      /\ agents' = agents \/ agents' = [agents EXCEPT ![r.agent] = Reported(@, r.at)]
  BY DEF ReportFails
<1>2. agents' \in [Agents -> Registration] /\ Registered' = Registered
  BY <1>1, ReportStored DEF OverviewInv, OverviewTyped, Registered, RegisteredIn
<1>3. OverviewTyped'
  BY <1>1, <1>2 DEF OverviewInv, OverviewTyped
<1>4. clock \in Nat
  BY DEF OverviewInv, OverviewTyped
<1>5. ListedEnrolled' /\ ViewsInOrder'
  BY <1>1, <1>2, <1>4, StillListed, StillShown
<1>6. TimesReckoned'
  <2>1. ASSUME NEW b \in Agents PROVE RowReckoned(agents'[b], acked[b], overtaken[b], clock)
    <3>1. RowReckoned(agents[b], acked[b], overtaken[b], clock)
      BY DEF OverviewInv, TimesReckoned
    <3>2. CASE agents'[b] = agents[b]
      BY <3>1, <3>2
    <3>3. CASE b = r.agent /\ agents' = [agents EXCEPT ![r.agent] = Reported(@, r.at)]
      BY <3>1, <3>3, ReportKnown, ReportStored DEF RowReckoned
    <3> QED
      BY <1>1, <3>2, <3>3, ReportStored
  <2> QED
    BY <1>1, <1>2, <2>1 DEF OverviewInv, TimesReckoned
<1> QED
  BY <1>3, <1>5, <1>6 DEF OverviewInv

\* A report is stored and answered, the newest one or one that was overtaken.
LEMMA StoreReportStep ==
    ASSUME OverviewInv, NEW r \in reports, StoreReport(r)
    PROVE  OverviewInv'
<1> DEFINE a == r.agent
           others == {q.at : q \in {p \in reports \ {r} : p.agent = r.agent}}
<1>1. a \in Agents /\ r.at \in Nat /\ r.at <= clock /\ Reckoned(r.at, acked[a], overtaken[a])
  BY ReportKnown
<1>2. /\ agents' = [agents EXCEPT ![r.agent] = Reported(@, r.at)]
      /\ reports' = reports \ {r}
      /\ IF r.at >= acked[a]
         THEN acked' = [acked EXCEPT ![a] = r.at] /\ overtaken' = [overtaken EXCEPT ![a] = others]
         ELSE acked' = acked /\ overtaken' = overtaken
      /\ UNCHANGED <<recent, enrolling, view, clock>>
  BY DEF StoreReport
<1>3. others \in SUBSET Nat /\ \A q \in reports' : q.agent = a => q.at \in others
  BY <1>2 DEF OverviewInv, OverviewTyped, Card
<1> HIDE DEF others
<1>4. /\ agents' \in [Agents -> Registration] /\ agents'[a].registered /\ agents'[a].seen = r.at
      /\ \A b \in Agents : b # a => agents'[b] = agents[b]
      /\ Registered' = Registered
  BY <1>2, ReportStored
<1>5. /\ \A b \in Agents : b # a => acked'[b] = acked[b] /\ overtaken'[b] = overtaken[b]
      /\ r.at >= acked[a] => acked'[a] = r.at /\ overtaken'[a] = others
      /\ ~(r.at >= acked[a]) => acked' = acked /\ overtaken' = overtaken
  BY <1>1, <1>2 DEF OverviewInv, OverviewTyped
<1>6. OverviewTyped'
  <2>1. acked' \in [Agents -> Nat \cup {Never}]
    BY <1>1, <1>2 DEF OverviewInv, OverviewTyped
  <2>2. overtaken' \in [Agents -> SUBSET Nat]
    BY <1>1, <1>2, <1>3 DEF OverviewInv, OverviewTyped
  <2> QED
    BY <1>2, <1>4, <2>1, <2>2 DEF OverviewInv, OverviewTyped
<1>7. clock \in Nat
  BY DEF OverviewInv, OverviewTyped
<1>8. ListedEnrolled' /\ ViewsInOrder'
  BY <1>2, <1>4, <1>7, StillListed, StillShown
<1>9. TimesReckoned'
  <2>1. ASSUME NEW b \in Agents PROVE RowReckoned(agents'[b], acked'[b], overtaken'[b], clock')
    <3>1. RowReckoned(agents[b], acked[b], overtaken[b], clock)
      BY DEF OverviewInv, TimesReckoned
    <3>2. CASE b # a
      BY <1>2, <1>4, <1>5, <3>1, <3>2
    <3>3. CASE b = a
      BY <1>1, <1>2, <1>4, <1>5, <3>1, <3>3 DEF RowReckoned, Reckoned
    <3> QED
      BY <3>2, <3>3
  <2>2. ASSUME NEW q \in reports'
        PROVE  q.agent \in Registered' /\ q.at <= clock' /\ Reckoned(q.at, acked'[q.agent], overtaken'[q.agent])
    <3>1. /\ q \in reports /\ q.agent \in Agents /\ q.agent \in Registered /\ q.at <= clock
          /\ Reckoned(q.at, acked[q.agent], overtaken[q.agent])
      BY <1>2, ReportKnown DEF Registered, RegisteredIn
    <3>2. CASE q.agent # a
      BY <1>2, <1>4, <1>5, <3>1, <3>2
    <3>3. CASE q.agent = a
      BY <1>2, <1>3, <1>4, <1>5, <3>1, <3>3 DEF Reckoned
    <3> QED
      BY <3>2, <3>3
  <2> QED
    BY <2>1, <2>2 DEF TimesReckoned
<1> QED
  BY <1>6, <1>8, <1>9 DEF OverviewInv

\* A view changes and nothing else.
LEMMA ViewMoves ==
    ASSUME OverviewInv, UNCHANGED <<stored, recent, enrolling, reports, clock>>,
           NEW v \in Views, NEW new \in View, view' = [view EXCEPT ![v] = new], ViewInOrder(new)
    PROVE  OverviewInv'
<1>1. UNCHANGED <<agents, acked, overtaken, recent, enrolling, reports, clock>>
  BY DEF stored
<1>2. Registered' = Registered /\ EnrolledNow' = EnrolledNow
  BY <1>1 DEF EnrolledNow, Registered, RegisteredIn
<1>3. \A w \in Views : view'[w] = IF w = v THEN new ELSE view[w]
  BY DEF OverviewInv, OverviewTyped
<1>4. OverviewTyped'
  BY <1>1 DEF OverviewInv, OverviewTyped
<1>5. ListedEnrolled' /\ TimesReckoned'
  BY <1>1, <1>2 DEF OverviewInv, ListedEnrolled, TimesReckoned
<1>6. ASSUME NEW w \in Views PROVE ViewInOrder(view[w])'
  <2>1. ViewInOrder(view'[w])
    BY <1>3 DEF OverviewInv, ViewsInOrder
  <2> QED
    BY <1>1, <1>2, <2>1 DEF ViewInOrder, RowsReckoned
<1> QED
  BY <1>4, <1>5, <1>6 DEF OverviewInv, ViewsInOrder

\* A view that shows nothing
LEMMA NoViewShown == NoView \in View /\ NoView.pc = "idle" /\ NoView.cards = {} /\ RegisteredIn(NoView.rows) = {}
<1>1. [a \in Agents |-> Absent] \in [Agents -> Registration]
  BY DEF Absent, Registration
<1>2. /\ NoView.pc = "idle" /\ NoView.cards = {} /\ NoView.rows = [a \in Agents |-> Absent]
      /\ NoView \in View
  BY <1>1 DEF NoView, View
<1> QED
  BY <1>2 DEF RegisteredIn, Absent

LEMMA NoViewInOrder == ViewInOrder(NoView)
BY NoViewShown DEF ViewInOrder

\* The store is loaded: the rows of this moment, or none.
LEMMA LoadStep ==
    ASSUME OverviewInv, NEW v \in Views, NEW ok \in BOOLEAN, LoadAgents(v, ok)
    PROVE  OverviewInv'
<1>1. PICK rows : rows = IF ok THEN agents ELSE NoView.rows
  OBVIOUS
<1>2. PICK new : new = [NoView EXCEPT !.pc = "loaded", !.ok = ok, !.rows = rows,
                                      !.acked = acked, !.overtaken = overtaken]
  OBVIOUS
<1>3. /\ rows \in [Agents -> Registration] /\ acked \in [Agents -> Nat \cup {Never}]
      /\ overtaken \in [Agents -> SUBSET Nat] /\ NoView \in View
  BY <1>1, NoViewShown DEF OverviewInv, OverviewTyped, View
<1>4. /\ new \in View /\ new.pc = "loaded" /\ new.ok = ok /\ new.rows = rows
      /\ new.acked = acked /\ new.overtaken = overtaken /\ new.cards = {}
  BY <1>2, <1>3, NoViewShown DEF View
<1>5. RegisteredIn(rows) \subseteq Registered
  BY <1>1, NoViewShown DEF Registered
<1>6. ok => RowsReckoned(new, clock)
  BY <1>1, <1>4 DEF OverviewInv, TimesReckoned, RowsReckoned
<1>7. ViewInOrder(new)
  BY <1>4, <1>5, <1>6 DEF ViewInOrder
<1>8. view' = [view EXCEPT ![v] = new] /\ UNCHANGED <<stored, recent, enrolling, reports, clock>>
  BY <1>1, <1>2 DEF LoadAgents, NoView
<1> QED
  BY <1>4, <1>7, <1>8, ViewMoves

\* The rows are counted, with the time of the overview.
LEMMA CountStep ==
    ASSUME OverviewInv, NEW v \in Views, CountOnline(v)
    PROVE  OverviewInv'
<1>1. PICK online : online = {a \in RegisteredIn(view[v].rows) : Online(view[v].rows[a], clock)}
  OBVIOUS
<1>2. PICK new : new = [view[v] EXCEPT !.pc = "counted", !.now = clock, !.online = online]
  OBVIOUS
<1>3. view[v] \in View /\ view[v].pc = "loaded" /\ clock \in Nat /\ ViewInOrder(view[v])
  BY DEF CountOnline, OverviewInv, OverviewTyped, ViewsInOrder
<1>4. online \in SUBSET Agents
  BY <1>1 DEF RegisteredIn
<1>5. /\ new \in View /\ new.pc = "counted" /\ new.now = clock /\ new.online = online
      /\ new.ok = view[v].ok /\ new.rows = view[v].rows /\ new.cards = view[v].cards
      /\ new.acked = view[v].acked /\ new.overtaken = view[v].overtaken
  BY <1>2, <1>3, <1>4 DEF View
<1>6. new.ok => RowsReckoned(new, new.now)
  BY <1>3, <1>5 DEF ViewInOrder, RowsReckoned
<1>7. ViewInOrder(new)
  BY <1>1, <1>3, <1>5, <1>6 DEF ViewInOrder
<1>8. view' = [view EXCEPT ![v] = new] /\ UNCHANGED <<stored, recent, enrolling, reports, clock>>
  BY <1>1, <1>2 DEF CountOnline, OverviewInv, OverviewTyped
<1> QED
  BY <1>5, <1>7, <1>8, ViewMoves

\* Cards come from the load, or from the list now: one of each agent.
LEMMA MergeStep ==
    ASSUME OverviewInv, NEW v \in Views, MergeRecent(v)
    PROVE  OverviewInv'
<1> DEFINE rows == view[v].rows
           loaded == {[agent |-> a, at |-> rows[a].at] : a \in RegisteredIn(rows)}
           listed == {recent[i] : i \in DOMAIN recent}
<1>1. PICK cards \in Newest(loaded \cup Missing(listed, loaded)) :
        view' = [view EXCEPT ![v].pc = "shown", ![v].cards = cards]
  BY DEF MergeRecent
<1> HIDE DEF rows, loaded, listed
<1>2. view[v] \in View /\ view[v].pc = "counted" /\ ViewInOrder(view[v]) /\ rows \in [Agents -> Registration]
  BY DEF MergeRecent, OverviewInv, OverviewTyped, ViewsInOrder, View, rows
<1>3. RegisteredIn(rows) \subseteq Registered /\ RegisteredIn(rows) \subseteq Agents
  BY <1>2 DEF ViewInOrder, RegisteredIn, rows
<1>4. /\ loaded \subseteq EnrolledNow
      /\ \A c, d \in loaded : c.agent = d.agent => c = d
  <2>1. \A a \in RegisteredIn(rows) : rows[a].at \in Nat
    BY <1>2, <1>3 DEF Registration
  <2> QED
    BY <1>3, <2>1 DEF EnrolledNow, Card, loaded
<1>5. /\ listed \subseteq EnrolledNow
      /\ \A c, d \in listed : c.agent = d.agent => c = d
  BY DEF OverviewInv, ListedEnrolled, Distinct, listed
<1>6. /\ cards \subseteq EnrolledNow
      /\ \A c, d \in cards : c.agent = d.agent => c = d
  <2>1. cards \subseteq loaded \cup Missing(listed, loaded)
    BY <1>1 DEF Newest
  <2>2. Missing(listed, loaded) \subseteq listed /\ \A e \in Missing(listed, loaded), c \in loaded : c.agent # e.agent
    BY DEF Missing
  <2> QED
    BY <1>4, <1>5, <2>1, <2>2
<1>7. PICK new : new = [view[v] EXCEPT !.pc = "shown", !.cards = cards]
  OBVIOUS
<1>8. /\ new \in View /\ new.pc = "shown" /\ new.cards = cards /\ new.now = view[v].now
       /\ new.online = view[v].online /\ new.ok = view[v].ok /\ new.rows = view[v].rows
       /\ new.acked = view[v].acked /\ new.overtaken = view[v].overtaken
  <2>1. cards \in SUBSET Card
    BY <1>6 DEF EnrolledNow
  <2> QED
    BY <1>2, <1>7, <2>1 DEF View
<1>9. ViewInOrder(new)
  BY <1>2, <1>6, <1>8 DEF ViewInOrder, RowsReckoned
<1>10. view' = [view EXCEPT ![v] = new] /\ UNCHANGED <<stored, recent, enrolling, reports, clock>>
  BY <1>1, <1>7 DEF MergeRecent, OverviewInv, OverviewTyped
<1> QED
  BY <1>8, <1>9, <1>10, ViewMoves

\* The overview is closed to be asked for again.
LEMMA RefreshStep ==
    ASSUME OverviewInv, NEW v \in Views, RefreshOverview(v)
    PROVE  OverviewInv'
BY NoViewShown, NoViewInOrder, ViewMoves DEF RefreshOverview

\* The process restarts: only the store is left.
LEMMA ProcessRestartStep ==
    ASSUME OverviewInv, RestartProcess
    PROVE  OverviewInv'
<1>1. /\ agents' = agents /\ acked' = acked /\ overtaken' = overtaken /\ clock' = clock
      /\ recent' = <<>> /\ enrolling' = {} /\ reports' = {} /\ view' = [v \in Views |-> NoView]
  BY DEF RestartProcess, stored
<1>2. OverviewTyped'
  BY <1>1, NoViewShown DEF OverviewInv, OverviewTyped
<1>3. ListedEnrolled'
  <2>1. recent' \in Seq(EnrolledNow') /\ Distinct(recent')
    BY <1>1 DEF Distinct
  <2> QED
    BY <1>1, <2>1 DEF ListedEnrolled
<1>4. TimesReckoned'
  BY <1>1 DEF OverviewInv, TimesReckoned
<1>5. ViewsInOrder'
  <2>1. \A v \in Views : view'[v] = NoView
    BY <1>1
  <2> QED
    BY <2>1, NoViewShown DEF ViewsInOrder, ViewInOrder
<1> QED
  BY <1>2, <1>3, <1>4, <1>5 DEF OverviewInv

\* Time passes: every known time stays in the past.
LEMMA TickStep ==
    ASSUME OverviewInv, Tick
    PROVE  OverviewInv'
<1>1. /\ UNCHANGED <<agents, acked, overtaken, recent, enrolling, reports, view>>
      /\ clock' = clock + 1 /\ clock \in Nat
  BY DEF Tick, stored, OverviewInv, OverviewTyped
<1>2. Registered' = Registered
  BY <1>1 DEF Registered, RegisteredIn
<1>3. OverviewTyped'
  BY <1>1 DEF OverviewInv, OverviewTyped
<1>4. ListedEnrolled' /\ ViewsInOrder'
  BY <1>1, <1>2, StillListed, StillShown
<1>5. TimesReckoned'
  <2>1. /\ \A a \in Agents : acked[a] \in Int /\ agents[a].seen \in Int
        /\ \A r \in reports : r.at \in Int
    BY DEF OverviewInv, OverviewTyped, Registration, Card, Never
  <2> QED
    BY <1>1, <1>2, <2>1 DEF OverviewInv, TimesReckoned, RowReckoned
<1> QED
  BY <1>3, <1>4, <1>5 DEF OverviewInv

\* The invariant holds when nothing is enrolled yet,
LEMMA InitOverviewInv == OverviewInit => OverviewInv
<1> SUFFICES ASSUME OverviewInit PROVE OverviewInv
  OBVIOUS
<1>1. OverviewTyped
  BY NoViewShown DEF OverviewInit, OverviewTyped, Absent, Registration
<1>2. ListedEnrolled
  <2>1. recent \in Seq(EnrolledNow) /\ Distinct(recent) /\ enrolling = {}
    BY DEF OverviewInit, Distinct
  <2> QED
    BY <2>1 DEF ListedEnrolled
<1>3. TimesReckoned
  BY DEF OverviewInit, TimesReckoned, RowReckoned, Absent, Never
<1>4. ViewsInOrder
  BY NoViewInOrder DEF OverviewInit, ViewsInOrder
<1> QED
  BY <1>1, <1>2, <1>3, <1>4 DEF OverviewInv

\* and after every step.
LEMMA NextOverviewInv == OverviewInv /\ [OverviewNext]_overviewVars => OverviewInv'
<1> SUFFICES ASSUME OverviewInv, [OverviewNext]_overviewVars PROVE OverviewInv'
  OBVIOUS
<1>1. ASSUME NEW a \in Agents, NEW asked \in Requested, NEW now \in 0 .. clock,
             NEW outcome \in {"ok", "lost", "kept"}, CommitRegistration(a, asked, now, outcome)
      PROVE  OverviewInv'
  BY <1>1, CommitStep
<1>2. ASSUME NEW e \in enrolling, NEW now \in e.since .. clock, RecordRecentOnlineAgent(e, now)
      PROVE  OverviewInv'
  BY <1>2, RecordStep
<1>3. ASSUME NEW a \in Reporters, BeginReport(a) PROVE OverviewInv'
  BY <1>3, BeginReportStep, OverviewConstants
<1>4. ASSUME NEW r \in reports, StoreReport(r) PROVE OverviewInv'
  BY <1>4, StoreReportStep
<1>5. ASSUME NEW r \in reports, NEW outcome \in {"lost", "kept"}, ReportFails(r, outcome) PROVE OverviewInv'
  BY <1>5, ReportFailsStep
<1>6. ASSUME NEW v \in Views, NEW ok \in BOOLEAN, LoadAgents(v, ok) PROVE OverviewInv'
  BY <1>6, LoadStep
<1>7. ASSUME NEW v \in Views, CountOnline(v) \/ MergeRecent(v) \/ RefreshOverview(v) PROVE OverviewInv'
  BY <1>7, CountStep, MergeStep, RefreshStep
<1>8. CASE RestartProcess
  BY <1>8, ProcessRestartStep
<1>9. CASE Tick
  BY <1>9, TickStep
<1>10. CASE UNCHANGED overviewVars
  <2>1. UNCHANGED <<agents, acked, overtaken, recent, enrolling, reports, view, clock>>
    BY <1>10 DEF overviewVars, stored
  <2>2. Registered' = Registered /\ clock \in Nat
    BY <2>1 DEF Registered, RegisteredIn, OverviewInv, OverviewTyped
  <2>3. ListedEnrolled' /\ ViewsInOrder'
    BY <2>1, <2>2, StillListed, StillShown
  <2>4. OverviewTyped' /\ TimesReckoned'
    BY <2>1, <2>2 DEF OverviewInv, OverviewTyped, TimesReckoned
  <2> QED
    BY <2>3, <2>4 DEF OverviewInv
<1> QED
  BY <1>1, <1>2, <1>3, <1>4, <1>5, <1>6, <1>7, <1>8, <1>9, <1>10 DEF OverviewNext

\* The list has each enrolled agent once, every time is accounted for, and every
\* overview is true of what it loaded, in every state.
THEOREM OverviewInOrder == ViewsSpec => []OverviewInv
<1> QED
  BY InitOverviewInv, NextOverviewInv, OverviewApart, PTL DEF OverviewSpec

\* Whatever came between the load and the list, and whatever times the two give:
\* every card is that of a registered agent, which has no other.
THEOREM CardsAreOfEnrolled == ViewsSpec => []CardsOfEnrolled
<1>1. OverviewInv => CardsOfEnrolled
  BY DEF OverviewInv, ViewsInOrder, ViewInOrder, EnrolledNow, CardsOfEnrolled
<1> QED
  BY <1>1, OverviewInOrder, PTL

\* An overview that could load the store counts as online every agent that was
\* answered within the window before it, unless a report that waited when the
\* newest was answered has a time out of the window.
THEOREM AnsweredAreOnline == ViewsSpec => []OnlineCounted
<1>1. OverviewInv => OnlineCounted
  <2> SUFFICES ASSUME OverviewInv, NEW v \in Views, NEW a \in Agents,
                      view[v].pc \in {"counted", "shown"}, view[v].ok, view[v].acked[a] # Never,
                      view[v].now - view[v].acked[a] \in 0 .. Window,
                      \A t \in view[v].overtaken[a] : view[v].now - t <= Window
               PROVE  a \in view[v].online
    BY DEF OnlineCounted
  <2>1. PICK row : row = view[v].rows[a]
    OBVIOUS
  <2>2. view[v] \in View /\ ViewInOrder(view[v])
    BY DEF OverviewInv, OverviewTyped, ViewsInOrder
  <2>3. /\ view[v].acked[a] \in Int /\ view[v].now \in Int /\ row.seen \in Int
        /\ view[v].online = {b \in RegisteredIn(view[v].rows) : Online(view[v].rows[b], view[v].now)}
        /\ RowReckoned(row, view[v].acked[a], view[v].overtaken[a], view[v].now)
    BY <2>1, <2>2 DEF View, Registration, Never, ViewInOrder, RowsReckoned
  <2>4. row.registered /\ view[v].now - row.seen \in 0 .. Window
    BY <2>3, OverviewConstants DEF RowReckoned, Reckoned
  <2> QED
    BY <2>1, <2>3, <2>4 DEF RegisteredIn, Online
<1> QED
  BY <1>1, OverviewInOrder, PTL

-----------------------------------------------------------------------------
(* Sums over finite sets *)

\* A collection of subsets that a set belongs to whenever it does without any
\* one of its elements has all of them.
LEMMA SubsetInduction ==
    ASSUME NEW S, IsFiniteSet(S), NEW I,
           \A T \in SUBSET S : (\A x \in T : T \ {x} \in I) => T \in I
    PROVE  SUBSET S \subseteq I
<1> DEFINE Bad == {T \in SUBSET S : T \notin I}
<1> SUFFICES ASSUME Bad # {} PROVE FALSE
  OBVIOUS
<1>1. IsWellFoundedOn(StrictSubsetOrdering(S), FiniteSubsetsOf(S)) /\ FiniteSubsetsOf(S) = SUBSET S
  BY FS_StrictSubsetOrderingWellFounded, FS_FiniteSubsetsOfFinite
<1>2. \E T \in Bad : \A U \in Bad : <<U, T>> \notin StrictSubsetOrdering(S)
  <2>1. Bad \subseteq SUBSET S
    OBVIOUS
  <2> HIDE DEF Bad
  <2> QED BY <1>1, <2>1, WFMin
<1>3. PICK T \in Bad : \A U \in Bad : ~(U \subseteq T /\ U # T)
  BY <1>2 DEF StrictSubsetOrdering
<1>4. \A x \in T : T \ {x} \in I
  BY <1>3
<1> QED BY <1>3, <1>4

\* The recursion a sum is defined by
Taken(s) == CHOOSE x \in s : TRUE
Recursion(f, w, S) ==
    f = [s \in SUBSET S |-> IF s = {} THEN 0 ELSE w[Taken(s)] + f[s \ {Taken(s)}]]

\* It takes an element of the set.
LEMMA TakenIn == \A s : s # {} => Taken(s) \in s
BY DEF Taken

\* It determines a value for each subset.
LEMMA RecursionUnique ==
    ASSUME NEW S, IsFiniteSet(S), NEW w, NEW v, \A x \in S : v[x] = w[x],
           NEW A, NEW B, S \subseteq A, S \subseteq B,
           NEW f, NEW g, Recursion(f, w, A), Recursion(g, v, B)
    PROVE  f[S] = g[S]
<1> DEFINE I == {s \in SUBSET S : f[s] = g[s]}
<1>1. ASSUME NEW s \in SUBSET S, \A x \in s : s \ {x} \in I PROVE s \in I
  <2>1. f[s] = (IF s = {} THEN 0 ELSE w[Taken(s)] + f[s \ {Taken(s)}]) 
    BY DEF Recursion
  <2>2. g[s] = (IF s = {} THEN 0 ELSE v[Taken(s)] + g[s \ {Taken(s)}]) 
    BY DEF Recursion
  <2>3. s # {} => Taken(s) \in s
    BY TakenIn
  <2> QED BY <1>1, <2>1, <2>2, <2>3
<1>2. SUBSET S \subseteq I
  <2> HIDE DEF I
  <2> QED BY <1>1, SubsetInduction
<1> QED BY <1>2

\* It has a solution.
LEMMA RecursionSolved ==
    ASSUME NEW S, IsFiniteSet(S), NEW w
    PROVE  \E f : Recursion(f, w, S)
<1> DEFINE I == {T \in SUBSET S : \E f : Recursion(f, w, T)}
<1>1. ASSUME NEW T \in SUBSET S, \A x \in T : T \ {x} \in I PROVE T \in I
  <2> DEFINE Sol(s) == CHOOSE f : Recursion(f, w, s)
             Rest == T \ {Taken(T)}
             val(s) == IF s = {} THEN 0 ELSE w[Taken(s)] + Sol(s \ {Taken(s)})[s \ {Taken(s)}]
             g == [s \in SUBSET T |-> val(s)]
  <2>1. ASSUME NEW s \in SUBSET T, s # T PROVE Recursion(Sol(s), w, s)
    <3>1. PICK x \in T : s \subseteq T \ {x}
      BY <2>1
    <3>2. PICK f : Recursion(f, w, T \ {x})
      BY <1>1, <3>1
    <3>3. PICK h : h = [u \in SUBSET s |-> f[u]]
      OBVIOUS
    <3>4. ASSUME NEW u \in SUBSET s PROVE h[u] = IF u = {} THEN 0 ELSE w[Taken(u)] + h[u \ {Taken(u)}]
      BY <3>1, <3>2, <3>3 DEF Recursion
    <3>5. Recursion(h, w, s)
      BY <3>3, <3>4 DEF Recursion
    <3> QED BY <3>5
  <2>2. ASSUME NEW s \in SUBSET T, s # T PROVE val(s) = Sol(s)[s]
    <3>1. CASE s = {}
      <4>1. Recursion(Sol(s), w, s) /\ s \in SUBSET s
        BY <2>1, <2>2
      <4>2. Sol(s)[s] = 0
        <5> HIDE DEF Sol
        <5> QED BY <3>1, <4>1 DEF Recursion
      <4> QED BY <3>1, <4>2
    <3>2. CASE s # {}
      <4> DEFINE r == s \ {Taken(s)}
      <4>1. r \in SUBSET T /\ r # T /\ r \subseteq s /\ IsFiniteSet(r)
        BY <2>2, FS_Subset
      <4>2. Recursion(Sol(s), w, s) /\ Recursion(Sol(r), w, r)
        BY <2>1, <2>2, <4>1
      <4>3. Sol(s)[r] = Sol(r)[r]
        <5> HIDE DEF Sol, r
        <5> QED BY <4>1, <4>2, RecursionUnique
      <4>4. Sol(s)[s] = w[Taken(s)] + Sol(s)[r]
        BY <3>2, <4>2 DEF Recursion
      <4> QED BY <3>2, <4>3, <4>4
    <3> QED BY <3>1, <3>2
  <2>3. ASSUME NEW s \in SUBSET T, s # {} PROVE g[s] = w[Taken(s)] + g[s \ {Taken(s)}]
    <3> DEFINE r == s \ {Taken(s)}
    <3>1. r \in SUBSET T /\ r # T
      BY <2>3, TakenIn
    <3>2. g[r] = Sol(r)[r]
      <4> HIDE DEF Sol, r
      <4> QED BY <2>2, <3>1
    <3> QED BY <2>3, <3>2
  <2>4. g[{}] = 0
    OBVIOUS
  <2>5. Recursion(g, w, T)
    <3>1. g = [s \in SUBSET T |-> g[s]]
      OBVIOUS
    <3> HIDE DEF g
    <3> QED BY <2>3, <2>4, <3>1 DEF Recursion
  <2> QED BY <2>5
<1>2. SUBSET S \subseteq I
  <2> HIDE DEF I
  <2> QED BY <1>1, SubsetInduction
<1> QED BY <1>2

\* The recursion of the library is this one.
LEMMA SumRecursion ==
    ASSUME NEW w, NEW h, Recursion(h, w, DOMAIN w)
    PROVE  \E g : Recursion(g, w, DOMAIN w) /\ SumOf(w) = g[DOMAIN w]
BY DEF Recursion, SumOf, MapThenSumSet, MapThenFoldSet, Taken

\* The sum over a part of a function's domain
Over(w, S) == SumOf([x \in S |-> w[x]])

\* A sum is what any solution of the recursion says.
LEMMA SumSolves ==
    ASSUME NEW S, IsFiniteSet(S), NEW w, NEW A, S \subseteq A, NEW f, Recursion(f, w, A)
    PROVE  Over(w, S) = f[S]
<1> DEFINE v == [x \in S |-> w[x]]
<1>1. PICK h : Recursion(h, v, S)
  <2> HIDE DEF v
  <2> QED BY RecursionSolved
<1>2. DOMAIN v = S
  OBVIOUS
<1> HIDE DEF v
<1>3. \E g : Recursion(g, v, S) /\ SumOf(v) = g[S]
  BY <1>1, <1>2, SumRecursion
<1>4. PICK g : Recursion(g, v, S) /\ SumOf(v) = g[S]
  BY <1>3
<1>5. \A x \in S : v[x] = w[x]
  BY DEF v
<1>6. f[S] = g[S]
  BY <1>4, <1>5, RecursionUnique
<1> QED BY <1>4, <1>6 DEF Over, v

\* The sums over the parts of a set, element by element in any order
LEMMA SumsOfParts ==
    ASSUME NEW S, IsFiniteSet(S), NEW w, \A x \in S : w[x] \in Nat
    PROVE  \A T \in SUBSET S :
                Over(w, T) \in Nat /\ \A x \in T : Over(w, T) = w[x] + Over(w, T \ {x})
<1>1. PICK f : Recursion(f, w, S)
  BY RecursionSolved
<1> DEFINE N == {T \in SUBSET S : f[T] \in Nat}
           I == {T \in SUBSET S : \A x \in T : f[T] = w[x] + f[T \ {x}]}
<1>2. \A T \in SUBSET S : T # {} => Taken(T) \in T /\ f[T] = w[Taken(T)] + f[T \ {Taken(T)}]
  BY <1>1, TakenIn DEF Recursion
<1>3. f[{}] = 0
  BY <1>1 DEF Recursion
<1>4. SUBSET S \subseteq N
  <2>1. ASSUME NEW T \in SUBSET S, \A x \in T : T \ {x} \in N PROVE T \in N
    <3>1. CASE T = {}
      BY <1>3, <3>1
    <3>2. CASE T # {}
      <4>1. Taken(T) \in T /\ f[T] = w[Taken(T)] + f[T \ {Taken(T)}]
        BY <1>2, <3>2
      <4>2. w[Taken(T)] \in Nat /\ f[T \ {Taken(T)}] \in Nat
        BY <2>1, <4>1
      <4> QED BY <4>1, <4>2
    <3> QED BY <3>1, <3>2
  <2> HIDE DEF N
  <2> QED BY <2>1, SubsetInduction
<1>5. ASSUME NEW T \in SUBSET S, \A x \in T : T \ {x} \in I PROVE T \in I
  <2> SUFFICES ASSUME NEW x \in T PROVE f[T] = w[x] + f[T \ {x}]
    OBVIOUS
  <2>1. PICK c \in T : f[T] = w[c] + f[T \ {c}]
    BY <1>2
  <2>2. CASE x = c
    BY <2>1, <2>2
  <2>3. CASE x # c
    <3>1. f[T \ {c}] = w[x] + f[(T \ {c}) \ {x}]
      BY <1>5, <2>3
    <3>2. f[T \ {x}] = w[c] + f[(T \ {x}) \ {c}]
      BY <1>5, <2>3
    <3>3. (T \ {x}) \ {c} = (T \ {c}) \ {x}
      OBVIOUS
    <3>4. PICK n \in Nat : n = f[(T \ {c}) \ {x}]
      BY <1>4
    <3>5. f[T] = w[c] + (w[x] + n) /\ f[T \ {x}] = w[c] + n /\ w[c] \in Nat /\ w[x] \in Nat
      BY <2>1, <3>1, <3>2, <3>3, <3>4
    <3> QED BY <3>5
  <2> QED BY <2>2, <2>3
<1>6. SUBSET S \subseteq I
  <2> HIDE DEF I
  <2> QED BY <1>5, SubsetInduction
<1>7. \A T \in SUBSET S : Over(w, T) = f[T]
  BY <1>1, SumSolves, FS_Subset
<1> QED BY <1>4, <1>6, <1>7

\* Nothing adds up to nothing.
LEMMA SumOfNothing == \A w : Over(w, {}) = 0
<1> SUFFICES ASSUME NEW w PROVE Over(w, {}) = 0
  OBVIOUS
<1>1. IsFiniteSet({})
  BY FS_EmptySet
<1>2. PICK f : Recursion(f, w, {})
  BY <1>1, RecursionSolved
<1>3. Over(w, {}) = f[{}]
  BY <1>1, <1>2, SumSolves
<1> QED BY <1>2, <1>3 DEF Recursion

\* A sum is made of the values only.
LEMMA SumOfSame ==
    ASSUME NEW S, NEW w, NEW v, \A x \in S : w[x] = v[x]
    PROVE  Over(w, S) = Over(v, S)
<1>1. [x \in S |-> w[x]] = [x \in S |-> v[x]]
  OBVIOUS
<1> QED BY <1>1 DEF Over

\* Two parts add up to the whole.
LEMMA SumOfTwo ==
    ASSUME NEW S, IsFiniteSet(S), NEW w, \A x \in S : w[x] \in Nat,
           NEW A \in SUBSET S, NEW B \in SUBSET S, A \cap B = {}
    PROVE  Over(w, A \cup B) = Over(w, A) + Over(w, B)
<1> DEFINE I == {T \in SUBSET A : Over(w, T \cup B) = Over(w, T) + Over(w, B)}
<1>1. ASSUME NEW T \in SUBSET A, \A x \in T : T \ {x} \in I PROVE T \in I
  <2>1. Over(w, B) \in Nat /\ Over(w, T) \in Nat /\ Over(w, T \cup B) \in Nat
    BY SumsOfParts
  <2>2. CASE T = {}
    BY <2>1, <2>2, SumOfNothing
  <2>3. CASE T # {}
    <3>1. PICK x \in T : TRUE
      BY <2>3
    <3>2. Over(w, T \cup B) = w[x] + Over(w, (T \cup B) \ {x}) /\ Over(w, T) = w[x] + Over(w, T \ {x})
      BY <3>1, SumsOfParts
    <3>3. (T \cup B) \ {x} = (T \ {x}) \cup B
      OBVIOUS
    <3>4. Over(w, (T \ {x}) \cup B) = Over(w, T \ {x}) + Over(w, B)
      BY <1>1
    <3>5. w[x] \in Nat /\ Over(w, T \ {x}) \in Nat
      BY SumsOfParts
    <3>6. Over(w, T \cup B) = w[x] + (Over(w, T \ {x}) + Over(w, B))
      BY <3>2, <3>3, <3>4
    <3>7. Over(w, T \cup B) = (w[x] + Over(w, T \ {x})) + Over(w, B)
      BY <2>1, <3>5, <3>6
    <3> QED BY <3>2, <3>7
  <2> QED BY <2>2, <2>3
<1>2. SUBSET A \subseteq I
  <2>1. IsFiniteSet(A)
    BY FS_Subset
  <2> HIDE DEF I
  <2> QED BY <1>1, <2>1, SubsetInduction
<1> QED BY <1>2

\* A part adds up to no more than the whole.
LEMMA SumOfPart ==
    ASSUME NEW S, IsFiniteSet(S), NEW w, \A x \in S : w[x] \in Nat, NEW A \in SUBSET S
    PROVE  Over(w, A) <= Over(w, S)
<1>1. Over(w, A \cup (S \ A)) = Over(w, A) + Over(w, S \ A)
  BY SumOfTwo
<1>2. A \cup (S \ A) = S
  OBVIOUS
<1>3. Over(w, A) \in Nat /\ Over(w, S \ A) \in Nat
  BY SumsOfParts
<1>4. Over(w, S) = Over(w, A) + Over(w, S \ A)
  BY <1>1, <1>2
<1> QED BY <1>3, <1>4

\* Summed up group by group, or as one: k is the group of an element, P
\* the elements of a group and v their sum.
LEMMA SumByGroup ==
    ASSUME NEW S, IsFiniteSet(S), NEW w, \A x \in S : w[x] \in Nat,
           NEW G, IsFiniteSet(G), NEW k, \A x \in S : k[x] \in G,
           NEW P, \A g \in G : P[g] = {x \in S : k[x] = g},
           NEW v, \A g \in G : v[g] = Over(w, P[g])
    PROVE  Over(v, G) = Over(w, S)
<1> DEFINE In(H) == {x \in S : k[x] \in H}
           I == {H \in SUBSET G : Over(v, H) = Over(w, In(H))}
<1>1. ASSUME NEW g \in G PROVE v[g] \in Nat
  <2>1. P[g] \in SUBSET S
    OBVIOUS
  <2>2. Over(w, P[g]) \in Nat
    BY <2>1, SumsOfParts
  <2> QED BY <2>2
<1>2. ASSUME NEW H \in SUBSET G, \A g \in H : H \ {g} \in I PROVE H \in I
  <2>1. CASE H = {}
    <3>1. In(H) = {}
      BY <2>1
    <3> QED BY <2>1, <3>1, SumOfNothing
  <2>2. CASE H # {}
    <3>1. PICK g \in H : TRUE
      BY <2>2
    <3>2. Over(v, H) = v[g] + Over(v, H \ {g})
      BY <1>1, SumsOfParts
    <3>3. Over(v, H \ {g}) = Over(w, In(H \ {g}))
      BY <1>2
    <3>4. PICK one \in SUBSET S : one = {x \in S : k[x] = g}
      OBVIOUS
    <3>5. PICK others \in SUBSET S : others = In(H \ {g})
      OBVIOUS
    <3>6. In(H) = one \cup others /\ one \cap others = {}
      BY <3>4, <3>5
    <3>7. Over(w, one \cup others) = Over(w, one) + Over(w, others)
      BY <3>6, SumOfTwo
    <3>8. v[g] = Over(w, one)
      BY <3>4
    <3> HIDE DEF In
    <3>9. Over(v, H) = Over(w, In(H))
      BY <3>2, <3>3, <3>5, <3>6, <3>7, <3>8
    <3> QED BY <3>9
  <2> QED BY <2>1, <2>2
<1>3. SUBSET G \subseteq I
  <2> HIDE DEF I
  <2> QED BY <1>2, SubsetInduction
<1>4. In(G) = S
  OBVIOUS
<1> QED BY <1>3, <1>4

-----------------------------------------------------------------------------
(* Finite sets and their greatest element *)

\* A finite set of numbers has a greatest one.
LEMMA FiniteMax ==
    ASSUME NEW S, IsFiniteSet(S), S \subseteq Nat, S # {}
    PROVE  Max(S) \in S /\ \A x \in S : x <= Max(S)
<1> DEFINE I == {T \in SUBSET S : T # {} => \E m \in T : \A x \in T : x <= m}
<1>1. ASSUME NEW T \in SUBSET S, \A x \in T : T \ {x} \in I PROVE T \in I
  <2> SUFFICES ASSUME NEW c \in T PROVE \E m \in T : \A x \in T : x <= m
    OBVIOUS
  <2>1. CASE T \ {c} = {}
    <3>1. T = {c} /\ c \in Nat
      BY <2>1
    <3> QED BY <3>1
  <2>2. CASE T \ {c} # {}
    <3>1. PICK m \in T \ {c} : \A x \in T \ {c} : x <= m
      BY <1>1, <2>2
    <3>2. \A x \in T : x \in Nat
      OBVIOUS
    <3>3. CASE c <= m
      BY <3>1, <3>3
    <3>4. CASE ~(c <= m)
      <4>1. \A x \in T \ {c} : x <= c
        BY <3>1, <3>2, <3>4
      <4>2. c <= c
        BY <3>2
      <4> QED BY <4>1, <4>2
    <3> QED BY <3>3, <3>4
  <2> QED BY <2>1, <2>2
<1>2. SUBSET S \subseteq I
  <2> HIDE DEF I
  <2> QED BY <1>1, SubsetInduction
<1>3. PICK m \in S : \A x \in S : x <= m
  BY <1>2
<1>4. m \in S /\ \A x \in S : m >= x
  BY <1>3
<1>5. Max(S) \in S /\ \A x \in S : Max(S) >= x
  BY <1>4 DEF Max
<1> QED BY <1>5

\* What a function has on a finite set is finite.
LEMMA FiniteImage ==
    ASSUME NEW S, IsFiniteSet(S), NEW f
    PROVE  IsFiniteSet({f[x] : x \in S})
<1> DEFINE g == [x \in S |-> f[x]]
<1>1. g \in Surjection(S, {f[x] : x \in S})
  BY DEF Surjection
<1> QED BY <1>1, FS_Surjection

-----------------------------------------------------------------------------
(* The pipeline: series and what they add up to *)

\* A series: finitely many points after 1970
Curve(c) == IsFiniteSet(DOMAIN c) /\ DOMAIN c \subseteq Nat \ {0} /\ c \in [DOMAIN c -> Nat]

\* The sum of the series of a set
Series(S, c) == SumSeries([x \in S |-> c[x]])
Having(S, c, t) == {x \in S : t \in DOMAIN c[x]}

\* A series without points is the empty one.
LEMMA EmptyCurve == \A c : Curve(c) => (c = Empty <=> DOMAIN c = {})
BY DEF Curve, Empty

\* The empty series is a series.
LEMMA EmptyIsCurve == Curve(Empty)
BY FS_EmptySet DEF Curve, Empty

\* The points of a sum are those of its series, each the sum of what there is at
\* its time.
LEMMA SeriesPoints ==
    ASSUME NEW S, NEW c
    PROVE  /\ DOMAIN Series(S, c) = UNION {DOMAIN c[x] : x \in S}
           /\ \A t \in DOMAIN Series(S, c) :
                Series(S, c)[t] = Over([x \in S |-> c[x][t]], Having(S, c, t))
           /\ Series(S, c) = [t \in DOMAIN Series(S, c) |-> Series(S, c)[t]]
<1> DEFINE f == [x \in S |-> c[x]]
           D == UNION {DOMAIN f[x] : x \in DOMAIN f}
<1>1. DOMAIN f = S /\ \A x \in S : f[x] = c[x]
  OBVIOUS
<1>2. D = UNION {DOMAIN c[x] : x \in S}
  OBVIOUS
<1>3. ASSUME NEW t
      PROVE  [x \in {y \in DOMAIN f : t \in DOMAIN f[y]} |-> f[x][t]]
             = [x \in Having(S, c, t) |-> [y \in S |-> c[y][t]][x]]
  BY DEF Having
<1> HIDE DEF f
<1>4. Series(S, c) = [t \in D |-> SumOf([x \in {y \in DOMAIN f : t \in DOMAIN f[y]} |-> f[x][t]])]
  BY DEF Series, SumSeries, f
<1>5. ASSUME NEW t
      PROVE  SumOf([x \in {y \in DOMAIN f : t \in DOMAIN f[y]} |-> f[x][t]])
             = Over([x \in S |-> c[x][t]], Having(S, c, t))
  BY <1>3 DEF Over
<1> QED BY <1>2, <1>4, <1>5

\* A sum of series is a series, empty only if they all are.
LEMMA SeriesIsCurve ==
    ASSUME NEW S, IsFiniteSet(S), NEW c, \A x \in S : Curve(c[x])
    PROVE  /\ Curve(Series(S, c))
           /\ \A x \in S : DOMAIN c[x] \subseteq DOMAIN Series(S, c)
<1>1. DOMAIN Series(S, c) = UNION {DOMAIN c[x] : x \in S}
  BY SeriesPoints
<1>2. IsFiniteSet(UNION {DOMAIN c[x] : x \in S})
  <2> DEFINE f == [x \in S |-> DOMAIN c[x]]
  <2>1. {f[x] : x \in S} = {DOMAIN c[x] : x \in S}
    OBVIOUS
  <2>2. IsFiniteSet({f[x] : x \in S})
    <3> HIDE DEF f
    <3> QED BY FiniteImage
  <2>3. \A d \in {DOMAIN c[x] : x \in S} : IsFiniteSet(d)
    BY DEF Curve
  <2> QED BY <2>1, <2>2, <2>3, FS_UNION
<1>3. UNION {DOMAIN c[x] : x \in S} \subseteq Nat \ {0}
  BY DEF Curve
<1>4. ASSUME NEW t \in DOMAIN Series(S, c) PROVE Series(S, c)[t] \in Nat
  <2> DEFINE w == [x \in S |-> c[x][t]]
             A == Having(S, c, t)
  <2>1. A \in SUBSET S /\ IsFiniteSet(A)
    BY FS_Subset DEF Having
  <2>2. \A x \in A : w[x] \in Nat
    BY DEF Having, Curve
  <2>3. Series(S, c)[t] = Over(w, A)
    BY SeriesPoints
  <2> HIDE DEF w, A
  <2>4. Over(w, A) \in Nat
    BY <2>1, <2>2, SumsOfParts
  <2> QED BY <2>3, <2>4
<1>5. Series(S, c) \in [DOMAIN Series(S, c) -> Nat]
  BY <1>4, SeriesPoints
<1> QED BY <1>1, <1>2, <1>3, <1>5 DEF Curve

\* Summed up group by group, or as one
LEMMA SeriesByGroup ==
    ASSUME NEW S, IsFiniteSet(S), NEW c, \A x \in S : Curve(c[x]),
           NEW G, IsFiniteSet(G), NEW k, \A x \in S : k[x] \in G,
           NEW P, \A g \in G : P[g] = {x \in S : k[x] = g},
           NEW d, \A g \in G : d[g] = Series(P[g], c)
    PROVE  Series(G, d) = Series(S, c)
<1>1. ASSUME NEW g \in G PROVE DOMAIN d[g] = UNION {DOMAIN c[x] : x \in P[g]}
  <2>1. PICK X : X = P[g]
    OBVIOUS
  <2>2. DOMAIN Series(X, c) = UNION {DOMAIN c[x] : x \in X}
    BY ONLY SeriesPoints
  <2> QED BY <2>1, <2>2
<1>2. UNION {DOMAIN d[g] : g \in G} = UNION {DOMAIN c[x] : x \in S}
  BY <1>1
<1>3. DOMAIN Series(G, d) = DOMAIN Series(S, c)
  <2>1. DOMAIN Series(G, d) = UNION {DOMAIN d[g] : g \in G}
    BY ONLY SeriesPoints
  <2>2. DOMAIN Series(S, c) = UNION {DOMAIN c[x] : x \in S}
    BY ONLY SeriesPoints
  <2> QED BY <1>2, <2>1, <2>2
<1>4. ASSUME NEW t \in DOMAIN Series(S, c) PROVE Series(G, d)[t] = Series(S, c)[t]
  <2> DEFINE w == [x \in S |-> c[x][t]]
             v == [g \in G |-> d[g][t]]
             A == Having(S, c, t)
             H == Having(G, d, t)
             members == [g \in H |-> {x \in A : k[x] = g}]
  <2>1. Series(S, c)[t] = Over(w, A) /\ Series(G, d)[t] = Over(v, H)
    BY <1>3, SeriesPoints
  <2>2. IsFiniteSet(A) /\ IsFiniteSet(H)
    BY FS_Subset DEF Having
  <2>3. \A x \in A : w[x] \in Nat
    BY DEF Having, Curve
  <2>4. \A x \in A : k[x] \in H
    BY <1>1 DEF Having
  <2>5. ASSUME NEW g \in H PROVE v[g] = Over(w, members[g])
    <3>0. PICK X : X = P[g]
      OBVIOUS
    <3> DEFINE u == [x \in X |-> c[x][t]]
               B == Having(X, c, t)
    <3>1. g \in G /\ t \in DOMAIN d[g] /\ v[g] = d[g][t] /\ d[g] = Series(X, c)
      BY <3>0 DEF Having
    <3>2. d[g][t] = Over(u, B)
      <4>1. \A z \in DOMAIN Series(X, c) : Series(X, c)[z] = Over([x \in X |-> c[x][z]], Having(X, c, z))
        BY ONLY SeriesPoints
      <4> QED BY <3>1, <4>1
    <3>3. B = members[g] /\ \A x \in B : u[x] = w[x]
      BY <3>0 DEF Having
    <3> HIDE DEF u, w, B, A, v, members
    <3>4. Over(u, B) = Over(w, B)
      BY <3>3, SumOfSame
    <3> QED BY <3>1, <3>2, <3>3, <3>4
  <2>6. \A g \in H : members[g] = {x \in A : k[x] = g}
    OBVIOUS
  <2> HIDE DEF w, v, A, H, members
  <2>7. Over(v, H) = Over(w, A)
    BY <2>2, <2>3, <2>4, <2>5, <2>6, SumByGroup
  <2> QED BY <2>1, <2>7
<1>5. Series(G, d) = [t \in DOMAIN Series(G, d) |-> Series(G, d)[t]]
  BY SeriesPoints
<1>6. Series(S, c) = [t \in DOMAIN Series(S, c) |-> Series(S, c)[t]]
  BY SeriesPoints
<1> QED BY <1>3, <1>4, <1>5, <1>6

\* The sum of one series is that series.
LEMMA SeriesOfOne ==
    ASSUME NEW c, NEW a, Curve(c[a])
    PROVE  Series({a}, c) = c[a]
<1>1. PICK X : X = {a}
  OBVIOUS
<1>2. DOMAIN Series(X, c) = DOMAIN c[a]
  <2>1. DOMAIN Series(X, c) = UNION {DOMAIN c[x] : x \in X}
    BY SeriesPoints
  <2> QED BY <1>1, <2>1
<1>3. ASSUME NEW t \in DOMAIN c[a] PROVE Series(X, c)[t] = c[a][t]
  <2> DEFINE w == [x \in X |-> c[x][t]]
  <2>1. Having(X, c, t) = X
    BY <1>1 DEF Having
  <2>2. Series(X, c)[t] = Over(w, Having(X, c, t))
    BY <1>2, SeriesPoints
  <2>3. \A x \in X : x = a /\ w[x] = c[a][t] /\ w[x] \in Nat
    BY <1>1 DEF Curve
  <2> HIDE DEF w
  <2>4. IsFiniteSet(X) /\ a \in X
    BY <1>1, FS_Singleton
  <2>5. Over(w, X) = w[a] + Over(w, X \ {a})
    BY <2>3, <2>4, SumsOfParts
  <2>6. X \ {a} = {} /\ Over(w, {}) = 0
    BY <1>1, SumOfNothing
  <2> QED BY <2>1, <2>2, <2>3, <2>4, <2>5, <2>6
<1>4. Series(X, c) = [t \in DOMAIN Series(X, c) |-> Series(X, c)[t]]
  BY SeriesPoints
<1>5. Series(X, c) = c[a]
  BY <1>2, <1>3, <1>4 DEF Curve
<1> QED BY <1>1, <1>5

\* The rate of a sum is not above the rates together: a series that ended before
\* the last point does not count in it.
LEMMA RateOfSeries ==
    ASSUME NEW S, IsFiniteSet(S), NEW c, \A x \in S : Curve(c[x])
    PROVE  Rate(Series(S, c)) <= Over([x \in S |-> Rate(c[x])], S)
<1> DEFINE r == [x \in S |-> Rate(c[x])]
           s == Series(S, c)
<1>1. ASSUME NEW e, Curve(e), e # Empty
      PROVE  /\ Max(DOMAIN e) \in DOMAIN e /\ \A t \in DOMAIN e : t <= Max(DOMAIN e)
             /\ Rate(e) = e[Max(DOMAIN e)] /\ Rate(e) \in Nat
  <2>1. DOMAIN e # {} /\ IsFiniteSet(DOMAIN e) /\ DOMAIN e \subseteq Nat /\ e \in [DOMAIN e -> Nat]
    BY <1>1, EmptyCurve DEF Curve
  <2>2. Max(DOMAIN e) \in DOMAIN e /\ \A t \in DOMAIN e : t <= Max(DOMAIN e)
    BY <2>1, FiniteMax
  <2>3. Rate(e) = e[Max(DOMAIN e)]
    BY <1>1 DEF Rate
  <2> QED BY <2>1, <2>2, <2>3
<1>2. \A x \in S : r[x] \in Nat
  <2> SUFFICES ASSUME NEW x \in S PROVE Rate(c[x]) \in Nat
    OBVIOUS
  <2>1. CASE c[x] = Empty
    BY <2>1 DEF Rate
  <2>2. CASE c[x] # Empty
    BY <1>1, <2>2
  <2> QED BY <2>1, <2>2
<1>3. Curve(s) /\ \A x \in S : DOMAIN c[x] \subseteq DOMAIN s
  BY SeriesIsCurve
<1>4. CASE s = Empty
  <2>1. Rate(s) = 0
    BY <1>4 DEF Rate
  <2>2. Over(r, S) \in Nat
    <3> HIDE DEF r
    <3> QED BY <1>2, SumsOfParts
  <2> QED BY <2>1, <2>2
<1>5. CASE s # Empty
  <2> DEFINE last == Max(DOMAIN s)
             w == [x \in S |-> c[x][last]]
             A == Having(S, c, last)
  <2>1. last \in DOMAIN s /\ (\A t \in DOMAIN s : t <= last) /\ Rate(s) = s[last]
    BY <1>1, <1>3, <1>5
  <2>2. s[last] = Over(w, A)
    BY <2>1, SeriesPoints
  <2>3. ASSUME NEW x \in A PROVE w[x] = r[x]
    <3>1. x \in S /\ last \in DOMAIN c[x] /\ DOMAIN c[x] \subseteq DOMAIN s /\ Curve(c[x])
      BY <1>3 DEF Having
    <3>2. c[x] # Empty
      BY <3>1, EmptyCurve
    <3>3. PICK m : m = Max(DOMAIN c[x])
      OBVIOUS
    <3>4. m \in DOMAIN c[x] /\ (\A t \in DOMAIN c[x] : t <= m) /\ Rate(c[x]) = c[x][m]
      BY <1>1, <3>1, <3>2, <3>3
    <3>5. m <= last /\ last <= m /\ m \in Nat /\ last \in Nat
      BY <2>1, <3>1, <3>4 DEF Curve
    <3>6. m = last
      BY <3>5
    <3> QED BY <3>1, <3>4, <3>6
  <2>4. A \in SUBSET S
    BY DEF Having
  <2> HIDE DEF r, w, A
  <2>5. Over(w, A) = Over(r, A)
    BY <2>3, SumOfSame
  <2>6. Over(r, A) <= Over(r, S)
    BY <1>2, <2>4, SumOfPart
  <2>7. Rate(s) <= Over(r, S)
    BY <2>1, <2>2, <2>5, <2>6
  <2> QED BY <2>7 DEF r
<1> QED BY <1>4, <1>5

-----------------------------------------------------------------------------
(* The pipeline: what its queries returned *)

\* The database, and what its queries return of it
Database == [Leaves -> Curves]
LeavesAt(v, level) == {l \in Leaves : l.level = level /\ v[l] # Empty}
RowOf(v, l) == [group |-> l.group, child |-> l.child, series |-> v[l]]
RowsAt(v, level) == {RowOf(v, l) : l \in LeavesAt(v, level)}
GroupLeaves(v, level, id) == {l \in LeavesAt(v, level) : l.group = id}
GroupOf(v, level, id) == [id |-> id, series |-> Series(GroupLeaves(v, level, id), v)]
GroupsAt(v, level) == {GroupOf(v, level, id) : id \in {l.group : l \in LeavesAt(v, level)}}

\* An answer was true of the database at some moment, and is true of it now if
\* nothing changed.
SourceTrue == \E v \in Database : request.source = RowsAt(v, "source") /\ (quiet => v = vm)
ParseTrue == \E v \in Database : request.parse = RowsAt(v, "parse") /\ (quiet => v = vm)
ParseGroupsTrue == \E v \in Database : request.groups.parse = GroupsAt(v, "parse") /\ (quiet => v = vm)
SinkTrue == \E v \in Database : request.sink = RowsAt(v, "sink") /\ (quiet => v = vm)
SinkGroupsTrue == \E v \in Database : request.groups.sink = GroupsAt(v, "sink") /\ (quiet => v = vm)

RowAnswers == {{}} \cup {RowsAt(v, level) : v \in Database, level \in Levels}
GroupAnswers == {{}} \cup {GroupsAt(v, level) : v \in Database, level \in Levels}
Requests == [query : 0 .. 6, source : RowAnswers, parse : RowAnswers, sink : RowAnswers,
             groups : [parse : GroupAnswers, sink : GroupAnswers]]

PipelineInv ==
    /\ vm \in Database
    /\ request \in Requests
    /\ request.query > 1 => SourceTrue
    /\ request.query > 2 => ParseTrue
    /\ request.query > 3 => ParseGroupsTrue
    /\ request.query > 4 => SinkTrue
    /\ request.query > 5 => SinkGroupsTrue

-----------------------------------------------------------------------------
\* A query for the rows of a level, and one for its groups, return what the
\* database has.
LEMMA QueriesTrue ==
    ASSUME NEW level
    PROVE  LeafRates(level) = RowsAt(vm, level) /\ GroupRates(level) = GroupsAt(vm, level)
<1>1. LeavesOf(level) = LeavesAt(vm, level)
  BY DEF LeavesOf, LeavesAt
<1>2. LeafRates(level) = RowsAt(vm, level)
  BY <1>1 DEF LeafRates, RowsAt, RowOf
<1>3. GroupRates(level) = GroupsAt(vm, level)
  BY <1>1 DEF GroupRates, GroupsAt, GroupOf, GroupLeaves, Series
<1> QED BY <1>2, <1>3

\* Before its first query a request has no answers.
LEMMA NoRequestTyped ==
    ASSUME NEW n \in 0 .. 1, NEW r, r = [NoRequest EXCEPT !.query = n]
    PROVE  /\ r.query = n
           /\ r \in Requests
BY DEF Requests, NoRequest, RowAnswers, GroupAnswers

\* Initially no query was made.
LEMMA InitPipelineInv == PipelineInit => PipelineInv
<1> SUFFICES ASSUME PipelineInit PROVE PipelineInv
  OBVIOUS
<1>1. request = [NoRequest EXCEPT !.query = 0]
  BY DEF PipelineInit, NoRequest
<1>2. request \in Requests /\ request.query = 0
  BY <1>1, NoRequestTyped
<1> QED BY <1>2 DEF PipelineInit, PipelineInv, Database

\* A change of the database leaves the answers what they were.
LEMMA VmChangesStep ==
    ASSUME PipelineInv, NEW l \in Leaves, NEW curve \in Curves, VmChanges(l, curve)
    PROVE  PipelineInv'
<1>1. vm' \in Database /\ quiet' = FALSE /\ request' = request
  BY DEF PipelineInv, VmChanges, Database
<1>2. /\ (SourceTrue => SourceTrue') /\ (ParseTrue => ParseTrue') /\ (ParseGroupsTrue => ParseGroupsTrue')
      /\ (SinkTrue => SinkTrue') /\ (SinkGroupsTrue => SinkGroupsTrue')
  <2>1. SourceTrue => SourceTrue'
    BY <1>1 DEF SourceTrue
  <2>2. ParseTrue => ParseTrue'
    BY <1>1 DEF ParseTrue
  <2>3. ParseGroupsTrue => ParseGroupsTrue'
    BY <1>1 DEF ParseGroupsTrue
  <2>4. SinkTrue => SinkTrue'
    BY <1>1 DEF SinkTrue
  <2>5. SinkGroupsTrue => SinkGroupsTrue'
    BY <1>1 DEF SinkGroupsTrue
  <2> QED BY <2>1, <2>2, <2>3, <2>4, <2>5
<1> QED BY <1>1, <1>2 DEF PipelineInv

\* An answer comes to those there are: the rows of a level, or its groups.
RowsCome(m, level, rows) == request' = [request EXCEPT !.query = m, ![level] = rows]
GroupsCome(m, level, rows) == request' = [request EXCEPT !.query = m, !.groups[level] = rows]

\* The rows of a level come to the answers there are.
LEMMA RowsAnswered ==
    ASSUME request \in Requests, NEW m \in 0 .. 6, NEW level \in Levels, NEW rows \in RowAnswers,
           RowsCome(m, level, rows)
    PROVE  /\ request' \in Requests
           /\ request'.query = m /\ request'[level] = rows /\ request'.groups = request.groups
           /\ \A other \in Levels \ {level} : request'[other] = request[other]
<1>0. PICK next : next = request'
  OBVIOUS
<1>1. next \in Requests
  <2>1. CASE level = "source"
    <3>1. next = [request EXCEPT !.query = m, !["source"] = rows]
      BY <1>0, <2>1 DEF RowsCome
    <3> QED BY <3>1 DEF Requests
  <2>2. CASE level = "parse"
    <3>1. next = [request EXCEPT !.query = m, !["parse"] = rows]
      BY <1>0, <2>2 DEF RowsCome
    <3> QED BY <3>1 DEF Requests
  <2>3. CASE level = "sink"
    <3>1. next = [request EXCEPT !.query = m, !["sink"] = rows]
      BY <1>0, <2>3 DEF RowsCome
    <3> QED BY <3>1 DEF Requests
  <2> QED BY <2>1, <2>2, <2>3 DEF Levels
<1>2. next.query = m
  BY <1>0 DEF RowsCome, Requests, Levels
<1>3. next[level] = rows
  BY <1>0 DEF RowsCome, Requests, Levels
<1>4. next.groups = request.groups
  BY <1>0 DEF RowsCome, Requests, Levels
<1>5. ASSUME NEW other \in Levels \ {level} PROVE next[other] = request[other]
  BY <1>0 DEF RowsCome, Requests, Levels
<1> QED BY <1>0, <1>1, <1>2, <1>3, <1>4, <1>5

\* So do its groups.
LEMMA GroupsAnswered ==
    ASSUME request \in Requests, NEW m \in 0 .. 6, NEW level \in {"parse", "sink"}, NEW rows \in GroupAnswers,
           GroupsCome(m, level, rows)
    PROVE  /\ request' \in Requests
           /\ request'.query = m /\ request'.groups[level] = rows
           /\ \A other \in {"parse", "sink"} \ {level} : request'.groups[other] = request.groups[other]
           /\ request'.source = request.source /\ request'.parse = request.parse /\ request'.sink = request.sink
<1>0. PICK next : next = request'
  OBVIOUS
<1>1. next \in Requests
  <2>1. CASE level = "parse"
    <3>1. next = [request EXCEPT !.query = m, !.groups["parse"] = rows]
      BY <1>0, <2>1 DEF GroupsCome
    <3> QED BY <3>1 DEF Requests
  <2>2. CASE level = "sink"
    <3>1. next = [request EXCEPT !.query = m, !.groups["sink"] = rows]
      BY <1>0, <2>2 DEF GroupsCome
    <3> QED BY <3>1 DEF Requests
  <2> QED BY <2>1, <2>2
<1>2. next.query = m
  BY <1>0 DEF GroupsCome, Requests
<1>3. next.groups[level] = rows
  BY <1>0 DEF GroupsCome, Requests
<1>4. ASSUME NEW other \in {"parse", "sink"} \ {level} PROVE next.groups[other] = request.groups[other]
  BY <1>0 DEF GroupsCome, Requests
<1>5. next.source = request.source
  BY <1>0 DEF GroupsCome, Requests
<1>6. next.parse = request.parse
  BY <1>0 DEF GroupsCome, Requests
<1>7. next.sink = request.sink
  BY <1>0 DEF GroupsCome, Requests
<1> QED BY <1>0, <1>1, <1>2, <1>3, <1>4, <1>5, <1>6, <1>7

\* The next query adds its answer, true of the database as it is, to those there
\* are.
LEMMA QueryLevelStep ==
    ASSUME PipelineInv, QueryLevel
    PROVE  PipelineInv'
<1>1. vm' = vm /\ quiet' = quiet /\ vm \in Database /\ request \in Requests
  BY DEF PipelineInv, QueryLevel
<1>2. PICK n : n = request.query
  OBVIOUS
<1>3. n \in 1 .. 5 /\ n + 1 \in 0 .. 6
  BY <1>2 DEF QueryLevel, Queries
<1>4. PICK level : level = Queries[n].level
  OBVIOUS
<1>5. level \in Levels /\ (Queries[n].by = "group" => level \in {"parse", "sink"})
  BY <1>3, <1>4 DEF Queries, Levels
<1>6. RowsAt(vm, level) \in RowAnswers /\ GroupsAt(vm, level) \in GroupAnswers
  BY <1>1, <1>5 DEF RowAnswers, GroupAnswers
<1>7. ASSUME Queries[n].by = "leaf"
      PROVE  /\ request' \in Requests /\ request'.query = n + 1
             /\ request'[level] = RowsAt(vm, level) /\ request'.groups = request.groups
             /\ \A other \in Levels \ {level} : request'[other] = request[other]
  <2>1. request' = [request EXCEPT !.query = n + 1, ![level] = LeafRates(level)]
    BY <1>2, <1>4, <1>7 DEF QueryLevel
  <2>2. request' = [request EXCEPT !.query = n + 1, ![level] = RowsAt(vm, level)]
    BY <2>1, QueriesTrue
  <2>3. PICK m \in 0 .. 6 : m = n + 1
    BY <1>3
  <2>4. RowsCome(m, level, RowsAt(vm, level))
    BY <2>2, <2>3 DEF RowsCome
  <2> QED BY <1>1, <1>5, <1>6, <2>3, <2>4, RowsAnswered
<1>8. ASSUME Queries[n].by = "group"
      PROVE  /\ request' \in Requests /\ request'.query = n + 1 /\ request'.groups[level] = GroupsAt(vm, level)
             /\ \A other \in {"parse", "sink"} \ {level} : request'.groups[other] = request.groups[other]
             /\ request'.source = request.source /\ request'.parse = request.parse
             /\ request'.sink = request.sink
  <2>1. request' = [request EXCEPT !.query = n + 1, !.groups[level] = GroupRates(level)]
    BY <1>2, <1>4, <1>8 DEF QueryLevel
  <2>2. request' = [request EXCEPT !.query = n + 1, !.groups[level] = GroupsAt(vm, level)]
    BY <2>1, QueriesTrue
  <2>3. PICK m \in 0 .. 6 : m = n + 1
    BY <1>3
  <2>4. GroupsCome(m, level, GroupsAt(vm, level))
    BY <2>2, <2>3 DEF GroupsCome
  <2> QED BY <1>1, <1>5, <1>6, <1>8, <2>3, <2>4, GroupsAnswered
<1>9. CASE n = 1
  <2>1. level = "source" /\ Queries[n].by = "leaf"
    BY <1>4, <1>9 DEF Queries
  <2>2. request' \in Requests /\ request'.query = 2
    BY <1>7, <1>9, <2>1
  <2>3. SourceTrue'
    BY <1>1, <1>7, <2>1 DEF SourceTrue
  <2> QED BY <1>1, <2>2, <2>3 DEF PipelineInv
<1>10. CASE n = 2
  <2>1. level = "parse" /\ Queries[n].by = "leaf"
    BY <1>4, <1>10 DEF Queries
  <2>2. request' \in Requests /\ request'.query = 3
    BY <1>7, <1>10, <2>1
  <2>3. SourceTrue'
    BY <1>1, <1>2, <1>7, <1>10, <2>1 DEF PipelineInv, SourceTrue, Levels
  <2>4. ParseTrue'
    BY <1>1, <1>7, <2>1 DEF ParseTrue
  <2> QED BY <1>1, <2>2, <2>3, <2>4 DEF PipelineInv
<1>11. CASE n = 3
  <2>1. level = "parse" /\ Queries[n].by = "group"
    BY <1>4, <1>11 DEF Queries
  <2>2. request' \in Requests /\ request'.query = 4
    BY <1>8, <1>11, <2>1
  <2>3. SourceTrue'
    BY <1>1, <1>2, <1>8, <1>11, <2>1 DEF PipelineInv, SourceTrue, Levels
  <2>4. ParseTrue'
    BY <1>1, <1>2, <1>8, <1>11, <2>1 DEF PipelineInv, ParseTrue, Levels
  <2>5. ParseGroupsTrue'
    BY <1>1, <1>8, <2>1 DEF ParseGroupsTrue
  <2> QED BY <1>1, <2>2, <2>3, <2>4, <2>5 DEF PipelineInv
<1>12. CASE n = 4
  <2>1. level = "sink" /\ Queries[n].by = "leaf"
    BY <1>4, <1>12 DEF Queries
  <2>2. request' \in Requests /\ request'.query = 5
    BY <1>7, <1>12, <2>1
  <2>3. SourceTrue'
    BY <1>1, <1>2, <1>7, <1>12, <2>1 DEF PipelineInv, SourceTrue, Levels
  <2>4. ParseTrue'
    BY <1>1, <1>2, <1>7, <1>12, <2>1 DEF PipelineInv, ParseTrue, Levels
  <2>5. ParseGroupsTrue'
    BY <1>1, <1>2, <1>7, <1>12, <2>1 DEF PipelineInv, ParseGroupsTrue, Levels
  <2>6. SinkTrue'
    BY <1>1, <1>7, <2>1 DEF SinkTrue
  <2> QED BY <1>1, <2>2, <2>3, <2>4, <2>5, <2>6 DEF PipelineInv
<1>13. CASE n = 5
  <2>1. level = "sink" /\ Queries[n].by = "group"
    BY <1>4, <1>13 DEF Queries
  <2>2. request' \in Requests /\ request'.query = 6
    BY <1>8, <1>13, <2>1
  <2>3. SourceTrue'
    BY <1>1, <1>2, <1>8, <1>13, <2>1 DEF PipelineInv, SourceTrue, Levels
  <2>4. ParseTrue'
    BY <1>1, <1>2, <1>8, <1>13, <2>1 DEF PipelineInv, ParseTrue, Levels
  <2>5. ParseGroupsTrue'
    BY <1>1, <1>2, <1>8, <1>13, <2>1 DEF PipelineInv, ParseGroupsTrue, Levels
  <2>6. SinkTrue'
    BY <1>1, <1>2, <1>8, <1>13, <2>1 DEF PipelineInv, SinkTrue, Levels
  <2>7. SinkGroupsTrue'
    BY <1>1, <1>8, <2>1 DEF SinkGroupsTrue
  <2> QED BY <1>1, <2>2, <2>3, <2>4, <2>5, <2>6, <2>7 DEF PipelineInv
<1> QED BY <1>3, <1>9, <1>10, <1>11, <1>12, <1>13

\* Every step keeps the answers true of a moment of the database.
LEMMA NextPipelineInv == PipelineInv /\ [PipelineNext]_pipelineVars => PipelineInv'
<1> SUFFICES ASSUME PipelineInv, [PipelineNext]_pipelineVars PROVE PipelineInv'
  OBVIOUS
<1>1. ASSUME NEW l \in Leaves, NEW curve \in Curves, VmChanges(l, curve) PROVE PipelineInv'
  BY <1>1, VmChangesStep
<1>2. CASE GetPipelineTopology
  <2>1. request' = [NoRequest EXCEPT !.query = 1] /\ vm' = vm
    BY <1>2 DEF GetPipelineTopology, NoRequest
  <2>2. request' \in Requests /\ request'.query = 1
    BY <2>1, NoRequestTyped
  <2> QED BY <2>1, <2>2 DEF PipelineInv
<1>3. CASE QueryLevel
  BY <1>3, QueryLevelStep
<1>4. CASE QueryFails
  <2>1. request' = [NoRequest EXCEPT !.query = 0] /\ vm' = vm
    BY <1>4 DEF QueryFails, NoRequest
  <2>2. request' \in Requests /\ request'.query = 0
    BY <2>1, NoRequestTyped
  <2> QED BY <2>1, <2>2 DEF PipelineInv
<1>5. CASE RefreshTopology
  <2>1. request' = [NoRequest EXCEPT !.query = 0] /\ vm' = vm
    BY <1>5 DEF RefreshTopology, NoRequest
  <2>2. request' \in Requests /\ request'.query = 0
    BY <2>1, NoRequestTyped
  <2> QED BY <2>1, <2>2 DEF PipelineInv
<1>6. CASE UNCHANGED pipelineVars
  BY <1>6 DEF PipelineInv, pipelineVars, SourceTrue, ParseTrue, ParseGroupsTrue, SinkTrue,
              SinkGroupsTrue
<1> QED
  BY <1>1, <1>2, <1>3, <1>4, <1>5, <1>6 DEF PipelineNext

-----------------------------------------------------------------------------
(* What the answers add up to *)

\* The rows of a level are finitely many, each of a leaf, with points.
LEMMA RowsFinite ==
    ASSUME NEW v \in Database, NEW level
    PROVE  /\ IsFiniteSet(RowsAt(v, level)) /\ IsFiniteSet(LeavesAt(v, level))
           /\ \A l \in LeavesAt(v, level) : l \in Leaves /\ Curve(v[l]) /\ v[l] # Empty
           /\ \A n \in RowsAt(v, level) : Curve(n.series) /\ n.series # Empty
<1>1. \A l \in LeavesAt(v, level) : l \in Leaves /\ Curve(v[l]) /\ v[l] # Empty
  BY PipelineConstants DEF LeavesAt, Database, Curve
<1>2. \A n \in RowsAt(v, level) : Curve(n.series) /\ n.series # Empty
  BY <1>1 DEF RowsAt, RowOf
<1>3. IsFiniteSet(LeavesAt(v, level))
  BY PipelineConstants, FS_Subset DEF LeavesAt
<1>4. IsFiniteSet(RowsAt(v, level))
  <2> DEFINE f == [l \in LeavesAt(v, level) |-> RowOf(v, l)]
  <2>1. RowsAt(v, level) = {f[l] : l \in LeavesAt(v, level)}
    BY DEF RowsAt
  <2> HIDE DEF f
  <2> QED BY <1>3, <2>1, FiniteImage
<1> QED BY <1>1, <1>2, <1>3, <1>4

\* So are its groups.
LEMMA GroupsFinite ==
    ASSUME NEW v \in Database, NEW level
    PROVE  /\ IsFiniteSet(GroupsAt(v, level))
           /\ \A g \in GroupsAt(v, level) : Curve(g.series) /\ g.series # Empty
           /\ \A g \in GroupsAt(v, level) : g = GroupOf(v, level, g.id)
<1> DEFINE ids == {l.group : l \in LeavesAt(v, level)}
<1>1. IsFiniteSet(ids)
  <2> DEFINE f == [l \in LeavesAt(v, level) |-> l.group]
  <2>1. ids = {f[l] : l \in LeavesAt(v, level)}
    OBVIOUS
  <2> HIDE DEF f, ids
  <2> QED BY <2>1, RowsFinite, FiniteImage
<1>2. IsFiniteSet(GroupsAt(v, level))
  <2> DEFINE f == [id \in ids |-> GroupOf(v, level, id)]
  <2>1. GroupsAt(v, level) = {f[id] : id \in ids}
    BY DEF GroupsAt
  <2> HIDE DEF f, ids
  <2> QED BY <1>1, <2>1, FiniteImage
<1>3. ASSUME NEW id \in ids
      PROVE  Curve(GroupOf(v, level, id).series) /\ GroupOf(v, level, id).series # Empty
  <2> DEFINE S == GroupLeaves(v, level, id)
  <2>1. S \subseteq LeavesAt(v, level) /\ IsFiniteSet(S)
    BY RowsFinite, FS_Subset DEF GroupLeaves
  <2>2. \A l \in S : Curve(v[l]) /\ v[l] # Empty
    BY <2>1, RowsFinite
  <2>3. PICK l \in S : TRUE
    BY DEF GroupLeaves
  <2> HIDE DEF S
  <2>4. Curve(Series(S, v)) /\ DOMAIN v[l] \subseteq DOMAIN Series(S, v)
    BY <2>1, <2>2, SeriesIsCurve
  <2>5. Series(S, v) # Empty
    BY <2>2, <2>4, EmptyCurve
  <2> QED BY <2>4, <2>5 DEF GroupOf, S
<1>4. ASSUME NEW g \in GroupsAt(v, level) PROVE g.id \in ids /\ g = GroupOf(v, level, g.id)
  BY DEF GroupsAt, GroupOf
<1> QED BY <1>2, <1>3, <1>4

\* A set of rows has the sum of the leaves they are of.
LEMMA RowsAddUpToLeaves ==
    ASSUME NEW v \in Database, NEW level, NEW D, D \subseteq LeavesAt(v, level),
           NEW R, R = {RowOf(v, l) : l \in D}, NEW c, \A n \in R : c[n] = n.series
    PROVE  Series(R, c) = Series(D, v)
<1> DEFINE k == [l \in D |-> RowOf(v, l)]
           P == [n \in R |-> {l \in D : k[l] = n}]
<1>1. IsFiniteSet(D) /\ \A l \in D : Curve(v[l]) /\ l \in Leaves
  BY RowsFinite, FS_Subset
<1>2. IsFiniteSet(R)
  <2>1. R = {k[l] : l \in D}
    OBVIOUS
  <2> HIDE DEF k
  <2> QED BY <1>1, <2>1, FiniteImage
<1>3. \A l \in D : k[l] \in R
  OBVIOUS
<1>4. \A n \in R : P[n] = {l \in D : k[l] = n}
  OBVIOUS
<1>5. ASSUME NEW n \in R PROVE c[n] = Series(P[n], v)
  <2>1. PICK l \in D : n = RowOf(v, l)
    OBVIOUS
  <2>2. ASSUME NEW m \in D, RowOf(v, m) = RowOf(v, l) PROVE m = l
    <3>1. m.group = l.group /\ m.child = l.child
      BY <2>2 DEF RowOf
    <3>2. m.level = level /\ l.level = level
      BY DEF LeavesAt
    <3>3. /\ m = [level |-> m.level, group |-> m.group, child |-> m.child]
          /\ l = [level |-> l.level, group |-> l.group, child |-> l.child]
      BY <1>1, PipelineConstants
    <3> QED BY <3>1, <3>2, <3>3
  <2>3. P[n] = {l}
    BY <2>1, <2>2
  <2>4. Series({l}, v) = v[l]
    BY <1>1, SeriesOfOne
  <2>5. c[n] = v[l]
    BY <2>1 DEF RowOf
  <2> QED BY <2>3, <2>4, <2>5
<1> HIDE DEF k, P
<1> QED BY <1>1, <1>2, <1>3, <1>4, <1>5, SeriesByGroup

\* A group has the sum of its rows.
LEMMA GroupIsItsRows ==
    ASSUME NEW v \in Database, NEW level, NEW id, NEW R, R = {n \in RowsAt(v, level) : n.group = id},
           NEW c, \A n \in R : c[n] = n.series
    PROVE  Series(R, c) = GroupOf(v, level, id).series
<1>1. PICK D : D = GroupLeaves(v, level, id)
  OBVIOUS
<1>2. D \subseteq LeavesAt(v, level)
  BY <1>1 DEF GroupLeaves
<1>3. R = {RowOf(v, l) : l \in D}
  BY <1>1 DEF RowsAt, RowOf, GroupLeaves
<1>4. Series(R, c) = Series(D, v)
  BY <1>2, <1>3, RowsAddUpToLeaves
<1> QED BY <1>1, <1>4 DEF GroupOf

\* The groups that are wanted have the sum of the rows that are: W are the
\* wanted ones.
LEMMA GroupsAddUpToRows ==
    ASSUME NEW v \in Database, NEW level, NEW W, NEW R, R = {n \in RowsAt(v, level) : n.group \in W},
           NEW G, IsFiniteSet(G),
           \A g \in G : g.id \in W /\ g.series = GroupOf(v, level, g.id).series,
           \A g, h \in G : g.id = h.id => g = h,
           \A n \in R : \E g \in G : g.id = n.group
    PROVE  SumSeries(CurvesOf(G)) = SumSeries(CurvesOf(R))
<1> DEFINE c == [n \in R |-> n.series]
           d == [g \in G |-> g.series]
           k == [n \in R |-> CHOOSE g \in G : g.id = n.group]
           P == [g \in G |-> {n \in R : k[n] = g}]
<1>1. IsFiniteSet(R) /\ \A n \in R : Curve(c[n])
  BY RowsFinite, FS_Subset
<1>2. \A n \in R : k[n] \in G /\ k[n].id = n.group
  OBVIOUS
<1>3. \A g \in G : P[g] = {n \in R : k[n] = g}
  OBVIOUS
<1>4. ASSUME NEW g \in G PROVE d[g] = Series(P[g], c)
  <2>1. PICK X : X = P[g]
    OBVIOUS
  <2>2. X = {n \in R : n.group = g.id}
    BY <1>2, <2>1
  <2>3. X = {n \in RowsAt(v, level) : n.group = g.id}
    BY <2>2
  <2>4. \A n \in X : c[n] = n.series
    BY <2>2
  <2> HIDE DEF c
  <2>5. Series(X, c) = GroupOf(v, level, g.id).series
    BY <2>3, <2>4, GroupIsItsRows
  <2> QED BY <2>1, <2>5
<1>5. Series(G, d) = SumSeries(CurvesOf(G)) /\ Series(R, c) = SumSeries(CurvesOf(R))
  <2>1. [g \in G |-> d[g]] = CurvesOf(G) /\ [n \in R |-> c[n]] = CurvesOf(R)
    BY DEF CurvesOf
  <2> QED BY <2>1 DEF Series
<1> HIDE DEF c, d, k, P
<1>6. IsFiniteSet(G) /\ \A n \in R : k[n] \in G
  BY <1>2
<1>7. Series(G, d) = Series(R, c)
  BY ONLY <1>1, <1>3, <1>4, <1>6, SeriesByGroup
<1> QED BY <1>5, <1>7

\* What a level of an answer is made of: the rows of one moment and the groups
\* of another, the same if nothing changed
LevelTrue(level) ==
    /\ \E v \in Database : request[level] = RowsAt(v, level) /\ (quiet => v = vm)
    /\ \E v \in Database : request.groups[level] = GroupsAt(v, level) /\ (quiet => v = vm)

\* An answer that is complete has true levels.
LEMMA AnsweredTrue ==
    ASSUME PipelineInv, Answered
    PROVE  vm \in Database /\ SourceTrue /\ \A level \in {"parse", "sink"} : LevelTrue(level)
<1>1. request.query = 6
  BY DEF Answered, Queries
<1>2. /\ vm \in Database /\ SourceTrue /\ ParseTrue /\ ParseGroupsTrue
      /\ SinkTrue /\ SinkGroupsTrue
  BY <1>1 DEF PipelineInv
<1>3. LevelTrue("parse")
  BY <1>2 DEF LevelTrue, ParseTrue, ParseGroupsTrue
<1>4. LevelTrue("sink")
  BY <1>2 DEF LevelTrue, SinkTrue, SinkGroupsTrue
<1> QED BY <1>2, <1>3, <1>4

\* The groups shown: those of the query, and an empty one for each group of rows
\* the query did not have.  No two have one id.
LEMMA GroupsShown ==
    ASSUME NEW level, LevelTrue(level)
    PROVE  /\ IsFiniteSet(request[level]) /\ IsFiniteSet(Groups(level))
           /\ \A n \in request[level] : Curve(n.series) /\ n.series # Empty
           /\ \A g \in Groups(level) :
                /\ Curve(g.series)
                /\ g.series = Empty => \E n \in request[level] : n.group = g.id
                /\ g.loss = LossKind(level, g.id)
           /\ \A g, h \in Groups(level) : g.id = h.id => g = h
           /\ \A n \in request[level] : \E g \in Groups(level) : g.id = n.group
<1>1. PICK v \in Database : request[level] = RowsAt(v, level)
  BY DEF LevelTrue
<1>2. PICK u \in Database : request.groups[level] = GroupsAt(u, level)
  BY DEF LevelTrue
<1>3. PICK N : N = request[level]
  OBVIOUS
<1>4. PICK Q : Q = request.groups[level]
  OBVIOUS
<1>5. IsFiniteSet(N) /\ \A n \in N : Curve(n.series) /\ n.series # Empty
  BY <1>1, <1>3, RowsFinite
<1>6. /\ IsFiniteSet(Q)
      /\ \A g \in Q : Curve(g.series) /\ g.series # Empty
      /\ \A g \in Q : g = GroupOf(u, level, g.id)
  BY <1>2, <1>4, GroupsFinite
<1> DEFINE missing == {n.group : n \in N} \ {g.id : g \in Q}
           A == {[id |-> g.id, series |-> g.series, loss |-> LossKind(level, g.id)] : g \in Q}
           B == {[id |-> g, series |-> Empty, loss |-> LossKind(level, g)] : g \in missing}
<1>7. Groups(level) = A \cup B
  BY <1>3, <1>4 DEF Groups
<1>8. IsFiniteSet(A)
  <2> DEFINE f == [g \in Q |-> [id |-> g.id, series |-> g.series, loss |-> LossKind(level, g.id)]]
  <2>1. A = {f[g] : g \in Q}
    OBVIOUS
  <2> HIDE DEF f, A
  <2> QED BY <1>6, <2>1, FiniteImage
<1>9. IsFiniteSet(B)
  <2> DEFINE f == [n \in N |-> n.group]
             e == [g \in missing |-> [id |-> g, series |-> Empty, loss |-> LossKind(level, g)]]
  <2>1. missing \subseteq {f[n] : n \in N} /\ B = {e[g] : g \in missing}
    OBVIOUS
  <2> HIDE DEF f, e, B, missing
  <2>2. IsFiniteSet({f[n] : n \in N})
    BY <1>5, FiniteImage
  <2>3. IsFiniteSet(missing)
    BY <2>1, <2>2, FS_Subset
  <2> QED BY <2>1, <2>3, FiniteImage
<1>10. IsFiniteSet(A \cup B)
  <2> HIDE DEF A, B
  <2> QED BY <1>8, <1>9, FS_Union
<1>11. ASSUME NEW g \in A
       PROVE  /\ Curve(g.series) /\ g.series # Empty /\ g.loss = LossKind(level, g.id)
              /\ g.id \in {q.id : q \in Q}
  BY <1>6
<1>12. ASSUME NEW g \in B
       PROVE  /\ g.series = Empty /\ g.loss = LossKind(level, g.id)
              /\ g.id \in missing
  OBVIOUS
<1>13. ASSUME NEW g \in A, NEW h \in A, g.id = h.id PROVE g = h
  <2>1. PICK p \in Q : g = [id |-> p.id, series |-> p.series, loss |-> LossKind(level, p.id)]
    OBVIOUS
  <2>2. PICK q \in Q : h = [id |-> q.id, series |-> q.series, loss |-> LossKind(level, q.id)]
    OBVIOUS
  <2>3. p.id = q.id
    BY <1>13, <2>1, <2>2
  <2>4. p = q
    BY <1>6, <2>3
  <2> QED BY <2>1, <2>2, <2>4
<1>14. ASSUME NEW g \in B, NEW h \in B, g.id = h.id PROVE g = h
  BY <1>14
<1>15. ASSUME NEW g, NEW h, g \in A \cup B, h \in A \cup B, g.id = h.id PROVE g = h
  <2>1. \A x \in missing : x \notin {q.id : q \in Q}
    OBVIOUS
  <2> HIDE DEF A, B, missing
  <2> QED BY <1>11, <1>12, <1>13, <1>14, <1>15, <2>1
<1>16. ASSUME NEW n \in N PROVE \E g \in A \cup B : g.id = n.group
  <2>1. CASE n.group \in {q.id : q \in Q}
    <3>1. PICK q \in Q : q.id = n.group
      BY <2>1
    <3>2. PICK g : g = [id |-> q.id, series |-> q.series, loss |-> LossKind(level, q.id)]
      OBVIOUS
    <3>3. g \in A /\ g.id = n.group
      BY <3>1, <3>2
    <3> HIDE DEF A, B
    <3> QED BY <3>3
  <2>2. CASE n.group \notin {q.id : q \in Q}
    <3>1. PICK g : g = [id |-> n.group, series |-> Empty, loss |-> LossKind(level, n.group)]
      OBVIOUS
    <3>2. g \in B /\ g.id = n.group
      BY <2>2, <3>1
    <3> HIDE DEF A, B
    <3> QED BY <3>2
  <2> QED BY <2>1, <2>2
<1>17. \A x \in missing : \E n \in N : n.group = x
  OBVIOUS
<1> HIDE DEF A, B, missing
<1>18. ASSUME NEW g \in A \cup B
       PROVE  /\ Curve(g.series)
              /\ g.series = Empty => \E n \in N : n.group = g.id
              /\ g.loss = LossKind(level, g.id)
  BY <1>11, <1>12, <1>17, EmptyIsCurve
<1> QED BY <1>3, <1>5, <1>7, <1>10, <1>15, <1>16, <1>18

\* If nothing changed, each group has the sum of its rows, and none is missing.
LEMMA QuietGroups ==
    ASSUME NEW level, LevelTrue(level), quiet
    PROVE  /\ request[level] = RowsAt(vm, level)
           /\ \A g \in Groups(level) : g.series = GroupOf(vm, level, g.id).series
<1>1. request[level] = RowsAt(vm, level) /\ request.groups[level] = GroupsAt(vm, level)
  BY DEF LevelTrue
<1>2. ASSUME NEW n \in request[level] PROVE n.group \in {g.id : g \in request.groups[level]}
  <2>1. PICK l \in LeavesAt(vm, level) : n = RowOf(vm, l)
    BY <1>1 DEF RowsAt
  <2>2. PICK q : q = GroupOf(vm, level, l.group)
    OBVIOUS
  <2>3. q \in request.groups[level]
    BY <1>1, <2>2 DEF GroupsAt
  <2>4. n.group = q.id
    BY <2>1, <2>2 DEF RowOf, GroupOf
  <2> QED BY <2>3, <2>4
<1>3. ASSUME NEW g \in Groups(level)
      PROVE  \E q \in request.groups[level] : g.id = q.id /\ g.series = q.series
  BY <1>2 DEF Groups
<1>4. ASSUME NEW q \in GroupsAt(vm, level) PROVE q.series = GroupOf(vm, level, q.id).series
  BY DEF GroupsAt, GroupOf
<1> QED BY <1>1, <1>3, <1>4

\* Each row is under one group.
LEMMA UnderOneGroup ==
    ASSUME NEW level, LevelTrue(level), NEW n \in request[level]
    PROVE  Cardinality({g \in Groups(level) : g.id = n.group}) = 1
<1>1. PICK g \in Groups(level) : g.id = n.group
  BY GroupsShown
<1>2. \A h \in Groups(level) : h.id = n.group => h = g
  BY <1>1, GroupsShown
<1>3. {h \in Groups(level) : h.id = n.group} = {g}
  BY <1>1, <1>2
<1> QED BY <1>3, FS_Singleton

\* The rate of a group is not above that of its rows.
LEMMA GroupRateOfRows ==
    ASSUME NEW level, LevelTrue(level), quiet, vm \in Database, NEW g \in Groups(level)
    PROVE  Rate(g.series) <= RateOf(Children(level, g.id))
<1>1. PICK X : X = Children(level, g.id)
  OBVIOUS
<1>2. PICK c : c = [n \in X |-> n.series]
  OBVIOUS
<1>3. X = {n \in RowsAt(vm, level) : n.group = g.id}
  BY <1>1, QuietGroups DEF Children
<1>4. IsFiniteSet(X) /\ \A n \in X : Curve(c[n]) /\ c[n] = n.series
  BY <1>2, <1>3, RowsFinite, FS_Subset
<1>5. Series(X, c) = g.series
  BY <1>3, <1>4, GroupIsItsRows, QuietGroups
<1>6. Rate(Series(X, c)) <= Over([n \in X |-> Rate(c[n])], X)
  BY <1>4, RateOfSeries
<1>7. [n \in X |-> [m \in X |-> Rate(c[m])][n]] = [n \in X |-> Rate(n.series)]
  BY <1>4
<1>8. Over([n \in X |-> Rate(c[n])], X) = RateOf(X)
  BY <1>7 DEF Over, RateOf
<1> QED BY <1>1, <1>5, <1>6, <1>8

\* The latest sample of an answer is missing just when it is empty.
LEMMA LatestOfAny ==
    ASSUME SourceTrue, LevelTrue("parse"), LevelTrue("sink")
    PROVE  (LatestSample = 0) = (request.source \cup Groups("parse") \cup Groups("sink") = {})
<1> DEFINE Nodes == request.source \cup Groups("parse") \cup Groups("sink")
                        \cup request["parse"] \cup request["sink"]
           f == [n \in Nodes |-> DOMAIN n.series]
           times == UNION {DOMAIN s : s \in AllSeries}
<1>1. AllSeries = {n.series : n \in Nodes}
  BY DEF AllSeries
<1>2. IsFiniteSet(request.source) /\ \A n \in request.source : Curve(n.series) /\ n.series # Empty
  BY RowsFinite DEF SourceTrue
<1>3. IsFiniteSet(Nodes)
  <2>1. IsFiniteSet(Groups("parse")) /\ IsFiniteSet(Groups("sink"))
    BY GroupsShown
  <2>2. IsFiniteSet(request["parse"]) /\ IsFiniteSet(request["sink"])
    BY GroupsShown
  <2>3. IsFiniteSet(request.source \cup Groups("parse"))
    BY <1>2, <2>1, FS_Union
  <2>4. IsFiniteSet((request.source \cup Groups("parse")) \cup Groups("sink"))
    BY <2>1, <2>3, FS_Union
  <2>5. IsFiniteSet(((request.source \cup Groups("parse")) \cup Groups("sink")) \cup request["parse"])
    BY <2>2, <2>4, FS_Union
  <2> QED BY <2>2, <2>5, FS_Union
<1>4. \A n \in Nodes : Curve(n.series)
  BY <1>2, GroupsShown
<1>5. times = UNION {f[n] : n \in Nodes}
  BY <1>1
<1>6. IsFiniteSet(times) /\ times \subseteq Nat \ {0}
  <2>1. \A n \in Nodes : IsFiniteSet(f[n]) /\ f[n] \subseteq Nat \ {0}
    BY <1>4 DEF Curve
  <2> HIDE DEF f, Nodes
  <2>2. IsFiniteSet({f[n] : n \in Nodes})
    BY <1>3, FiniteImage
  <2>3. \A d \in {f[n] : n \in Nodes} : IsFiniteSet(d) /\ d \subseteq Nat \ {0}
    BY <2>1
  <2>4. IsFiniteSet(UNION {f[n] : n \in Nodes})
    BY <2>2, <2>3, FS_UNION
  <2>5. UNION {f[n] : n \in Nodes} \subseteq Nat \ {0}
    BY <2>3
  <2> QED BY <1>5, <2>4, <2>5
<1>7. (LatestSample = 0) = (times = {})
  <2>1. LatestSample = IF times = {} THEN 0 ELSE Max(times)
    BY DEF LatestSample
  <2> HIDE DEF times
  <2>2. times # {} => Max(times) \in times
    BY <1>6, FiniteMax
  <2> QED BY <1>6, <2>1, <2>2
<1>8. (times = {}) = (request.source \cup Groups("parse") \cup Groups("sink") = {})
  <2>1. ASSUME NEW n \in Nodes, n.series # Empty PROVE times # {}
    BY <1>4, <1>5, <2>1, EmptyCurve
  <2>2. \A n \in request.source \cup request["parse"] \cup request["sink"] : n.series # Empty
    BY <1>2, GroupsShown
  <2>3. ASSUME NEW level \in {"parse", "sink"}, NEW g \in Groups(level)
        PROVE  \E n \in Nodes : n.series # Empty
    <3>1. CASE g.series # Empty
      BY <3>1
    <3>2. CASE g.series = Empty
      <4>1. PICK n \in request[level] : n.group = g.id
        BY <3>2, GroupsShown
      <4>2. n \in Nodes /\ n.series # Empty
        BY <2>2
      <4> QED BY <4>2
    <3> QED BY <3>1, <3>2
  <2>4. request.source \cup Groups("parse") \cup Groups("sink") # {} => times # {}
    BY <2>1, <2>2, <2>3
  <2>5. ASSUME NEW level \in {"parse", "sink"}, NEW n \in request[level] PROVE Groups(level) # {}
    BY GroupsShown
  <2>6. request.source \cup Groups("parse") \cup Groups("sink") = {} => Nodes = {}
    BY <2>5
  <2>7. Nodes = {} => times = {}
    BY <1>5
  <2> QED BY <2>4, <2>6, <2>7
<1> QED BY <1>7, <1>8

\* If nothing changed, egress adds up to the rows of all but the loss groups,
\* and parsing to its rows.
LEMMA SummaryOfRows ==
    ASSUME vm \in Database, LevelTrue("parse"), LevelTrue("sink"), quiet
    PROVE  /\ Summary.egressSeries = SumSeries(CurvesOf({n \in request.sink : n.group \notin LossGroups}))
           /\ Summary.parseSeries = SumSeries(CurvesOf(request.parse))
<1>1. request["sink"] = RowsAt(vm, "sink") /\ request["parse"] = RowsAt(vm, "parse")
  BY QuietGroups
<1>2. SumSeries(CurvesOf(Egress)) = SumSeries(CurvesOf({n \in request.sink : n.group \notin LossGroups}))
  <2>1. PICK W : W = ({n.group : n \in RowsAt(vm, "sink")} \cup {g.id : g \in Groups("sink")}) \ LossGroups
    OBVIOUS
  <2>2. PICK R : R = {n \in RowsAt(vm, "sink") : n.group \in W}
    OBVIOUS
  <2>3. R = {n \in request.sink : n.group \notin LossGroups}
    BY <1>1, <2>1, <2>2
  <2>4. PICK G : G = Egress
    OBVIOUS
  <2>5. G \subseteq Groups("sink") /\ \A g \in Groups("sink") : g \in G <=> g.id \notin LossGroups
    BY <2>4, GroupsShown DEF Egress, LossKind
  <2>6. IsFiniteSet(G) /\ \A g, h \in G : g.id = h.id => g = h
    BY <2>5, GroupsShown, FS_Subset
  <2>7. \A g \in G : g.id \in W /\ g.series = GroupOf(vm, "sink", g.id).series
    BY <2>1, <2>5, QuietGroups
  <2>8. \A n \in R : \E g \in G : g.id = n.group
    BY <2>3, <2>5, GroupsShown
  <2>9. SumSeries(CurvesOf(G)) = SumSeries(CurvesOf(R))
    BY ONLY vm \in Database, <2>2, <2>6, <2>7, <2>8, GroupsAddUpToRows
  <2> QED BY <2>3, <2>4, <2>9
<1>3. SumSeries(CurvesOf(Groups("parse"))) = SumSeries(CurvesOf(request.parse))
  <2>1. PICK W : W = {n.group : n \in RowsAt(vm, "parse")} \cup {g.id : g \in Groups("parse")}
    OBVIOUS
  <2>2. PICK R : R = {n \in RowsAt(vm, "parse") : n.group \in W}
    OBVIOUS
  <2>3. R = request.parse
    BY <1>1, <2>1, <2>2
  <2>4. PICK G : G = Groups("parse")
    OBVIOUS
  <2>5. IsFiniteSet(G) /\ \A g, h \in G : g.id = h.id => g = h
    BY <2>4, GroupsShown
  <2>6. \A g \in G : g.id \in W /\ g.series = GroupOf(vm, "parse", g.id).series
    BY <2>1, <2>4, QuietGroups
  <2>7. \A n \in R : \E g \in G : g.id = n.group
    BY <2>3, <2>4, GroupsShown
  <2>8. SumSeries(CurvesOf(G)) = SumSeries(CurvesOf(R))
    BY ONLY vm \in Database, <2>2, <2>5, <2>6, <2>7, GroupsAddUpToRows
  <2> QED BY <2>3, <2>4, <2>8
<1> QED BY <1>2, <1>3 DEF Summary

\* True answers make rows, groups and summary fit one another.
LEMMA InvRows == PipelineInv => RowsAddUp
<1> SUFFICES ASSUME PipelineInv, Answered PROVE RowsAddUp
  BY DEF RowsAddUp
<1>1. vm \in Database /\ SourceTrue /\ LevelTrue("parse") /\ LevelTrue("sink")
  BY AnsweredTrue
<1>2. \A level \in {"parse", "sink"} : LevelTrue(level)
  BY <1>1
<1>3. \A level \in {"parse", "sink"} : \A n \in request[level] :
          Cardinality({g \in Groups(level) : g.id = n.group}) = 1
  BY <1>2, UnderOneGroup
<1>4. (LatestSample = 0) = (request.source \cup Groups("parse") \cup Groups("sink") = {})
  BY <1>1, LatestOfAny
<1>5. ASSUME quiet
      PROVE  /\ Summary.egressSeries = SumSeries(CurvesOf({n \in request.sink : n.group \notin LossGroups}))
             /\ Summary.parseSeries = SumSeries(CurvesOf(request.parse))
  BY <1>1, <1>5, SummaryOfRows
<1>6. ASSUME quiet, NEW level \in {"parse", "sink"}, NEW g \in Groups(level)
      PROVE  Rate(g.series) <= RateOf(Children(level, g.id))
  BY <1>1, <1>2, <1>6, GroupRateOfRows
<1> QED BY <1>3, <1>4, <1>5, <1>6 DEF RowsAddUp

\* Every answer is true of the database as it was at its query, in every state.
THEOREM PipelineInOrder == ViewsSpec => []PipelineInv
<1> QED
  BY InitPipelineInv, NextPipelineInv, PipelineApart, PTL DEF PipelineSpec

\* Whatever the series and whatever came between the queries: each row is under
\* one group, the latest sample is missing just when there is nothing, and if
\* nothing came between, groups and summary add up to the rows.
THEOREM RowsAlwaysAddUp == ViewsSpec => []RowsAddUp
<1> QED
  BY InvRows, PipelineInOrder, PTL
=============================================================================
