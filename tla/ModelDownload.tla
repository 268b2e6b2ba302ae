--------------------------- MODULE ModelDownload ---------------------------
(***************************************************************************)
(* Downloads of models (tools/samosa_models.py).  A process installs the   *)
(* runtime's archive and a model's files one by one: curl continues        *)
(* <name>.partial, which gets the file's name once its size and its digest *)
(* are right.  The gateway does it in one background thread that can be    *)
(* cancelled, "samosa pull" in a process of its own; either may die and    *)
(* leave its curl running.  A file is a sequence of blocks: i at its i-th  *)
(* place is block i of the pinned file, and 0 is anything else.            *)
(***************************************************************************)
EXTENDS Naturals, Sequences, FiniteSets

CONSTANTS Procs,      \* the processes that may download
          Gateway,    \* the one with a DownloadManager
          Curls,      \* curl processes that can exist at one time
          LastFile,   \* files 1 .. LastFile are installed in this order; 1 is the archive
          Size,       \* the size of each in blocks
          PipeRoom,   \* lines of curl's progress meter that its stderr pipe holds
          MaxExtra,   \* bound: blocks by which a file grows beyond its size
          MaxDownloads, \* bound: downloads that are begun
          None

Files  == 1 .. LastFile
Right  == [f \in Files |-> [i \in 1 .. Size[f] |-> i]]
Wrong  == [f \in Files |-> [i \in 1 .. Size[f] |-> 0]]

ASSUME FilesAssumption  == LastFile \in Nat \ {0, 1} /\ Size \in [Files -> Nat \ {0}] /\ Curls \subseteq Nat
ASSUME NoneAssumption   == None \notin Seq(Nat) \cup {"ok", "failed"}
ASSUME BoundsAssumption == MaxExtra \in Nat /\ MaxDownloads \in Nat /\ PipeRoom \in Nat
ASSUME ProcsAssumption  == Gateway \in Procs /\ None \notin Procs /\ None \notin Curls

VARIABLES target,   \* what is under each file's name, or None
          partial,  \* what is under each file's .partial name, or None
          runtime,  \* the archive that was unpacked as the runtime, or None
          curl,     \* the curl processes, None when there is none
          pc,       \* where each process is in install_model
          file,     \* the file it is at
          child,    \* the curl it waits for
          cancel,   \* cancel_event of the DownloadManager's thread, while it has one
          complete, \* "phase" of its state is "complete"
          begun,    \* downloads so far (bounded)
          met       \* a curl was started for a file that another curl, or another process, is at

disk    == <<target, partial, runtime>>
work    == <<pc, file, child>>
manager == <<cancel, complete>>
vars    == <<disk, curl, work, manager, begun, met>>

Places == {"idle", "check", "verify", "fetch", "wait", "hash", "replace", "unpack", "marker"}

Spare   == {c \in Curls : curl[c] = None}
Running == {c \in Curls : curl[c] # None /\ curl[c].ended = None}
Owned(c) == \E p \in Procs : child[p] = c

GotoFile(p, where, f) == pc' = [pc EXCEPT ![p] = where] /\ file' = [file EXCEPT ![p] = f]
Goto(p, where)        == GotoFile(p, where, file[p])

\* What curls have open follows its file when that is renamed or unlinked.
Follow(f, place) ==
    [c \in Curls |-> IF curl[c] # None /\ curl[c].file = f /\ curl[c].at \in DOMAIN place
                       THEN [curl[c] EXCEPT !.at = place[@]] ELSE curl[c]]

Unlinked(name) == [at \in {name} |-> "gone"]
Renamed == [at \in {"partial", "target"} |-> IF at = "partial" THEN "target" ELSE "gone"]

-----------------------------------------------------------------------------
(* DownloadManager, and the command line. *)

Begin(p) ==
    /\ pc[p] = "idle"              \* start() refuses while the thread is alive
    /\ begun < MaxDownloads /\ begun' = begun + 1
    /\ Goto(p, "check")
    /\ UNCHANGED <<disk, curl, child, met>>

StartDownload ==
    /\ Begin(Gateway)
    /\ cancel' = FALSE /\ complete' = FALSE

Pull(p) ==
    /\ p # Gateway
    /\ Begin(p)
    /\ UNCHANGED manager

\* cancel(): only while the thread is alive.
CancelDownload ==
    /\ pc[Gateway] # "idle" /\ ~cancel
    /\ cancel' = TRUE
    /\ UNCHANGED <<disk, curl, work, complete, begun, met>>

Cancelled(p) == p = Gateway /\ cancel

Ends(p, whole) ==
    /\ GotoFile(p, "idle", 1)
    /\ child' = [child EXCEPT ![p] = None]
    /\ IF p = Gateway THEN complete' = whole /\ cancel' = FALSE ELSE UNCHANGED manager
    /\ UNCHANGED <<begun, met>>

\* An exception ends install_model(): the phase is "cancelled" or "error".
Fails(p) == Ends(p, FALSE)

Stay == UNCHANGED <<disk, curl>>
On   == UNCHANGED <<child, manager, begun, met>>

-----------------------------------------------------------------------------
(* install_model(): room for what is missing, the runtime, then each file. *)

NoRoom(p) ==
    /\ pc[p] = "check" /\ file[p] = 1
    /\ Fails(p) /\ Stay

NextFile(p) == CASE file[p] = 1        -> Goto(p, "unpack")
                 [] file[p] = LastFile -> Goto(p, "marker")
                 [] OTHER              -> GotoFile(p, "check", file[p] + 1)

\* A runtime that is there is kept.  A file of the right size is hashed, any other is fetched.
Check(p) ==
    LET f == file[p] IN
    /\ pc[p] = "check"
    /\ IF f = 1 /\ runtime # None
         THEN GotoFile(p, "check", 2)
         ELSE Goto(p, IF target[f] # None /\ Len(target[f]) = Size[f] THEN "verify" ELSE "fetch")
    /\ Stay /\ On

\* Fault: the size is taken for the digest.
DigestOfSize(f, blocks) == Len(blocks) = Size[f]
DigestRight(f, blocks)  == blocks = Right[f]

\* Fault: a file of the right size is kept as it is.
TargetWrongNever(f) == FALSE
TargetWrong(f) == ~DigestRight(f, target[f])

Verify(p) ==
    LET f == file[p] IN
    /\ pc[p] = "verify"
    /\ \/ (Cancelled(p) \/ target[f] = None) /\ Fails(p) /\ Stay
       \/ /\ ~Cancelled(p) /\ target[f] # None /\ ~TargetWrong(f)
          /\ NextFile(p) /\ Stay /\ On
       \/ /\ ~Cancelled(p) /\ target[f] # None /\ TargetWrong(f)
          /\ target' = [target EXCEPT ![f] = None]
          /\ curl' = Follow(f, Unlinked("target"))
          /\ Goto(p, "fetch") /\ On /\ UNCHANGED <<partial, runtime>>

\* Another curl has the file open, or another process is at it.
Shared(p, f) == \/ \E c \in Running : curl[c].file = f
                \/ \E q \in Procs \ {p} : pc[q] # "idle" /\ file[q] = f

\* A partial file that is too long is removed; curl -C - continues what is there.
Fetch(p) ==
    LET f     == file[p]
        long  == partial[f] # None /\ Len(partial[f]) > Size[f]
        fresh == long \/ partial[f] \in {None, <<>>}
        c     == CHOOSE d \in Spare : \A e \in Spare : d <= e IN
    /\ pc[p] = "fetch" /\ Spare # {}
    /\ partial' = IF long THEN [partial EXCEPT ![f] = None] ELSE partial
    /\ curl' = [IF long THEN Follow(f, Unlinked("partial")) ELSE curl
                  EXCEPT ![c] = [file |-> f, fresh |-> fresh, ended |-> None, lines |-> 0,
                                 at   |-> IF fresh THEN "unopened" ELSE "partial",
                                 next |-> IF fresh THEN 1 ELSE Len(partial[f]) + 1]]
    /\ child' = [child EXCEPT ![p] = c]
    /\ met' = (met \/ Shared(p, f))
    /\ Goto(p, "wait")
    /\ UNCHANGED <<target, runtime, manager, begun>>

\* Fault: curl is waited for.
SeesCancelNever(p) == FALSE
\* The poll loop sees the cancel: curl is terminated, killed after 5 seconds.
SeesCancel(p) == Cancelled(p) /\ child[p] \in Running

CancelCurl(p) ==
    /\ pc[p] = "wait" /\ SeesCancel(p)
    /\ curl' = [curl EXCEPT ![child[p]] = None]
    /\ Fails(p) /\ UNCHANGED disk

\* curl has ended: its exit code, then the size.
CurlEnded(p) ==
    LET f == file[p] IN
    /\ pc[p] = "wait" /\ child[p] \notin Running
    /\ curl' = [curl EXCEPT ![child[p]] = None]
    /\ UNCHANGED disk
    /\ IF curl[child[p]].ended = "ok" /\ partial[f] # None /\ Len(partial[f]) = Size[f]
         THEN Goto(p, "hash") /\ child' = [child EXCEPT ![p] = None] /\ UNCHANGED <<manager, begun, met>>
         ELSE Fails(p)

\* The digest of the partial file.  A wrong one leaves the file as it is.
Hash(p) ==
    LET f == file[p] IN
    /\ pc[p] = "hash"
    /\ IF ~Cancelled(p) /\ partial[f] # None /\ DigestRight(f, partial[f])
         THEN Goto(p, "replace") /\ On
         ELSE Fails(p)
    /\ Stay

Replace(p) ==
    LET f == file[p] IN
    /\ pc[p] = "replace"
    /\ IF partial[f] = None
         THEN Fails(p) /\ Stay
         ELSE /\ target' = [target EXCEPT ![f] = partial[f]]
              /\ partial' = [partial EXCEPT ![f] = None]
              /\ curl' = Follow(f, Renamed)
              /\ NextFile(p) /\ On /\ UNCHANGED runtime

\* ensure_prism_runtime(): unpacked beside its place and renamed to it, or it cannot be unpacked.
Unpack(p) ==
    /\ pc[p] = "unpack"
    /\ \/ /\ target[1] # None
          /\ runtime' = target[1]
          /\ GotoFile(p, "check", 2) /\ On /\ UNCHANGED <<target, partial, curl>>
       \/ Fails(p) /\ Stay

\* .installed.json is written; the gateway's thread calls on_complete, which is DownloadCompleted
\* of GatewaySupervisor, and sets its phase.
Complete(p) ==
    /\ pc[p] = "marker"
    /\ Ends(p, TRUE) /\ Stay

\* A process dies, or the gateway exits before its thread has seen the cancel: its curl lives on.
Dies(p) ==
    /\ pc[p] # "idle"
    /\ GotoFile(p, "idle", 1)
    /\ child' = [child EXCEPT ![p] = None]
    /\ curl' = [c \in Curls |-> IF c = child[p] /\ c \notin Running THEN None ELSE curl[c]]
    /\ IF p = Gateway THEN cancel' = FALSE /\ complete' = FALSE ELSE UNCHANGED manager
    /\ UNCHANGED <<disk, begun, met>>

-----------------------------------------------------------------------------
(* curl -fL -C -.  A fresh transfer truncates its output at the first block and writes from its *)
(* start, a continued one appends.  The progress meter goes to stderr, a pipe that is read only *)
(* once curl has ended (by nobody, for an orphan: its write fails and curl goes on without).    *)

Most(f) == Size[f] + MaxExtra

At(place, b) == IF b = place THEN b ELSE 0

Put(blocks, c, b) == IF curl[c].fresh /\ curl[c].next <= Len(blocks)
                       THEN [blocks EXCEPT ![curl[c].next] = b]
                       ELSE Append(blocks, At(Len(blocks) + 1, b))

Writes(c, b) ==
    LET f == curl[c].file IN
    CASE curl[c].at = "unopened" -> /\ partial' = [partial EXCEPT ![f] = <<b>>]
                                    /\ UNCHANGED target
      [] curl[c].at = "partial"  -> /\ Len(partial[f]) < Most(f)
                                    /\ partial' = [partial EXCEPT ![f] = Put(@, c, b)]
                                    /\ UNCHANGED target
      [] curl[c].at = "target"   -> /\ Len(target[f]) < Most(f)
                                    /\ target' = [target EXCEPT ![f] = Put(@, c, b)]
                                    /\ UNCHANGED partial
      [] OTHER                   -> UNCHANGED <<target, partial>>

MayWrite(c) == ~Owned(c) \/ curl[c].lines < PipeRoom

\* The next block arrives, sound or not; there are as many as the pinned file has.
Receive(c, sound) ==
    LET b == IF sound THEN curl[c].next ELSE 0 IN
    /\ c \in Running /\ MayWrite(c)
    /\ curl[c].next <= Size[curl[c].file]
    /\ Writes(c, b)
    /\ curl' = [curl EXCEPT ![c].next = @ + 1,
                            ![c].lines = IF @ < PipeRoom THEN @ + 1 ELSE @,
                            ![c].at = IF @ = "unopened" THEN "partial" ELSE @]
    /\ UNCHANGED <<runtime, work, manager, begun, met>>

\* The transfer ends as complete when the server has sent what it has, or fails: nothing is left of
\* an orphan, and of another its exit code.
Exited(f, how) == [file |-> f, fresh |-> FALSE, ended |-> how, lines |-> 0, at |-> "gone", next |-> 1]

CurlEnds(c, how) ==
    /\ c \in Running /\ MayWrite(c)
    /\ curl' = [curl EXCEPT ![c] = IF Owned(c) THEN Exited(@.file, how) ELSE None]
    /\ UNCHANGED <<disk, work, manager, begun, met>>

-----------------------------------------------------------------------------
\* Files of an earlier installation may be damaged, partial ones belong to an earlier catalog.
Init ==
    /\ target \in {[f \in Files |-> IF f \in damaged THEN Wrong[f] ELSE None] :
                       damaged \in SUBSET (Files \ {1})}
    /\ partial \in {[f \in Files |-> IF f \in old THEN Append(Wrong[f], 0) ELSE None] :
                        old \in SUBSET (Files \ {1})}
    /\ runtime = None
    /\ curl = [c \in Curls |-> None]
    /\ pc = [p \in Procs |-> "idle"]
    /\ file = [p \in Procs |-> 1]
    /\ child = [p \in Procs |-> None]
    /\ cancel = FALSE /\ complete = FALSE /\ begun = 0 /\ met = FALSE

Installs(p) ==
    \/ NoRoom(p) \/ Check(p) \/ Verify(p) \/ Fetch(p) \/ CancelCurl(p) \/ CurlEnded(p) \/ Hash(p)
    \/ Replace(p) \/ Unpack(p) \/ Complete(p)

Transfers(c) == (\E sound \in BOOLEAN : Receive(c, sound)) \/ \E how \in {"ok", "failed"} : CurlEnds(c, how)

Next ==
    \/ StartDownload \/ CancelDownload
    \/ \E p \in Procs : Pull(p) \/ Installs(p) \/ Dies(p)
    \/ \E c \in Curls : Transfers(c)

\* The download thread is scheduled.  Nothing is asked of the network: curl has no timeout.
Spec == Init /\ [][Next]_vars /\ WF_vars(Installs(Gateway))

\* The same with a network that goes on, for what is promised of a download that nobody stops.
NetworkSpec == Spec /\ \A c \in Curls : WF_vars(Transfers(c))

-----------------------------------------------------------------------------
\* docs/INSTALL.md:63 "Every catalog file is pinned by repository revision, expected size, and
\* SHA-256.  It remains under a .partial filename until validation succeeds": until two downloads
\* have met at a file, a file's name is only ever given to the pinned file, and what has the name
\* does not change afterwards, whatever a cancel, a crash or a damaged transfer left behind.
VerifiedUntilMet ==
    [][~met => \A f \in Files : target'[f] # target[f] => target'[f] \in {None, Right[f]}]_vars

\* The same without the exception, which does not hold: what is renamed need not be what was
\* hashed, and a curl that has the file open goes on writing to it.
InstalledIsVerified ==
    [][\A f \in Files : target'[f] # target[f] => target'[f] \in {None, Right[f]}]_vars

\* Until two downloads have met at a file, when the state says "complete", every file is the
\* pinned one: also those found in place.
CompleteUntilMet ==
    ~met /\ complete => runtime = Right[1] /\ \A f \in Files \ {1} : target[f] = Right[f]

\* A cancel that was accepted ends the thread, however the network hangs and whoever else is at
\* its file.
CancelEnds == cancel ~> pc[Gateway] = "idle"

\* README.md:45 "click Download for the desired model.  First downloads are activated
\* automatically upon verification": a download comes to an end.
DownloadEnds == pc[Gateway] # "idle" ~> pc[Gateway] = "idle"
=============================================================================
