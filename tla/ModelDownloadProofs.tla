------------------------- MODULE ModelDownloadProofs -------------------------
(***************************************************************************)
(* What an installed file is worth, for every number of processes, curls   *)
(* and files, as long as two downloads have not met at a file: a file's    *)
(* name is only ever given to the pinned file, and an installation that    *)
(* says it is complete is.                                                 *)
(***************************************************************************)
EXTENDS ModelDownload, RangeSumTheorems

-----------------------------------------------------------------------------
(* Types.                                                                  *)

Contents == Seq(Nat) \cup {None}

CurlRecords == [file : Files, fresh : BOOLEAN, ended : {None, "ok", "failed"}, lines : Nat,
                at : {"unopened", "partial", "target", "gone"}, next : Nat \ {0}]

DiskOK ==
    /\ target \in [Files -> Contents] /\ partial \in [Files -> Contents]
    /\ runtime \in Contents

WorkOK ==
    /\ pc \in [Procs -> Places]
    /\ file \in [Procs -> Files]
    /\ child \in [Procs -> Curls \cup {None}]
    /\ cancel \in BOOLEAN /\ complete \in BOOLEAN /\ begun \in Nat /\ met \in BOOLEAN

TypeOK == DiskOK /\ WorkOK /\ curl \in [Curls -> CurlRecords \cup {None}]

\* A file that a curl has open under a name has that name.
OpenFilesExist ==
    \A c \in Curls : curl[c] # None =>
        /\ curl[c].at = "partial" => partial[curl[c].file] # None
        /\ curl[c].at = "target"  => target[curl[c].file] # None

\* A process that has, or had, a curl for its file.
Fetching(p) == pc[p] \in {"wait", "hash", "replace"}

\* As long as no two downloads have met: one process at a file, and one curl, its own; none once
\* the file is being hashed and renamed, so that it still is what was hashed.
FilesOwnedOnce ==
    ~met =>
      /\ \A p, q \in Procs : Fetching(p) /\ Fetching(q) /\ file[p] = file[q] => p = q
      /\ \A p \in Procs, c \in Running :
             Fetching(p) /\ curl[c].file = file[p] => pc[p] = "wait" /\ c = child[p]
      /\ \A p \in Procs : pc[p] = "replace" => partial[file[p]] = Right[file[p]]
      /\ \A c \in Running : curl[c].at # "target"

\* What a process has behind it is installed.
InstalledSoFar ==
    ~met =>
      /\ runtime \in {None, Right[1]} /\ target[1] \in {None, Right[1]}
      /\ \A p \in Procs :
           /\ file[p] # 1 => runtime = Right[1]
           /\ \A g \in Files : 1 < g /\ g < file[p] => target[g] = Right[g]
           /\ pc[p] = "marker" => file[p] = LastFile /\ target[LastFile] = Right[LastFile]
      /\ CompleteUntilMet

-----------------------------------------------------------------------------
(* Lemmas on the operators.                                                *)

\* What curls have open follows its file: nothing else about them changes, and none appears.
LEMMA FollowKeeps ==
    ASSUME TypeOK, NEW f \in Files, NEW place \in {Unlinked("partial"), Unlinked("target"), Renamed}
    PROVE  LET new == Follow(f, place) IN
           /\ new \in [Curls -> CurlRecords \cup {None}]
           /\ \A c \in Curls :
                /\ curl[c] = None => new[c] = None
                /\ curl[c] # None =>
                     /\ new[c].file = curl[c].file /\ new[c].ended = curl[c].ended
                     /\ new[c].at = IF curl[c].file = f /\ curl[c].at \in DOMAIN place
                                      THEN place[curl[c].at] ELSE curl[c].at
<1>1. DOMAIN place \subseteq {"partial", "target"} /\ \A at \in DOMAIN place : place[at] \in {"target", "gone"}
  BY DEF Unlinked, Renamed
<1>2. ASSUME NEW c \in Curls
      PROVE  /\ Follow(f, place)[c] \in CurlRecords \cup {None}
             /\ curl[c] = None => Follow(f, place)[c] = None
             /\ curl[c] # None =>
                  /\ Follow(f, place)[c].file = curl[c].file
                  /\ Follow(f, place)[c].ended = curl[c].ended
                  /\ Follow(f, place)[c].at = IF curl[c].file = f /\ curl[c].at \in DOMAIN place
                                                THEN place[curl[c].at] ELSE curl[c].at
  <2> DEFINE moved == [curl[c] EXCEPT !.at = place[curl[c].at]]
  <2>1. Follow(f, place)[c] = IF curl[c] # None /\ curl[c].file = f /\ curl[c].at \in DOMAIN place
                                THEN moved ELSE curl[c]
    BY DEF Follow
  <2>2. curl[c] \in CurlRecords \cup {None}
    BY DEF TypeOK
  <2>3. ASSUME curl[c] # None, curl[c].file = f, curl[c].at \in DOMAIN place
        PROVE  /\ moved \in CurlRecords /\ moved.file = curl[c].file
               /\ moved.ended = curl[c].ended /\ moved.at = place[curl[c].at]
    <3>1. curl[c] \in CurlRecords /\ place[curl[c].at] \in {"target", "gone"}
      BY <1>1, <2>2, <2>3
    <3> QED
      BY <3>1 DEF CurlRecords
  <2> HIDE DEF moved
  <2> QED
    BY <2>1, <2>2, <2>3
<1> QED
  BY <1>2 DEF Follow

\* A block put into a file's contents leaves a sequence.
LEMMA PutTypes ==
    ASSUME NEW blocks \in Seq(Nat), NEW c, NEW b \in Nat, curl[c] \in CurlRecords
    PROVE  Put(blocks, c, b) \in Seq(Nat)
<1>1. CASE curl[c].fresh /\ curl[c].next <= Len(blocks)
  <2>1. curl[c].next \in 1 .. Len(blocks)
    BY <1>1 DEF CurlRecords
  <2>2. [blocks EXCEPT ![curl[c].next] = b] \in Seq(Nat)
    BY <2>1
  <2> QED
    BY <1>1, <2>2 DEF Put
<1>2. CASE ~(curl[c].fresh /\ curl[c].next <= Len(blocks))
  <2>1. At(Len(blocks) + 1, b) \in Nat
    BY DEF At
  <2> QED
    BY <1>2, <2>1 DEF Put
<1> QED
  BY <1>1, <1>2

\* The curl that a fetch starts is one that does not exist.
LEMMA SpareCurl ==
    ASSUME Spare # {}
    PROVE  (CHOOSE d \in Spare : \A e \in Spare : d <= e) \in Spare
<1>1. Spare \in SUBSET Nat
  BY FilesAssumption DEF Spare
<1>2. \E d \in Spare : \A e \in Spare : d <= e
  BY <1>1, LeastElement
<1> QED
  BY <1>2

LEMMA RightIsContents ==
    ASSUME NEW f \in Files
    PROVE  /\ Right[f] \in Seq(Nat) /\ Wrong[f] \in Seq(Nat) /\ Right[f] # None
           /\ Append(Wrong[f], 0) \in Seq(Nat)
<1>1. Size[f] \in Nat
  BY FilesAssumption
<1>2. /\ Right[f] = [i \in 1 .. Size[f] |-> i] /\ Wrong[f] = [i \in 1 .. Size[f] |-> 0]
  BY DEF Right, Wrong
<1>3. Right[f] \in [1 .. Size[f] -> Nat] /\ Wrong[f] \in [1 .. Size[f] -> Nat]
  BY <1>1, <1>2
<1>4. Right[f] \in Seq(Nat) /\ Wrong[f] \in Seq(Nat)
  BY <1>1, <1>3 DEF Seq
<1> QED
  BY <1>4, NoneAssumption

LEMMA FileNumbers ==
    /\ 1 \in Files /\ 2 \in Files /\ LastFile \in Files /\ LastFile # 1
    /\ \A f \in Files : f \in Nat /\ (f # LastFile => f + 1 \in Files)
  BY FilesAssumption DEF Files

LEMMA EndsTypes ==
    ASSUME WorkOK, NEW p \in Procs, NEW whole \in BOOLEAN, Ends(p, whole)
    PROVE  WorkOK'
<1>1. pc' \in [Procs -> Places] /\ file' \in [Procs -> Files] /\ child' \in [Procs -> Curls \cup {None}]
  BY FileNumbers DEF WorkOK, Ends, GotoFile, Places
<1>2. cancel' \in BOOLEAN /\ complete' \in BOOLEAN
  <2>1. CASE p = Gateway
    BY <2>1 DEF Ends
  <2>2. CASE p # Gateway
    BY <2>2 DEF Ends, manager, WorkOK
  <2> QED
    BY <2>1, <2>2
<1>3. begun' \in Nat /\ met' \in BOOLEAN
  BY DEF Ends, WorkOK
<1> QED
  BY <1>1, <1>2, <1>3 DEF WorkOK

LEMMA FailsTypes ==
    ASSUME WorkOK, NEW p \in Procs, Fails(p)
    PROVE  WorkOK'
  BY EndsTypes DEF Fails

LEMMA NextFileTypes ==
    ASSUME WorkOK, NEW p \in Procs, NextFile(p), On
    PROVE  WorkOK'
<1>1. PICK f \in Files, where \in {"unpack", "marker", "check"} : GotoFile(p, where, f)
  BY FileNumbers DEF NextFile, Goto, WorkOK
<1> QED
  BY <1>1 DEF WorkOK, GotoFile, On, manager, Places

-----------------------------------------------------------------------------
\* Every step keeps the types.
LEMMA TypeStep ==
    ASSUME TypeOK, OpenFilesExist, [Next]_vars
    PROVE  TypeOK'
<1> USE DEF TypeOK
<1>1. ASSUME StartDownload PROVE TypeOK'
  <2>1. pc' \in [Procs -> Places] /\ file' \in [Procs -> Files] /\ begun' \in Nat
    BY <1>1, ProcsAssumption DEF StartDownload, Begin, Goto, GotoFile, Places, WorkOK
  <2>2. child' = child /\ cancel' = FALSE /\ complete' = FALSE /\ met' = met
    BY <1>1 DEF StartDownload, Begin
  <2>3. WorkOK'
    BY <2>1, <2>2 DEF WorkOK
  <2> QED
    BY <1>1, <2>3 DEF StartDownload, Begin, disk, DiskOK
<1>2. ASSUME CancelDownload PROVE TypeOK'
  BY <1>2 DEF CancelDownload, disk, work, DiskOK, WorkOK
<1>3. ASSUME NEW p \in Procs, Pull(p) PROVE TypeOK'
  BY <1>3, FileNumbers, ProcsAssumption DEF Pull, Begin, Goto, GotoFile, disk, manager, Places,
     DiskOK, WorkOK
<1>4. ASSUME NEW p \in Procs, NoRoom(p) PROVE TypeOK'
  BY <1>4, FailsTypes DEF NoRoom, Stay, disk, DiskOK
<1>5. ASSUME NEW p \in Procs, Check(p) PROVE TypeOK'
  <2>1. WorkOK'
    BY <1>5, FileNumbers DEF Check, Goto, GotoFile, On, manager, WorkOK, Places
  <2> QED
    BY <1>5, <2>1 DEF Check, Stay, disk, DiskOK
<1>6. ASSUME NEW p \in Procs, Verify(p) PROVE TypeOK'
  <2>1. WorkOK'
    BY <1>6, FailsTypes, NextFileTypes DEF Verify, Goto, GotoFile, On, manager, WorkOK, Places
  <2>2. file[p] \in Files
    BY DEF WorkOK
  <2>3. Follow(file[p], Unlinked("target")) \in [Curls -> CurlRecords \cup {None}]
    BY <2>2, FollowKeeps
  <2>4. DiskOK' /\ curl' \in [Curls -> CurlRecords \cup {None}]
    BY <1>6, <2>2, <2>3 DEF Verify, Stay, disk, DiskOK, Contents
  <2> QED
    BY <2>1, <2>4
<1>7. ASSUME NEW p \in Procs, Fetch(p) PROVE TypeOK'
  <2> DEFINE f     == file[p]
             long  == partial[f] # None /\ Len(partial[f]) > Size[f]
             fresh == long \/ partial[f] \in {None, <<>>}
             d     == CHOOSE d \in Spare : \A e \in Spare : d <= e
             old   == IF long THEN Follow(f, Unlinked("partial")) ELSE curl
             new   == [file |-> f, fresh |-> fresh, ended |-> None, lines |-> 0,
                       at   |-> IF fresh THEN "unopened" ELSE "partial",
                       next |-> IF fresh THEN 1 ELSE Len(partial[f]) + 1]
  <2>1. /\ curl' = [old EXCEPT ![d] = new] /\ child' = [child EXCEPT ![p] = d]
        /\ partial' = IF long THEN [partial EXCEPT ![f] = None] ELSE partial
    BY <1>7 DEF Fetch
  <2>2. f \in Files /\ d \in Curls
    BY <1>7, SpareCurl DEF Fetch, Spare, WorkOK
  <2>3. new \in CurlRecords
    <3> DEFINE n  == IF fresh THEN 1 ELSE Len(partial[f]) + 1
               at == IF fresh THEN "unopened" ELSE "partial"
    <3>1. ~fresh => Len(partial[f]) \in Nat
      BY <2>2 DEF Contents, DiskOK
    <3>2. fresh \in BOOLEAN /\ n \in Nat \ {0} /\ at \in {"unopened", "partial"}
      BY <3>1
    <3> HIDE DEF f, fresh, n, at
    <3> QED
      BY <2>2, <3>2 DEF CurlRecords
  <2>4. old \in [Curls -> CurlRecords \cup {None}]
    BY <2>2, FollowKeeps
  <2>5. curl' \in [Curls -> CurlRecords \cup {None}] /\ child' \in [Procs -> Curls \cup {None}]
    <3>1. child \in [Procs -> Curls \cup {None}]
      BY DEF WorkOK
    <3> HIDE DEF d, old, new
    <3> QED
      BY <2>1, <2>2, <2>3, <2>4, <3>1
  <2>6. partial' \in [Files -> Contents]
    BY <2>1, <2>2 DEF Contents, DiskOK
  <2>7. pc' \in [Procs -> Places] /\ file' \in [Procs -> Files] /\ met' \in BOOLEAN
    BY <1>7 DEF Fetch, Goto, GotoFile, Places, WorkOK
  <2> HIDE DEF f, long, fresh, d, old, new
  <2> QED
    BY <1>7, <2>5, <2>6, <2>7 DEF Fetch, manager, DiskOK, WorkOK
<1>8. ASSUME NEW p \in Procs, CancelCurl(p) PROVE TypeOK'
  BY <1>8, FailsTypes DEF CancelCurl, disk, DiskOK
<1>9. ASSUME NEW p \in Procs, CurlEnded(p) PROVE TypeOK'
  <2>1. WorkOK'
    BY <1>9, FailsTypes DEF CurlEnded, Goto, GotoFile, manager, WorkOK, Places
  <2> QED
    BY <1>9, <2>1 DEF CurlEnded, disk, DiskOK
<1>10. ASSUME NEW p \in Procs, Hash(p) PROVE TypeOK'
  <2>1. WorkOK'
    BY <1>10, FailsTypes DEF Hash, Goto, GotoFile, On, manager, WorkOK, Places
  <2> QED
    BY <1>10, <2>1 DEF Hash, Stay, disk, DiskOK
<1>11. ASSUME NEW p \in Procs, Replace(p) PROVE TypeOK'
  <2>1. WorkOK'
    BY <1>11, FailsTypes, NextFileTypes DEF Replace
  <2>2. DiskOK' /\ curl' \in [Curls -> CurlRecords \cup {None}]
    <3>1. CASE partial[file[p]] = None
      BY <1>11, <3>1 DEF Replace, Stay, disk, DiskOK
    <3>2. CASE partial[file[p]] # None
      <4>1. file[p] \in Files
        BY DEF WorkOK
      <4>2. Follow(file[p], Renamed) \in [Curls -> CurlRecords \cup {None}]
        BY <4>1, FollowKeeps
      <4> QED
        BY <1>11, <3>2, <4>1, <4>2 DEF Replace, DiskOK, Contents
    <3> QED
      BY <3>1, <3>2
  <2> QED
    BY <2>1, <2>2
<1>12. ASSUME NEW p \in Procs, Unpack(p) PROVE TypeOK'
  <2>1. WorkOK'
    BY <1>12, FailsTypes, FileNumbers DEF Unpack, GotoFile, On, manager, WorkOK, Places
  <2> QED
    BY <1>12, <2>1, FileNumbers DEF Unpack, Stay, disk, DiskOK
<1>15. ASSUME NEW p \in Procs, Complete(p) PROVE TypeOK'
  BY <1>15, EndsTypes, ProcsAssumption DEF Complete, Stay, disk, DiskOK
<1>16. ASSUME NEW p \in Procs, Dies(p) PROVE TypeOK'
  <2>1. WorkOK'
    BY <1>16, FileNumbers DEF Dies, GotoFile, manager, WorkOK, Places
  <2> QED
    BY <1>16, <2>1 DEF Dies, disk, DiskOK
<1>17. ASSUME NEW c \in Curls, NEW sound \in BOOLEAN, Receive(c, sound) PROVE TypeOK'
  <2>1. curl[c] # None /\ curl[c] \in CurlRecords
    BY <1>17 DEF Receive, Running
  <2> DEFINE r == [curl[c] EXCEPT !.next = @ + 1, !.lines = IF @ < PipeRoom THEN @ + 1 ELSE @,
                                  !.at = IF @ = "unopened" THEN "partial" ELSE @]
             f == curl[c].file
             b == IF sound THEN curl[c].next ELSE 0
  <2>2. curl' = [curl EXCEPT ![c] = r]
    BY <1>17 DEF Receive
  <2>3. r \in CurlRecords
    <3> DEFINE n == curl[c].next + 1
               l == IF curl[c].lines < PipeRoom THEN curl[c].lines + 1 ELSE curl[c].lines
               a == IF curl[c].at = "unopened" THEN "partial" ELSE curl[c].at
    <3>1. n \in Nat \ {0} /\ l \in Nat /\ a \in {"unopened", "partial", "target", "gone"}
      BY <2>1 DEF CurlRecords
    <3>2. r = [curl[c] EXCEPT !.next = n, !.lines = l, !.at = a]
      OBVIOUS
    <3> HIDE DEF n, l, a, r
    <3> QED
      BY <2>1, <3>1, <3>2 DEF CurlRecords
  <2>4. b \in Nat /\ f \in Files
    BY <2>1 DEF CurlRecords
  <2>5. <<b>> \in Seq(Nat)
    BY <2>4
  <2>6. /\ curl[c].at = "partial" => Put(partial[f], c, b) \in Seq(Nat)
        /\ curl[c].at = "target"  => Put(target[f], c, b) \in Seq(Nat)
    BY <2>1, <2>4, PutTypes DEF OpenFilesExist, Contents, DiskOK
  <2>7. target' \in [Files -> Contents] /\ partial' \in [Files -> Contents]
    <3>1. \/ partial' = [partial EXCEPT ![f] = <<b>>] /\ target' = target
          \/ partial' = [partial EXCEPT ![f] = Put(partial[f], c, b)] /\ target' = target
             /\ curl[c].at = "partial"
          \/ target' = [target EXCEPT ![f] = Put(target[f], c, b)] /\ partial' = partial
             /\ curl[c].at = "target"
          \/ UNCHANGED <<target, partial>>
      BY <1>17, <2>4 DEF Receive, Writes
    <3> HIDE DEF f, b
    <3>2. \A s \in Seq(Nat) : /\ [partial EXCEPT ![f] = s] \in [Files -> Contents]
                              /\ [target EXCEPT ![f] = s] \in [Files -> Contents]
      BY <2>4 DEF Contents, DiskOK
    <3>3. target \in [Files -> Contents] /\ partial \in [Files -> Contents]
      BY DEF DiskOK
    <3> QED
      BY ONLY <2>5, <2>6, <3>1, <3>2, <3>3
  <2>8. curl' \in [Curls -> CurlRecords \cup {None}]
    BY <2>2, <2>3
  <2> HIDE DEF r, f
  <2> QED
    BY <1>17, <2>7, <2>8 DEF Receive, work, manager, DiskOK, WorkOK
<1>18. ASSUME NEW c \in Curls, NEW how \in {"ok", "failed"}, CurlEnds(c, how) PROVE TypeOK'
  <2>1. curl[c] # None /\ curl[c] \in CurlRecords
    BY <1>18 DEF CurlEnds, Running
  <2>2. Exited(curl[c].file, how) \in CurlRecords
    BY <2>1 DEF CurlRecords, Exited
  <2>3. curl' \in [Curls -> CurlRecords \cup {None}]
    BY <1>18, <2>2 DEF CurlEnds
  <2> QED
    BY <1>18, <2>3 DEF CurlEnds, disk, work, manager, DiskOK, WorkOK
<1>19. ASSUME UNCHANGED vars PROVE TypeOK'
  BY <1>19 DEF vars, disk, work, manager, DiskOK, WorkOK
<1>20. ASSUME NEW p \in Procs, Installs(p) PROVE TypeOK'
  BY ONLY <1>20, <1>4, <1>5, <1>6, <1>7, <1>8, <1>9, <1>10, <1>11, <1>12, <1>15 DEF Installs
<1>21. ASSUME NEW c \in Curls, Transfers(c) PROVE TypeOK'
  BY ONLY <1>21, <1>17, <1>18 DEF Transfers
<1> QED
  BY ONLY [Next]_vars, <1>1, <1>2, <1>3, <1>16, <1>19, <1>20, <1>21 DEF Next

-----------------------------------------------------------------------------
(* Curls and their files.                                                  *)

\* Curls may end and have their output taken away, nothing else.
CurlsOnlyLeave ==
    \A c \in Curls : curl'[c] # None =>
        /\ curl[c] # None
        /\ curl'[c].file = curl[c].file /\ curl'[c].at \in {curl[c].at, "gone"}

LEMMA LeavingKeepsOpen ==
    ASSUME OpenFilesExist, CurlsOnlyLeave, UNCHANGED <<target, partial>>
    PROVE  OpenFilesExist'
  BY DEF OpenFilesExist, CurlsOnlyLeave

\* A file that a curl has open keeps its name until the curl is told otherwise.
LEMMA OpenStep ==
    ASSUME TypeOK, OpenFilesExist, [Next]_vars
    PROVE  OpenFilesExist'
<1> USE DEF TypeOK
<1>1. ASSUME StartDownload PROVE OpenFilesExist'
  BY <1>1 DEF StartDownload, OpenFilesExist, Begin, disk
<1>2. ASSUME CancelDownload PROVE OpenFilesExist'
  BY <1>2 DEF CancelDownload, OpenFilesExist, disk
<1>3. ASSUME NEW p \in Procs, Pull(p) PROVE OpenFilesExist'
  BY <1>3 DEF Pull, OpenFilesExist, Begin, disk
<1>4. ASSUME NEW p \in Procs, NoRoom(p) PROVE OpenFilesExist'
  BY <1>4 DEF NoRoom, OpenFilesExist, Stay, disk
<1>5. ASSUME NEW p \in Procs, Check(p) PROVE OpenFilesExist'
  BY <1>5 DEF Check, OpenFilesExist, Stay, disk
<1>6. ASSUME NEW p \in Procs, Verify(p) PROVE OpenFilesExist'
  <2> DEFINE f == file[p]
             new == Follow(f, Unlinked("target"))
  <2>1. f \in Files
    BY DEF WorkOK
  <2>2. \A c \in Curls : new[c] # None =>
           /\ curl[c] # None /\ new[c].file = curl[c].file
           /\ new[c].at = IF curl[c].file = f /\ curl[c].at = "target" THEN "gone" ELSE curl[c].at
    BY <2>1, FollowKeeps DEF Unlinked
  <2> HIDE DEF new
  <2>3. CASE UNCHANGED <<target, partial, curl>>
    BY <2>3 DEF OpenFilesExist
  <2>4. CASE target' = [target EXCEPT ![f] = None] /\ partial' = partial /\ curl' = new
    BY <2>1, <2>2, <2>4 DEF OpenFilesExist, DiskOK
  <2> QED
    BY <1>6, <2>3, <2>4 DEF Verify, Stay, disk, new
<1>7. ASSUME NEW p \in Procs, Fetch(p) PROVE OpenFilesExist'
  <2> DEFINE f     == file[p]
             long  == partial[f] # None /\ Len(partial[f]) > Size[f]
             fresh == long \/ partial[f] \in {None, <<>>}
             d     == CHOOSE d \in Spare : \A e \in Spare : d <= e
             old   == IF long THEN Follow(f, Unlinked("partial")) ELSE curl
             n     == IF fresh THEN 1 ELSE Len(partial[f]) + 1
             at    == IF fresh THEN "unopened" ELSE "partial"
             new   == [file |-> f, fresh |-> fresh, ended |-> None, lines |-> 0, at |-> at, next |-> n]
  <2>1. /\ curl' = [old EXCEPT ![d] = new] /\ target' = target
        /\ partial' = IF long THEN [partial EXCEPT ![f] = None] ELSE partial
    BY <1>7 DEF Fetch
  <2>2. f \in Files
    BY DEF WorkOK
  <2>3. /\ old \in [Curls -> CurlRecords \cup {None}]
        /\ \A c \in Curls : old[c] # None =>
             /\ curl[c] # None /\ old[c].file = curl[c].file
             /\ old[c].at = IF long /\ curl[c].file = f /\ curl[c].at = "partial"
                              THEN "gone" ELSE curl[c].at
    BY <2>2, FollowKeeps DEF Unlinked
  <2>4. new.file = f /\ new.at = at /\ (at = "partial" => ~long /\ partial[f] # None)
    BY DEF new
  <2>5. partial'[f] = IF long THEN None ELSE partial[f]
    BY <2>1, <2>2 DEF DiskOK
  <2>6. \A g \in Files : g # f => partial'[g] = partial[g]
    BY <2>1, <2>2 DEF DiskOK
  <2> HIDE DEF f, long, fresh, d, old, n, at, new
  <2>7. ASSUME NEW c \in Curls, curl'[c] # None
        PROVE  /\ curl'[c].at = "partial" => partial'[curl'[c].file] # None
               /\ curl'[c].at = "target"  => target'[curl'[c].file] # None
    <3>1. CASE c = d
      <4>1. curl'[c] = new
        BY <2>1, <2>3, <3>1
      <4>2. at \in {"unopened", "partial"}
        BY DEF at
      <4> QED
        BY <2>4, <2>5, <4>1, <4>2
    <3>2. CASE c # d
      <4>1. curl'[c] = old[c]
        BY <2>1, <2>3, <3>2
      <4>2. curl[c].file \in Files
        BY <2>3, <2>7, <4>1 DEF CurlRecords
      <4> QED
        BY <2>1, <2>3, <2>5, <2>6, <2>7, <4>1, <4>2 DEF OpenFilesExist
    <3> QED
      BY <3>1, <3>2
  <2> QED
    BY <2>7 DEF OpenFilesExist
<1>8. ASSUME NEW p \in Procs, CancelCurl(p) PROVE OpenFilesExist'
  BY <1>8, LeavingKeepsOpen DEF CancelCurl, CurlsOnlyLeave, disk
<1>9. ASSUME NEW p \in Procs, CurlEnded(p) PROVE OpenFilesExist'
  BY <1>9, LeavingKeepsOpen DEF CurlEnded, CurlsOnlyLeave, disk
<1>10. ASSUME NEW p \in Procs, Hash(p) PROVE OpenFilesExist'
  BY <1>10 DEF Hash, OpenFilesExist, Stay, disk
<1>11. ASSUME NEW p \in Procs, Replace(p) PROVE OpenFilesExist'
  <2> DEFINE f == file[p]
             new == Follow(f, Renamed)
  <2>1. f \in Files
    BY DEF WorkOK
  <2>2. \A c \in Curls : new[c] # None =>
           /\ curl[c] # None /\ new[c].file = curl[c].file
           /\ new[c].at = IF curl[c].file # f THEN curl[c].at
                          ELSE IF curl[c].at = "partial" THEN "target"
                          ELSE IF curl[c].at = "target" THEN "gone" ELSE curl[c].at
    BY <2>1, FollowKeeps DEF Renamed
  <2> HIDE DEF new
  <2>3. CASE UNCHANGED <<target, partial, curl>>
    BY <2>3 DEF OpenFilesExist
  <2>4. CASE /\ target' = [target EXCEPT ![f] = partial[f]] /\ partial[f] # None
             /\ partial' = [partial EXCEPT ![f] = None] /\ curl' = new
    BY <2>1, <2>2, <2>4 DEF OpenFilesExist, DiskOK
  <2> QED
    BY <1>11, <2>3, <2>4 DEF Replace, Stay, disk, new
<1>12. ASSUME NEW p \in Procs, Unpack(p) PROVE OpenFilesExist'
  BY <1>12 DEF Unpack, OpenFilesExist, Stay, disk
<1>15. ASSUME NEW p \in Procs, Complete(p) PROVE OpenFilesExist'
  BY <1>15 DEF Complete, OpenFilesExist, Stay, disk
<1>16. ASSUME NEW p \in Procs, Dies(p) PROVE OpenFilesExist'
  BY <1>16, LeavingKeepsOpen DEF Dies, CurlsOnlyLeave, disk
<1>17. ASSUME NEW c \in Curls, NEW sound \in BOOLEAN, Receive(c, sound) PROVE OpenFilesExist'
  <2> DEFINE r == [curl[c] EXCEPT !.next = @ + 1, !.lines = IF @ < PipeRoom THEN @ + 1 ELSE @,
                                  !.at = IF @ = "unopened" THEN "partial" ELSE @]
             f == curl[c].file
             a == IF curl[c].at = "unopened" THEN "partial" ELSE curl[c].at
             b == IF sound THEN curl[c].next ELSE 0
  <2>1. curl[c] # None /\ curl[c] \in CurlRecords /\ f \in Files /\ b \in Nat
    BY <1>17 DEF Receive, Running, CurlRecords
  <2>2. curl' = [curl EXCEPT ![c] = r] /\ r.file = f /\ r.at = a
    BY <1>17, <2>1 DEF Receive, CurlRecords
  <2>3. /\ curl[c].at = "partial" => Put(partial[f], c, b) # None
        /\ curl[c].at = "target"  => Put(target[f], c, b) # None
        /\ <<b>> # None
    <3>1. /\ curl[c].at = "partial" => Put(partial[f], c, b) \in Seq(Nat)
          /\ curl[c].at = "target"  => Put(target[f], c, b) \in Seq(Nat)
      BY <2>1, PutTypes DEF OpenFilesExist, Contents, DiskOK
    <3>2. <<b>> \in Seq(Nat)
      BY <2>1
    <3> QED
      BY <3>1, <3>2, NoneAssumption
  <2>4. \/ /\ partial' = [partial EXCEPT ![f] = <<b>>] /\ target' = target
           /\ curl[c].at = "unopened"
        \/ /\ partial' = [partial EXCEPT ![f] = Put(partial[f], c, b)] /\ target' = target
           /\ curl[c].at = "partial"
        \/ /\ target' = [target EXCEPT ![f] = Put(target[f], c, b)] /\ partial' = partial
           /\ curl[c].at = "target"
        \/ UNCHANGED <<target, partial>> /\ curl[c].at = "gone"
    BY <1>17, <2>1 DEF Receive, Writes, CurlRecords
  <2>5. /\ \A g \in Files : partial[g] # None => partial'[g] # None
        /\ \A g \in Files : target[g] # None => target'[g] # None
        /\ curl[c].at = "unopened" => partial'[f] # None
    <3> HIDE DEF r, f, a, b
    <3> QED
      BY <2>1, <2>3, <2>4 DEF DiskOK
  <2>6. ASSUME NEW d \in Curls, curl'[d] # None
        PROVE  /\ curl'[d].at = "partial" => partial'[curl'[d].file] # None
               /\ curl'[d].at = "target"  => target'[curl'[d].file] # None
    <3>1. CASE d = c
      <4>1. curl'[d].file = f /\ curl'[d].at = a
        BY <2>2, <3>1
      <4> QED
        BY <2>1, <2>5, <4>1 DEF OpenFilesExist
    <3>2. CASE d # c
      <4>1. curl'[d] = curl[d]
        BY <2>2, <3>2
      <4>2. curl[d].file \in Files
        BY <2>6, <4>1 DEF CurlRecords
      <4> QED
        BY <2>5, <2>6, <4>1, <4>2 DEF OpenFilesExist
    <3> QED
      BY <3>1, <3>2
  <2> QED
    BY <2>6 DEF OpenFilesExist
<1>18. ASSUME NEW c \in Curls, NEW how \in {"ok", "failed"}, CurlEnds(c, how) PROVE OpenFilesExist'
  <2>1. curl[c] # None /\ curl[c] \in CurlRecords
    BY <1>18 DEF CurlEnds, Running
  <2>2. Exited(curl[c].file, how).file = curl[c].file /\ Exited(curl[c].file, how).at = "gone"
    BY DEF Exited
  <2>3. CurlsOnlyLeave
    BY <1>18, <2>1, <2>2 DEF CurlEnds, CurlsOnlyLeave
  <2> QED
    BY <1>18, <2>3, LeavingKeepsOpen DEF CurlEnds, disk
<1>19. ASSUME UNCHANGED vars PROVE OpenFilesExist'
  BY <1>19 DEF vars, OpenFilesExist, disk
<1>20. ASSUME NEW p \in Procs, Installs(p) PROVE OpenFilesExist'
  BY ONLY <1>20, <1>4, <1>5, <1>6, <1>7, <1>8, <1>9, <1>10, <1>11, <1>12, <1>15 DEF Installs
<1>21. ASSUME NEW c \in Curls, Transfers(c) PROVE OpenFilesExist'
  BY ONLY <1>21, <1>17, <1>18 DEF Transfers
<1> QED
  BY ONLY [Next]_vars, <1>1, <1>2, <1>3, <1>16, <1>19, <1>20, <1>21 DEF Next

\* Every variable keeps its type, and a process only writes to a file that exists.
THEOREM TypeCorrect == Spec => [](TypeOK /\ OpenFilesExist)
<1>1. Init => TypeOK /\ OpenFilesExist
  <2> SUFFICES ASSUME Init PROVE TypeOK /\ OpenFilesExist
    OBVIOUS
  <2>1. DiskOK
    BY RightIsContents DEF Init, DiskOK, Contents
  <2>2. WorkOK
    BY FileNumbers DEF Init, WorkOK, Places
  <2> QED
    BY <2>1, <2>2 DEF Init, TypeOK, OpenFilesExist
<1>2. TypeOK /\ OpenFilesExist /\ [Next]_vars => (TypeOK /\ OpenFilesExist)'
  BY TypeStep, OpenStep
<1> QED
  BY <1>1, <1>2, PTL DEF Spec

-----------------------------------------------------------------------------
(* One process and one curl at a file.                                     *)

\* The curls that run go on with their files; none is started.
NoNewCurl == \A c \in Running' : c \in Running /\ curl'[c].file = curl[c].file

\* The processes that have a curl stay where they are, or are done with it.
OwnersStay ==
    /\ met' = met
    /\ \A p \in Procs : Fetching(p)' => /\ pc'[p] = pc[p] /\ file'[p] = file[p]
                                        /\ child'[p] = child[p]
    /\ NoNewCurl
    /\ \A c \in Running' : curl'[c].at = "target" => curl[c].at = "target"
    /\ \A p \in Procs : pc'[p] = "replace" => partial'[file[p]] = partial[file[p]]

LEMMA OwnersStayOwn ==
    ASSUME TypeOK, FilesOwnedOnce, OwnersStay
    PROVE  FilesOwnedOnce'
<1> SUFFICES ASSUME ~met' PROVE FilesOwnedOnce'
  BY DEF FilesOwnedOnce
<1>1. ~met
  BY DEF OwnersStay
<1>2. \A p, q \in Procs : Fetching(p)' /\ Fetching(q)' /\ file'[p] = file'[q] => p = q
  BY <1>1 DEF FilesOwnedOnce, OwnersStay, Fetching
<1>3. \A p \in Procs, c \in Running' :
          Fetching(p)' /\ curl'[c].file = file'[p] => pc'[p] = "wait" /\ c = child'[p]
  BY <1>1 DEF FilesOwnedOnce, OwnersStay, NoNewCurl, Fetching
<1>4. \A p \in Procs : pc'[p] = "replace" => partial'[file'[p]] = Right[file'[p]]
  BY <1>1 DEF FilesOwnedOnce, OwnersStay, Fetching
<1>5. \A c \in Running' : curl'[c].at # "target"
  BY <1>1 DEF FilesOwnedOnce, OwnersStay, NoNewCurl
<1> QED
  BY <1>2, <1>3, <1>4, <1>5 DEF FilesOwnedOnce

\* What running curls become when a file they have open is renamed or unlinked.
LEMMA FollowRunning ==
    ASSUME TypeOK, NEW f \in Files, NEW place \in {Unlinked("partial"), Unlinked("target"), Renamed},
           curl' = Follow(f, place)
    PROVE  /\ NoNewCurl
           /\ \A c \in Running' : curl'[c].at = IF curl[c].file = f /\ curl[c].at \in DOMAIN place
                                                  THEN place[curl[c].at] ELSE curl[c].at
  BY FollowKeeps DEF NoNewCurl, Running

\* Every step keeps the files owned once, or lets two downloads meet.
LEMMA OwnedStep ==
    ASSUME TypeOK, FilesOwnedOnce, [Next]_vars
    PROVE  FilesOwnedOnce'
<1> USE DEF TypeOK
<1>1. ASSUME StartDownload PROVE FilesOwnedOnce'
  BY <1>1, OwnersStayOwn DEF StartDownload, OwnersStay, NoNewCurl, Running, Fetching, WorkOK,
     Begin, Goto, GotoFile, disk
<1>2. ASSUME CancelDownload PROVE FilesOwnedOnce'
  BY <1>2, OwnersStayOwn DEF CancelDownload, OwnersStay, NoNewCurl, Running, Fetching, WorkOK,
     disk, work
<1>3. ASSUME NEW p \in Procs, Pull(p) PROVE FilesOwnedOnce'
  BY <1>3, OwnersStayOwn DEF Pull, OwnersStay, NoNewCurl, Running, Fetching, WorkOK, Begin, Goto,
     GotoFile, disk
<1>4. ASSUME NEW p \in Procs, NoRoom(p) PROVE FilesOwnedOnce'
  BY <1>4, OwnersStayOwn DEF NoRoom, OwnersStay, NoNewCurl, Running, Fetching, WorkOK, Fails,
     Ends, GotoFile, Stay, disk
<1>5. ASSUME NEW p \in Procs, Check(p) PROVE FilesOwnedOnce'
  BY <1>5, OwnersStayOwn DEF Check, OwnersStay, NoNewCurl, Running, Fetching, WorkOK, Goto,
     GotoFile, Stay, On, disk
<1>6. ASSUME NEW p \in Procs, Verify(p) PROVE FilesOwnedOnce'
  <2>1. file[p] \in Files
    BY DEF WorkOK
  <2>2. /\ met' = met /\ partial' = partial
        /\ \A q \in Procs : Fetching(q)' => /\ pc'[q] = pc[q] /\ file'[q] = file[q]
                                            /\ child'[q] = child[q]
    BY <1>6 DEF Verify, Fails, Ends, NextFile, Goto, GotoFile, Stay, On, disk, Fetching, WorkOK
  <2>3. NoNewCurl /\ \A c \in Running' : curl'[c].at = "target" => curl[c].at = "target"
    <3>1. CASE curl' = curl
      BY <3>1 DEF NoNewCurl, Running
    <3>2. CASE curl' = Follow(file[p], Unlinked("target"))
      BY <2>1, <3>2, FollowRunning DEF Unlinked
    <3> QED
      BY <1>6, <3>1, <3>2 DEF Verify, Stay
  <2> QED
    BY <2>2, <2>3, OwnersStayOwn DEF OwnersStay
<1>7. ASSUME NEW p \in Procs, Fetch(p) PROVE FilesOwnedOnce'
  <2> DEFINE f     == file[p]
             long  == partial[f] # None /\ Len(partial[f]) > Size[f]
             fresh == long \/ partial[f] \in {None, <<>>}
             d     == CHOOSE d \in Spare : \A e \in Spare : d <= e
             old   == IF long THEN Follow(f, Unlinked("partial")) ELSE curl
             n     == IF fresh THEN 1 ELSE Len(partial[f]) + 1
             at    == IF fresh THEN "unopened" ELSE "partial"
             new   == [file |-> f, fresh |-> fresh, ended |-> None, lines |-> 0, at |-> at, next |-> n]
  <2> SUFFICES ASSUME ~met' PROVE FilesOwnedOnce'
    BY DEF FilesOwnedOnce
  <2>1. /\ curl' = [old EXCEPT ![d] = new] /\ child' = [child EXCEPT ![p] = d]
        /\ partial' = IF long THEN [partial EXCEPT ![f] = None] ELSE partial
    BY <1>7 DEF Fetch
  <2>2. ~met /\ ~Shared(p, f) /\ pc[p] = "fetch"
    BY <1>7 DEF Fetch
  <2>3. /\ pc' = [pc EXCEPT ![p] = "wait"] /\ file' = file /\ f \in Files /\ d \in Curls
    BY <1>7, SpareCurl DEF Fetch, Goto, GotoFile, WorkOK, Spare
  <2>4. /\ old \in [Curls -> CurlRecords \cup {None}]
        /\ \A c \in Curls : old[c] # None =>
             /\ curl[c] # None /\ old[c].file = curl[c].file /\ old[c].ended = curl[c].ended
             /\ old[c].at = "target" => curl[c].at = "target"
    BY <2>3, FollowKeeps DEF Unlinked
  <2>5. new.file = f /\ new.at \in {"unopened", "partial"}
    BY DEF new
  <2>6. \A g \in Files : g # f => partial'[g] = partial[g]
    BY <2>1, <2>3 DEF DiskOK
  <2> HIDE DEF f, long, fresh, d, old, n, at, new
  <2>7. \A c \in Running' : c # d => /\ c \in Running /\ curl'[c].file = curl[c].file
                                     /\ curl'[c].at = "target" => curl[c].at = "target"
    BY <2>1, <2>4 DEF Running
  <2>8. curl'[d] = new
    BY <2>1, <2>3, <2>4
  <2>9. \A c \in Running : curl[c].file # f
    BY <2>2 DEF Shared
  <2>10. \A q \in Procs : q # p /\ Fetching(q) => file[q] # f
    BY <2>2 DEF Shared, Fetching
  <2>11. \A q \in Procs : q # p => /\ pc'[q] = pc[q] /\ child'[q] = child[q]
    BY <2>1, <2>3 DEF WorkOK
  <2>12. pc'[p] = "wait" /\ child'[p] = d /\ file'[p] = f
    BY <2>1, <2>3 DEF WorkOK, f
  <2>13. \A q, r \in Procs : Fetching(q)' /\ Fetching(r)' /\ file'[q] = file'[r] => q = r
    BY <2>2, <2>3, <2>10, <2>11, <2>12 DEF FilesOwnedOnce, Fetching
  <2>14. ASSUME NEW q \in Procs, NEW c \in Running', Fetching(q)', curl'[c].file = file'[q]
         PROVE  pc'[q] = "wait" /\ c = child'[q]
    <3>1. CASE q = p
      BY <2>7, <2>9, <2>12, <2>14, <3>1
    <3>2. CASE q # p
      <4>1. Fetching(q) /\ file'[q] # f
        BY <2>3, <2>10, <2>11, <2>14, <3>2 DEF Fetching
      <4>2. c # d
        BY <2>5, <2>8, <2>14, <4>1
      <4> QED
        BY <2>2, <2>3, <2>7, <2>11, <2>14, <3>2, <4>1, <4>2 DEF FilesOwnedOnce
    <3> QED
      BY <3>1, <3>2
  <2>15. \A q \in Procs : pc'[q] = "replace" => partial'[file'[q]] = Right[file'[q]]
    <3>1. ASSUME NEW q \in Procs, pc'[q] = "replace" PROVE partial'[file'[q]] = Right[file'[q]]
      <4>1. q # p /\ pc[q] = "replace" /\ file'[q] = file[q] /\ file[q] \in Files
        BY <2>3, <2>11, <2>12, <3>1 DEF WorkOK
      <4>2. file[q] # f
        BY <2>10, <4>1 DEF Fetching
      <4> QED
        BY <2>2, <2>6, <4>1, <4>2 DEF FilesOwnedOnce
    <3> QED
      BY <3>1
  <2>16. \A c \in Running' : curl'[c].at # "target"
    BY <2>2, <2>5, <2>7, <2>8 DEF FilesOwnedOnce
  <2> QED
    BY <2>13, <2>14, <2>15, <2>16 DEF FilesOwnedOnce
<1>8. ASSUME NEW p \in Procs, CancelCurl(p) PROVE FilesOwnedOnce'
  BY <1>8, OwnersStayOwn DEF CancelCurl, OwnersStay, NoNewCurl, Running, Fetching, WorkOK, Fails,
     Ends, GotoFile, disk
<1>9. ASSUME NEW p \in Procs, CurlEnded(p) PROVE FilesOwnedOnce'
  <2> SUFFICES ASSUME ~met' PROVE FilesOwnedOnce'
    BY DEF FilesOwnedOnce
  <2>1. /\ ~met /\ partial' = partial /\ pc[p] = "wait" /\ child[p] \notin Running
        /\ curl' = [curl EXCEPT ![child[p]] = None]
    BY <1>9 DEF CurlEnded, Fails, Ends, disk
  <2>2. \A c \in Running' : c \in Running /\ curl'[c] = curl[c]
    BY <2>1 DEF Running
  <2>3. \A q \in Procs : Fetching(q)' =>
           /\ Fetching(q) /\ file'[q] = file[q]
           /\ q # p => pc'[q] = pc[q] /\ child'[q] = child[q]
           /\ q = p => pc'[q] = "hash"
    BY <1>9 DEF CurlEnded, Fails, Ends, Goto, GotoFile, Fetching, WorkOK
  <2>4. \A q \in Procs : pc'[q] = "replace" => q # p /\ pc[q] = "replace" /\ file'[q] = file[q]
    BY <2>3 DEF Fetching
  <2>5. \A c \in Running : curl[c].file # file[p]
    BY <2>1 DEF FilesOwnedOnce, Fetching
  <2> QED
    BY <2>1, <2>2, <2>3, <2>4, <2>5 DEF FilesOwnedOnce
<1>10. ASSUME NEW p \in Procs, Hash(p) PROVE FilesOwnedOnce'
  <2> SUFFICES ASSUME ~met' PROVE FilesOwnedOnce'
    BY DEF FilesOwnedOnce
  <2>1. ~met /\ UNCHANGED <<partial, curl>> /\ pc[p] = "hash"
    BY <1>10 DEF Hash, Fails, Ends, On, Stay, disk
  <2>2. \A q \in Procs : Fetching(q)' =>
           /\ Fetching(q) /\ file'[q] = file[q] /\ child'[q] = child[q]
           /\ q # p => pc'[q] = pc[q]
           /\ q = p => pc'[q] = "replace" /\ partial[file[p]] = Right[file[p]]
    BY <1>10 DEF Hash, Fails, Ends, Goto, GotoFile, On, Fetching, WorkOK, DigestRight
  <2>3. \A q \in Procs : pc'[q] = "replace" => partial[file[q]] = Right[file[q]] /\ file'[q] = file[q]
    BY <2>1, <2>2 DEF FilesOwnedOnce, Fetching
  <2>4. Running' = Running
    BY <2>1 DEF Running
  <2> QED
    BY <2>1, <2>2, <2>3, <2>4 DEF FilesOwnedOnce, Fetching
<1>11. ASSUME NEW p \in Procs, Replace(p) PROVE FilesOwnedOnce'
  <2> DEFINE f == file[p]
  <2> SUFFICES ASSUME ~met' PROVE FilesOwnedOnce'
    BY DEF FilesOwnedOnce
  <2>1. f \in Files /\ pc[p] = "replace" /\ ~met /\ met' = met
    BY <1>11 DEF Replace, Fails, Ends, On, WorkOK
  <2>2. \A q \in Procs : Fetching(q)' => /\ q # p /\ pc'[q] = pc[q] /\ file'[q] = file[q]
                                         /\ child'[q] = child[q]
    BY <1>11 DEF Replace, Fails, Ends, NextFile, Goto, GotoFile, On, Fetching, WorkOK
  <2>3. NoNewCurl /\ \A c \in Running' : curl'[c].at = "target" => curl[c].at = "target"
    <3>1. CASE curl' = curl
      BY <3>1 DEF NoNewCurl, Running
    <3>2. CASE curl' = Follow(f, Renamed)
      <4>1. \A c \in Running : curl[c].file # f
        BY <2>1 DEF FilesOwnedOnce, Fetching
      <4> QED
        BY <2>1, <3>2, <4>1, FollowRunning DEF NoNewCurl
    <3> QED
      BY <1>11, <3>1, <3>2 DEF Replace, Stay
  <2>4. \A q \in Procs : pc'[q] = "replace" => partial'[file[q]] = partial[file[q]]
    <3>1. \A g \in Files : g # f => partial'[g] = partial[g]
      BY <1>11, <2>1 DEF Replace, Stay, disk, DiskOK
    <3>2. \A q \in Procs : pc'[q] = "replace" => file[q] \in Files /\ file[q] # f
      BY <2>1, <2>2 DEF FilesOwnedOnce, Fetching, WorkOK
    <3> QED
      BY <3>1, <3>2
  <2> QED
    BY <2>1, <2>2, <2>3, <2>4, OwnersStayOwn DEF OwnersStay
<1>12. ASSUME NEW p \in Procs, Unpack(p) PROVE FilesOwnedOnce'
  BY <1>12, OwnersStayOwn DEF Unpack, OwnersStay, NoNewCurl, Running, Fetching, WorkOK, Fails,
     Ends, GotoFile, Stay, On, disk
<1>15. ASSUME NEW p \in Procs, Complete(p) PROVE FilesOwnedOnce'
  BY <1>15, OwnersStayOwn DEF Complete, OwnersStay, NoNewCurl, Running, Fetching, WorkOK, Ends,
     GotoFile, Stay, disk
<1>16. ASSUME NEW p \in Procs, Dies(p) PROVE FilesOwnedOnce'
  BY <1>16, OwnersStayOwn DEF Dies, OwnersStay, NoNewCurl, Running, Fetching, WorkOK, GotoFile,
     disk
<1>17. ASSUME NEW c \in Curls, NEW sound \in BOOLEAN, Receive(c, sound) PROVE FilesOwnedOnce'
  <2> DEFINE r == [curl[c] EXCEPT !.next = @ + 1, !.lines = IF @ < PipeRoom THEN @ + 1 ELSE @,
                                  !.at = IF @ = "unopened" THEN "partial" ELSE @]
  <2> SUFFICES ASSUME ~met' PROVE FilesOwnedOnce'
    BY DEF FilesOwnedOnce
  <2>1. curl[c] # None /\ curl[c] \in CurlRecords /\ c \in Running /\ ~met
    BY <1>17 DEF Receive, Running
  <2>2. /\ curl' = [curl EXCEPT ![c] = r] /\ r.file = curl[c].file /\ r.ended = curl[c].ended
        /\ r.at = "target" => curl[c].at = "target"
    BY <1>17, <2>1 DEF Receive, CurlRecords
  <2> HIDE DEF r
  <2>3. NoNewCurl /\ \A d \in Running' : curl'[d].at = "target" => curl[d].at = "target"
    BY <2>1, <2>2 DEF NoNewCurl, Running
  <2>4. \A g \in Files : g # curl[c].file => partial'[g] = partial[g]
    BY <1>17, <2>1 DEF Receive, Writes, DiskOK, CurlRecords
  <2>5. \A q \in Procs : pc[q] = "replace" => file[q] \in Files /\ file[q] # curl[c].file
    BY <2>1 DEF FilesOwnedOnce, Fetching, WorkOK
  <2> QED
    BY <1>17, <2>3, <2>4, <2>5, OwnersStayOwn DEF Receive, work, OwnersStay, Fetching
<1>18. ASSUME NEW c \in Curls, NEW how \in {"ok", "failed"}, CurlEnds(c, how) PROVE FilesOwnedOnce'
  <2>1. curl[c] # None /\ curl[c] \in CurlRecords
    BY <1>18 DEF CurlEnds, Running
  <2>2. /\ Exited(curl[c].file, how).file = curl[c].file
        /\ Exited(curl[c].file, how).ended # None
    BY NoneAssumption DEF Exited
  <2>3. \A d \in Running' : d \in Running /\ curl'[d] = curl[d]
    BY <1>18, <2>2 DEF CurlEnds, Running
  <2> QED
    BY <1>18, <2>3, OwnersStayOwn DEF CurlEnds, disk, work, OwnersStay, Fetching, NoNewCurl
<1>19. ASSUME UNCHANGED vars PROVE FilesOwnedOnce'
  BY <1>19, OwnersStayOwn DEF vars, OwnersStay, NoNewCurl, Running, Fetching, WorkOK, disk, work
<1>20. ASSUME NEW p \in Procs, Installs(p) PROVE FilesOwnedOnce'
  BY ONLY <1>20, <1>4, <1>5, <1>6, <1>7, <1>8, <1>9, <1>10, <1>11, <1>12, <1>15 DEF Installs
<1>21. ASSUME NEW c \in Curls, Transfers(c) PROVE FilesOwnedOnce'
  BY ONLY <1>21, <1>17, <1>18 DEF Transfers
<1> QED
  BY ONLY [Next]_vars, <1>1, <1>2, <1>3, <1>16, <1>19, <1>20, <1>21 DEF Next

-----------------------------------------------------------------------------
(* What is installed.                                                      *)

\* A file's name is only given to the pinned file, and only taken from another.
TargetsHold ==
    \A f \in Files : target'[f] # target[f] => target[f] # Right[f] /\ target'[f] \in {None, Right[f]}

LEMMA TargetStep ==
    ASSUME TypeOK, FilesOwnedOnce, ~met, [Next]_vars
    PROVE  TargetsHold
<1> USE DEF TypeOK
<1>1. ASSUME NEW p \in Procs, Verify(p) PROVE TargetsHold
  BY <1>1 DEF Verify, TargetWrong, DigestRight, TargetsHold, Stay, disk, DiskOK
<1>2. ASSUME NEW p \in Procs, Replace(p) PROVE TargetsHold
  <2>1. partial[file[p]] = Right[file[p]]
    BY <1>2 DEF Replace, FilesOwnedOnce
  <2> QED
    BY <1>2, <2>1 DEF Replace, TargetsHold, Stay, disk, DiskOK
<1>3. ASSUME NEW c \in Curls, NEW sound \in BOOLEAN, Receive(c, sound) PROVE TargetsHold
  <2>1. curl[c] \in CurlRecords /\ curl[c].at # "target"
    BY <1>3 DEF Receive, Running, FilesOwnedOnce
  <2> QED
    BY <1>3, <2>1 DEF Receive, Writes, TargetsHold, CurlRecords
<1>4. CASE target' = target
  BY <1>4 DEF TargetsHold
<1>5. ASSUME NEW p \in Procs, Installs(p) PROVE TargetsHold
  BY <1>1, <1>2, <1>4, <1>5 DEF Installs, NoRoom, Check, Fetch, CancelCurl, CurlEnded, Hash, Unpack,
     Complete, Stay, disk
<1>6. ASSUME NEW c \in Curls, Transfers(c) PROVE TargetsHold
  BY <1>3, <1>4, <1>6 DEF Transfers, CurlEnds, disk
<1> QED
  BY <1>4, <1>5, <1>6 DEF Next, StartDownload, CancelDownload, Pull, Begin, Dies, vars, disk

\* No process goes on to a further file, and nothing is reported complete.
NoneGoesOn ==
    /\ met => met'
    /\ runtime' = runtime
    /\ \A p \in Procs : /\ file'[p] \in {1, file[p]}
                        /\ pc'[p] = "marker" => pc[p] = "marker" /\ file'[p] = file[p]
    /\ complete' => complete

\* A download that fails is one of these.
LEMMA FailsGoesNowhere ==
    ASSUME TypeOK, NEW p \in Procs, Fails(p), runtime' = runtime
    PROVE  NoneGoesOn
<1>1. complete' => complete
  <2>1. CASE p = Gateway
    BY <2>1 DEF Fails, Ends
  <2>2. CASE p # Gateway
    BY <2>2 DEF Fails, Ends, manager
  <2> QED
    BY <2>1, <2>2
<1>2. ASSUME NEW q \in Procs
      PROVE  file'[q] \in {1, file[q]} /\ (pc'[q] = "marker" => pc[q] = "marker" /\ file'[q] = file[q])
  BY DEF Fails, Ends, GotoFile, TypeOK, WorkOK
<1> QED
  BY <1>1, <1>2 DEF NoneGoesOn, Fails, Ends

LEMMA NoneGoesOnInstalled ==
    ASSUME TypeOK, InstalledSoFar, TargetsHold, NoneGoesOn
    PROVE  InstalledSoFar'
<1> SUFFICES ASSUME ~met' PROVE InstalledSoFar'
  BY DEF InstalledSoFar
<1>1. ~met /\ \A p \in Procs : file[p] \in Files
  BY DEF NoneGoesOn, TypeOK, WorkOK
<1>2. \A g \in Files : target[g] = Right[g] => target'[g] = Right[g]
  BY DEF TargetsHold
<1>3. target'[1] \in {None, Right[1]} /\ runtime' \in {None, Right[1]}
  BY <1>1, FileNumbers DEF TargetsHold, NoneGoesOn, InstalledSoFar
<1>4. ASSUME NEW p \in Procs
      PROVE  /\ file'[p] # 1 => runtime' = Right[1]
             /\ \A g \in Files : 1 < g /\ g < file'[p] => target'[g] = Right[g]
             /\ pc'[p] = "marker" => file'[p] = LastFile /\ target'[LastFile] = Right[LastFile]
  <2>1. \A g \in Files : 1 < g /\ g < file'[p] => 1 < g /\ g < file[p]
    BY <1>1, FileNumbers DEF NoneGoesOn
  <2> QED
    BY <1>1, <1>2, <2>1, FileNumbers DEF NoneGoesOn, InstalledSoFar
<1>5. CompleteUntilMet'
  BY <1>1, <1>2 DEF NoneGoesOn, InstalledSoFar, CompleteUntilMet
<1> QED
  BY <1>3, <1>4, <1>5 DEF InstalledSoFar

\* A process whose file is installed goes on to the next.
LEMMA NextFileInstalled ==
    ASSUME TypeOK, InstalledSoFar, TargetsHold, ~met, runtime' = runtime, On,
           NEW p \in Procs, target'[file[p]] = Right[file[p]], NextFile(p)
    PROVE  InstalledSoFar'
<1>1. /\ file[p] \in Files /\ \A q \in Procs : file[q] \in Files
      /\ met' = met /\ complete' = complete
  BY DEF TypeOK, WorkOK, On, manager
<1>2. \A g \in Files : target[g] = Right[g] => target'[g] = Right[g]
  BY DEF TargetsHold
<1>3. target'[1] \in {None, Right[1]} /\ runtime' \in {None, Right[1]}
  BY FileNumbers DEF TargetsHold, InstalledSoFar
<1>4. \A q \in Procs : q # p => pc'[q] = pc[q] /\ file'[q] = file[q]
  BY DEF NextFile, Goto, GotoFile, TypeOK, WorkOK
<1>5. \/ file[p] = 1 /\ pc'[p] = "unpack" /\ file'[p] = 1
      \/ file[p] = LastFile /\ pc'[p] = "marker" /\ file'[p] = LastFile
      \/ file[p] # 1 /\ pc'[p] = "check" /\ file'[p] = file[p] + 1
  BY FileNumbers DEF NextFile, Goto, GotoFile, TypeOK, WorkOK
<1>6. ASSUME NEW q \in Procs
      PROVE  /\ file'[q] # 1 => runtime' = Right[1]
             /\ \A g \in Files : 1 < g /\ g < file'[q] => target'[g] = Right[g]
             /\ pc'[q] = "marker" => file'[q] = LastFile /\ target'[LastFile] = Right[LastFile]
  <2>1. CASE q # p
    BY <1>1, <1>2, <1>4, <2>1, FileNumbers DEF InstalledSoFar
  <2>2. CASE q = p
    <3>1. file'[p] # 1 => runtime' = Right[1]
      BY <1>5, FileNumbers DEF InstalledSoFar
    <3>2. ASSUME NEW g \in Files, 1 < g, g < file'[p] PROVE target'[g] = Right[g]
      <4>1. g \in Nat /\ file[p] \in Nat
        BY <1>1, FileNumbers
      <4>2. g < file[p] \/ g = file[p]
        BY <1>5, <3>2, <4>1
      <4> QED
        BY <1>2, <3>2, <4>2 DEF InstalledSoFar
    <3>3. pc'[p] = "marker" => file'[p] = LastFile /\ target'[LastFile] = Right[LastFile]
      BY <1>5
    <3> QED
      BY <2>2, <3>1, <3>2, <3>3
  <2> QED
    BY <2>1, <2>2
<1>7. CompleteUntilMet'
  BY <1>1, <1>2 DEF InstalledSoFar, CompleteUntilMet
<1> QED
  BY <1>3, <1>6, <1>7 DEF InstalledSoFar

\* What a process leaves behind it stays installed.
LEMMA InstalledStep ==
    ASSUME TypeOK, FilesOwnedOnce, InstalledSoFar, TargetsHold, ~met, [Next]_vars
    PROVE  InstalledSoFar'
<1> USE DEF TypeOK
<1>1. ASSUME StartDownload PROVE InstalledSoFar'
  BY <1>1, NoneGoesOnInstalled DEF StartDownload, NoneGoesOn, WorkOK, Begin, Goto, GotoFile, disk
<1>2. ASSUME CancelDownload PROVE InstalledSoFar'
  BY <1>2, NoneGoesOnInstalled DEF CancelDownload, NoneGoesOn, WorkOK, disk, work
<1>3. ASSUME NEW p \in Procs, Pull(p) PROVE InstalledSoFar'
  BY <1>3, NoneGoesOnInstalled DEF Pull, NoneGoesOn, WorkOK, Begin, Goto, GotoFile, disk, manager
<1>4. ASSUME NEW p \in Procs, NoRoom(p) PROVE InstalledSoFar'
  BY <1>4, FailsGoesNowhere, NoneGoesOnInstalled DEF NoRoom, Stay, disk
<1>5. ASSUME NEW p \in Procs, Check(p) PROVE InstalledSoFar'
  <2> DEFINE f == file[p]
  <2>1. CASE f = 1 /\ runtime # None
    <3>1. /\ UNCHANGED <<target, runtime, complete, met>>
          /\ \A q \in Procs : q # p => pc'[q] = pc[q] /\ file'[q] = file[q]
          /\ pc'[p] = "check" /\ file'[p] = 2
      BY <1>5, <2>1 DEF Check, GotoFile, Stay, On, disk, manager, WorkOK
    <3>2. runtime = Right[1]
      BY <2>1 DEF InstalledSoFar
    <3>3. \A g \in Files : ~(1 < g /\ g < 2)
      BY FileNumbers
    <3> QED
      BY <3>1, <3>2, <3>3 DEF InstalledSoFar, CompleteUntilMet
  <2>2. CASE ~(f = 1 /\ runtime # None)
    <3>1. NoneGoesOn
      BY <1>5, <2>2 DEF Check, Goto, GotoFile, Stay, On, disk, manager, NoneGoesOn, WorkOK
    <3> QED
      BY <3>1, NoneGoesOnInstalled
  <2> QED
    BY <2>1, <2>2
<1>6. ASSUME NEW p \in Procs, Verify(p) PROVE InstalledSoFar'
  <2> DEFINE Going == ~TargetWrong(file[p]) /\ NextFile(p) /\ Stay /\ On
  <2>0. (Fails(p) /\ Stay) \/ Going \/ (Goto(p, "fetch") /\ On /\ runtime' = runtime)
    <3> HIDE DEF TypeOK
    <3> QED
      BY ONLY <1>6 DEF Verify
  <2>1. CASE ~Going
    BY <2>0, <2>1, NoneGoesOnInstalled DEF Fails, Ends, Goto, GotoFile, Stay, On, disk, manager, NoneGoesOn, WorkOK
  <2>2. CASE Going
    <3>1. ~TargetWrong(file[p]) /\ NextFile(p) /\ Stay /\ On
      BY <2>2
    <3>2. target[file[p]] = Right[file[p]] /\ target' = target /\ runtime' = runtime
      BY <3>1 DEF TargetWrong, DigestRight, Stay, disk
    <3> QED
      BY <3>1, <3>2, NextFileInstalled
  <2> QED
    BY <2>1, <2>2
<1>7. ASSUME NEW p \in Procs, Fetch(p) PROVE InstalledSoFar'
  BY <1>7, NoneGoesOnInstalled DEF Fetch, NoneGoesOn, WorkOK, Goto, GotoFile, manager
<1>8. ASSUME NEW p \in Procs, CancelCurl(p) PROVE InstalledSoFar'
  BY <1>8, FailsGoesNowhere, NoneGoesOnInstalled DEF CancelCurl, disk
<1>9. ASSUME NEW p \in Procs, CurlEnded(p) PROVE InstalledSoFar'
  BY <1>9, NoneGoesOnInstalled DEF CurlEnded, NoneGoesOn, WorkOK, Fails, Ends, Goto, GotoFile,
     disk, manager
<1>10. ASSUME NEW p \in Procs, Hash(p) PROVE InstalledSoFar'
  BY <1>10, NoneGoesOnInstalled DEF Hash, NoneGoesOn, WorkOK, Fails, Ends, Goto, GotoFile, Stay,
     On, disk, manager
<1>11. ASSUME NEW p \in Procs, Replace(p) PROVE InstalledSoFar'
  <2>1. CASE partial[file[p]] = None
    BY <1>11, <2>1, FailsGoesNowhere, NoneGoesOnInstalled DEF Replace, Stay, disk
  <2>2. CASE partial[file[p]] # None
    <3>1. partial[file[p]] = Right[file[p]]
      BY <1>11 DEF Replace, FilesOwnedOnce
    <3>2. target'[file[p]] = Right[file[p]] /\ runtime' = runtime /\ NextFile(p) /\ On
      BY <1>11, <2>2, <3>1 DEF Replace, DiskOK, WorkOK
    <3> QED
      BY <3>2, NextFileInstalled
  <2> QED
    BY <2>1, <2>2
<1>12. ASSUME NEW p \in Procs, Unpack(p) PROVE InstalledSoFar'
  <2>1. CASE Fails(p) /\ Stay
    BY <2>1, FailsGoesNowhere, NoneGoesOnInstalled DEF Stay, disk
  <2>2. CASE ~(Fails(p) /\ Stay)
    <3>1. /\ UNCHANGED <<target, complete, met>> /\ target[1] # None /\ runtime' = target[1]
          /\ \A q \in Procs : q # p => pc'[q] = pc[q] /\ file'[q] = file[q]
          /\ pc'[p] = "check" /\ file'[p] = 2
      BY <1>12, <2>2 DEF Unpack, GotoFile, On, manager, WorkOK
    <3>2. runtime' = Right[1]
      BY <3>1 DEF InstalledSoFar
    <3>3. \A g \in Files : ~(1 < g /\ g < 2)
      BY FileNumbers
    <3> QED
      BY <3>1, <3>2, <3>3 DEF InstalledSoFar, CompleteUntilMet
  <2> QED
    BY <2>1, <2>2
<1>15. ASSUME NEW p \in Procs, Complete(p) PROVE InstalledSoFar'
  <2>1. pc[p] = "marker"
    BY <1>15 DEF Complete
  <2>2. /\ UNCHANGED <<target, runtime, met>>
        /\ \A q \in Procs : q # p => pc'[q] = pc[q] /\ file'[q] = file[q]
        /\ pc'[p] = "idle" /\ file'[p] = 1
    BY <1>15, <2>1 DEF Complete, Ends, GotoFile, Stay, disk, WorkOK
  <2>3. file[p] = LastFile /\ target[LastFile] = Right[LastFile]
    BY <2>1 DEF InstalledSoFar
  <2>4. runtime = Right[1]
    BY <2>1, <2>3, FileNumbers DEF InstalledSoFar
  <2>5. ASSUME NEW g \in Files \ {1} PROVE target[g] = Right[g]
    <3>1. 1 < g /\ (g < LastFile \/ g = LastFile)
      BY FilesAssumption DEF Files
    <3> QED
      BY <2>1, <2>3, <3>1 DEF InstalledSoFar
  <2>6. \A g \in Files : ~(1 < g /\ g < 1)
    BY FileNumbers
  <2> QED
    BY <2>1, <2>2, <2>4, <2>5, <2>6 DEF InstalledSoFar, CompleteUntilMet
<1>16. ASSUME NEW p \in Procs, Dies(p) PROVE InstalledSoFar'
  BY <1>16, NoneGoesOnInstalled DEF Dies, NoneGoesOn, WorkOK, GotoFile, disk, manager
<1>17. ASSUME NEW c \in Curls, NEW sound \in BOOLEAN, Receive(c, sound) PROVE InstalledSoFar'
  BY <1>17, NoneGoesOnInstalled DEF Receive, NoneGoesOn, WorkOK, work, manager
<1>18. ASSUME NEW c \in Curls, NEW how \in {"ok", "failed"}, CurlEnds(c, how) PROVE InstalledSoFar'
  BY <1>18, NoneGoesOnInstalled DEF CurlEnds, NoneGoesOn, WorkOK, disk, work, manager
<1>19. ASSUME UNCHANGED vars PROVE InstalledSoFar'
  BY <1>19, NoneGoesOnInstalled DEF vars, NoneGoesOn, WorkOK, disk, work, manager
<1>20. ASSUME NEW p \in Procs, Installs(p) PROVE InstalledSoFar'
  BY ONLY <1>20, <1>4, <1>5, <1>6, <1>7, <1>8, <1>9, <1>10, <1>11, <1>12, <1>15 DEF Installs
<1>21. ASSUME NEW c \in Curls, Transfers(c) PROVE InstalledSoFar'
  BY ONLY <1>21, <1>17, <1>18 DEF Transfers
<1> QED
  BY ONLY [Next]_vars, <1>1, <1>2, <1>3, <1>16, <1>19, <1>20, <1>21 DEF Next

\* That two downloads have met is not forgotten.
LEMMA MetStays ==
    ASSUME TypeOK, met, [Next]_vars
    PROVE  met'
  BY DEF TypeOK, WorkOK, Next, StartDownload, CancelDownload, Pull, Begin, Installs, NoRoom, Check, Verify,
     Fetch, CancelCurl, CurlEnded, Hash, Replace, Unpack, Complete, Fails, Ends,
     On, Dies, Transfers, Receive, CurlEnds, vars

\* Until two downloads have met at a file, one process at most and one curl, its own, are at it;
\* none writes to a file that is being hashed or renamed, or that has its name, and what is about
\* to get the name is the pinned file.
THEOREM FilesOwned == Spec => []FilesOwnedOnce
<1>1. Init => FilesOwnedOnce
  BY DEF Init, FilesOwnedOnce, Fetching, Running
<1>2. TypeOK /\ OpenFilesExist /\ FilesOwnedOnce /\ [Next]_vars => FilesOwnedOnce'
  BY OwnedStep
<1> QED
  BY <1>1, <1>2, TypeCorrect, PTL DEF Spec

\* In any behaviour, until two downloads have met at a file: a file's name is only ever given to
\* the pinned file, and what has the name does not change afterwards, whatever a cancel, a crash
\* or a damaged transfer left behind.
THEOREM VerifiedInstalls == Spec => VerifiedUntilMet
<1>1. TypeOK /\ FilesOwnedOnce /\ [Next]_vars =>
          [~met => \A f \in Files : target'[f] # target[f] => target'[f] \in {None, Right[f]}]_vars
  BY TargetStep DEF TargetsHold
<1> QED
  BY <1>1, FilesOwned, TypeCorrect, PTL DEF Spec, VerifiedUntilMet

\* When the state says "complete", every file is the pinned one, until two downloads have met.
THEOREM CompleteInstalls == Spec => []CompleteUntilMet
<1>1. Init => FilesOwnedOnce /\ InstalledSoFar
  <2> SUFFICES ASSUME Init PROVE FilesOwnedOnce /\ InstalledSoFar
    OBVIOUS
  <2>1. FilesOwnedOnce
    BY DEF Init, FilesOwnedOnce, Fetching, Running
  <2>2. CompleteUntilMet
    BY DEF Init, CompleteUntilMet
  <2>3. runtime = None /\ target[1] = None
    BY FileNumbers DEF Init
  <2>4. \A p \in Procs : pc[p] = "idle" /\ file[p] = 1
    BY DEF Init
  <2> QED
    BY <2>1, <2>2, <2>3, <2>4, FileNumbers DEF InstalledSoFar
<1>2. TypeOK /\ OpenFilesExist /\ FilesOwnedOnce /\ InstalledSoFar /\ [Next]_vars
        => (FilesOwnedOnce /\ InstalledSoFar)'
  <2> SUFFICES ASSUME TypeOK, OpenFilesExist, FilesOwnedOnce, InstalledSoFar, [Next]_vars
               PROVE  (FilesOwnedOnce /\ InstalledSoFar)'
    OBVIOUS
  <2>1. FilesOwnedOnce'
    BY OwnedStep
  <2>2. CASE ~met
    BY <2>1, <2>2, TargetStep, InstalledStep
  <2>3. CASE met
    <3>1. met'
      BY <2>3, MetStays
    <3> QED
      BY <2>1, <3>1 DEF InstalledSoFar
  <2> QED
    BY <2>2, <2>3
<1>3. InstalledSoFar => CompleteUntilMet
  BY DEF InstalledSoFar, CompleteUntilMet
<1> QED
  BY <1>1, <1>2, <1>3, TypeCorrect, PTL DEF Spec
=============================================================================
