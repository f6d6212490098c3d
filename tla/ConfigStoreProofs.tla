------------------------- MODULE ConfigStoreProofs -------------------------
(***************************************************************************)
(* Proofs about ConfigStore: what holds for any number of clients, and     *)
(* what holds when requests come one after the other, for every set of     *)
(* keys and values, whatever fails and wherever the process dies.          *)
(***************************************************************************)
EXTENDS ConfigStore, PropertiesFileProofs

Fields == {"at", "req", "before", "updated", "props", "fd", "answer", "old"}

CallShape(l) ==
  /\ l = [f \in Fields |-> l[f]]
  /\ l.req = [f \in {"method", "body"} |-> l.req[f]]

\* The part of the types that needs nothing known of the texts of files.
StoreShape ==
  /\ configs = [k \in Known |-> configs[k]]
  /\ IsList(inodes)
  /\ path \in DOMAIN inodes
  /\ tmp \in {0} \cup DOMAIN inodes
  /\ archived \in Seq(DOMAIN inodes)
  /\ call = [c \in Client |-> call[c]]
  /\ \A c \in Client :
       /\ CallShape(call[c])
       /\ call[c].fd \in {0} \cup DOMAIN inodes
       /\ call[c].at \in {"write", "rename"} => call[c].fd # 0
  /\ crashes \in Nat /\ unremoved \subseteq DOMAIN inodes

\* With one request at a time the temporary file is the writer's alone, and no
\* archive is a link to it.
SerialFiles ==
  /\ tmp # path
  /\ \A k \in DOMAIN archived : archived[k] # tmp
  /\ File.kind = "whole"

FileArchived == \E k \in DOMAIN archived : inodes[archived[k]] = File

\* What a handler knows between two of its steps.
SerialCall(l) ==
  /\ l.at \in {"get", "set", "compare"} => l.req.method = "PATCH"
  /\ l.at \in {"get", "set"} /\ l.updated = {} => configs = l.old
  /\ l.at = "set" =>
       LET k == Head(l.req.body).name IN k \in Known => l.before = configs[k]
  /\ l.at = "compare" =>
       LET k == Head(l.req.body).name
       IN  k \in Known /\ (l.updated = {} /\ configs[k] = l.before => configs = l.old)
  /\ l.at \in {"snapshot", "open", "write", "rename"} => FileArchived
  /\ l.at \in {"open", "write", "rename"} => l.props = Merged(configs, fileExtras)
  /\ l.at = "write" => l.fd = tmp /\ tmp # 0 /\ inodes[tmp] = Empty
  /\ l.at = "rename" => tmp # 0 /\ inodes[tmp] = FileOf(l.props)
  /\ l.at = "idle" /\ l.answer = "200" /\ (configs # l.old \/ l.req.method = "DELETE")
       => File = Saved(configs, fileExtras)

SerialInv == StoreShape /\ SerialFiles /\ \A c \in Client : SerialCall(call[c])
-----------------------------------------------------------------------------
(* Calls that a step changes in one place.                                 *)

\* A step replaces what one client's handler knows.
LEMMA CallChanged ==
  ASSUME StoreShape, NEW c \in Client, NEW l, CallShape(l), call' = [call EXCEPT ![c] = l]
  PROVE  /\ call'[c] = l /\ \A d \in Client : d # c => call'[d] = call[d]
         /\ call' = [d \in Client |-> call'[d]]
         /\ \A d \in Client : CallShape(call'[d])
BY DEF StoreShape

LEMMA GotoCall ==
  ASSUME StoreShape, NEW c \in Client, NEW p, Goto(c, p)
  PROVE  /\ call'[c] = [call[c] EXCEPT !.at = p]
         /\ call'[c].at = p
         /\ \A f \in Fields \ {"at"} : call'[c][f] = call[c][f]
         /\ \A d \in Client : d # c => call'[d] = call[d]
         /\ call' = [d \in Client |-> call'[d]]
         /\ \A d \in Client : CallShape(call'[d])
<1>. DEFINE l == [call[c] EXCEPT !.at = p]
<1>1. CallShape(l) /\ l.at = p /\ \A f \in Fields \ {"at"} : l[f] = call[c][f]
  BY DEF StoreShape, CallShape, Fields
<1>2. call' = [call EXCEPT ![c] = l]
  BY DEF Goto
<1>. QED  BY <1>1, <1>2, CallChanged

LEMMA AnswerCall ==
  ASSUME StoreShape, NEW c \in Client, NEW a, Answer(c, a)
  PROVE  /\ call'[c].at = "idle" /\ call'[c].answer = a
         /\ \A f \in Fields \ {"at", "answer"} : call'[c][f] = call[c][f]
         /\ \A d \in Client : d # c => call'[d] = call[d]
         /\ call' = [d \in Client |-> call'[d]]
         /\ \A d \in Client : CallShape(call'[d])
<1>. DEFINE l == [call[c] EXCEPT !.at = "idle", !.answer = a]
<1>1. /\ CallShape(l) /\ l.at = "idle" /\ l.answer = a
      /\ \A f \in Fields \ {"at", "answer"} : l[f] = call[c][f]
  BY DEF StoreShape, CallShape, Fields
<1>2. call' = [call EXCEPT ![c] = l]
  BY DEF Answer
<1>. QED  BY <1>1, <1>2, CallChanged
-----------------------------------------------------------------------------
(* The shape of the state, for any number of clients.                      *)

\* What the actions that set more of a handler's variables leave of the others.
LEMMA BeginCall ==
  ASSUME StoreShape, NEW c \in Client, BeginRequest(c)
  PROVE  /\ call'[c].at \in {"get", "reset"}
         /\ call'[c].at = "get" => call'[c].req.method = "PATCH"
         /\ call'[c].updated = {} /\ call'[c].old = configs
         /\ call'[c].req \in Request /\ call'[c].before = DefaultValue
         /\ call'[c].props = <<>> /\ call'[c].fd = 0 /\ call'[c].answer = "none"
         /\ \A d \in Client : d # c => call'[d] = call[d]
         /\ call' = [d \in Client |-> call'[d]]
         /\ \A d \in Client : CallShape(call'[d])
<1>1. PICK r \in Request :
        call' = [call EXCEPT ![c] = [NoCall(configs) EXCEPT
                   !.req = r, !.at = IF r.method = "PATCH" THEN "get" ELSE "reset"]]
  BY DEF BeginRequest
<1>. DEFINE l == [NoCall(configs) EXCEPT
                    !.req = r, !.at = IF r.method = "PATCH" THEN "get" ELSE "reset"]
<1>2. r = [f \in {"method", "body"} |-> r[f]]
  BY DEF Request
<1>3. /\ CallShape(l) /\ l.req = r /\ l.at = IF r.method = "PATCH" THEN "get" ELSE "reset"
      /\ l.updated = {} /\ l.old = configs /\ l.before = DefaultValue
      /\ l.props = <<>> /\ l.fd = 0 /\ l.answer = "none"
  BY <1>2 DEF CallShape, NoCall, Fields
<1>4. call'[c] = l /\ (\A d \in Client : d # c => call'[d] = call[d])
      /\ call' = [d \in Client |-> call'[d]] /\ \A d \in Client : CallShape(call'[d])
  <2>. HIDE DEF l
  <2>. QED  BY <1>1, <1>3, CallChanged DEF l
<1>. QED  BY <1>3, <1>4

LEMMA GetCall ==
  ASSUME StoreShape, NEW c \in Client, GetBefore(c)
  PROVE  /\ call'[c].at = "set"
         /\ call'[c].before = IF Head(call[c].req.body).name \in Known
                                THEN configs[Head(call[c].req.body).name] ELSE DefaultValue
         /\ \A f \in Fields \ {"at", "before"} : call'[c][f] = call[c][f]
         /\ \A d \in Client : d # c => call'[d] = call[d]
         /\ call' = [d \in Client |-> call'[d]]
         /\ \A d \in Client : CallShape(call'[d])
<1>. DEFINE k == Head(call[c].req.body).name
            v == IF k \in Known THEN configs[k] ELSE DefaultValue
            l == [call[c] EXCEPT !.at = "set", !.before = v]
<1>1. /\ CallShape(l) /\ l.at = "set" /\ l.before = v
      /\ \A f \in Fields \ {"at", "before"} : l[f] = call[c][f]
  BY DEF StoreShape, CallShape, Fields
<1>2. call' = [call EXCEPT ![c] = l]
  BY DEF GetBefore, EntryOf
<1>. QED  BY <1>1, <1>2, CallChanged

LEMMA CompareCall ==
  ASSUME StoreShape, NEW c \in Client, Compare(c)
  PROVE  /\ call'[c].at = "get"
         /\ call'[c].req.method = call[c].req.method
         /\ call'[c].req.body = Tail(call[c].req.body)
         /\ call'[c].updated =
              call[c].updated \cup
              (IF configs[Head(call[c].req.body).name] # call[c].before
                 THEN {Head(call[c].req.body).name} ELSE {})
         /\ \A f \in Fields \ {"at", "req", "updated"} : call'[c][f] = call[c][f]
         /\ \A d \in Client : d # c => call'[d] = call[d]
         /\ call' = [d \in Client |-> call'[d]]
         /\ \A d \in Client : CallShape(call'[d])
<1>. DEFINE k == Head(call[c].req.body).name
            u == IF configs[k] # call[c].before THEN {k} ELSE {}
            r == [call[c].req EXCEPT !.body = Tail(@)]
            l == [call[c] EXCEPT !.at = "get", !.req.body = Tail(@), !.updated = @ \cup u]
<1>0. /\ r = [f \in {"method", "body"} |-> r[f]]
      /\ r.method = call[c].req.method /\ r.body = Tail(call[c].req.body)
  BY DEF StoreShape, CallShape
<1>1. /\ l.at = "get" /\ l.req = r /\ l.updated = call[c].updated \cup u
      /\ l = [f \in Fields |-> l[f]]
      /\ \A f \in Fields \ {"at", "req", "updated"} : l[f] = call[c][f]
  BY DEF StoreShape, CallShape, Fields
<1>2. CallShape(l)
  <2>. HIDE DEF l, r
  <2>. QED  BY <1>0, <1>1 DEF CallShape
<1>3. call' = [call EXCEPT ![c] = l]
  BY DEF Compare, EntryOf
<1>. QED  BY <1>0, <1>1, <1>2, <1>3, CallChanged

LEMMA SnapshotCall ==
  ASSUME StoreShape, NEW c \in Client, Snapshot(c)
  PROVE  /\ call'[c].at = "open" /\ call'[c].props = Merged(configs, fileExtras)
         /\ \A f \in Fields \ {"at", "props"} : call'[c][f] = call[c][f]
         /\ \A d \in Client : d # c => call'[d] = call[d]
         /\ call' = [d \in Client |-> call'[d]]
         /\ \A d \in Client : CallShape(call'[d])
<1>. DEFINE l == [call[c] EXCEPT !.at = "open", !.props = Merged(configs, fileExtras)]
<1>1. /\ CallShape(l) /\ l.at = "open" /\ l.props = Merged(configs, fileExtras)
      /\ \A f \in Fields \ {"at", "props"} : l[f] = call[c][f]
  BY DEF StoreShape, CallShape, Fields
<1>2. call' = [call EXCEPT ![c] = l]
  BY DEF Snapshot
<1>. QED  BY <1>1, <1>2, CallChanged

LEMMA OpenCall ==
  ASSUME StoreShape, NEW c \in Client, Open(c)
  PROVE  /\ call'[c].at = "write" /\ call'[c].fd = tmp'
         /\ \A f \in Fields \ {"at", "fd"} : call'[c][f] = call[c][f]
         /\ \A d \in Client : d # c => call'[d] = call[d]
         /\ call' = [d \in Client |-> call'[d]]
         /\ \A d \in Client : CallShape(call'[d])
<1>. DEFINE l == [call[c] EXCEPT !.at = "write", !.fd = tmp']
<1>1. /\ CallShape(l) /\ l.at = "write" /\ l.fd = tmp'
      /\ \A f \in Fields \ {"at", "fd"} : l[f] = call[c][f]
  BY DEF StoreShape, CallShape, Fields
<1>2. call' = [call EXCEPT ![c] = l]
  BY DEF Open
<1>. QED  BY <1>1, <1>2, CallChanged

\* A process that starts has no request.
LEMMA NoCalls ==
  ASSUME NEW m, NEW calls, calls = [c \in Client |-> NoCall(m)]
  PROVE  /\ calls = [c \in Client |-> calls[c]]
         /\ \A c \in Client :
              /\ CallShape(calls[c]) /\ calls[c].at = "idle"
              /\ calls[c].updated = {} /\ calls[c].old = m /\ calls[c].before = DefaultValue
              /\ calls[c].req = [method |-> "PATCH", body |-> <<>>]
              /\ calls[c].props = <<>> /\ calls[c].fd = 0 /\ calls[c].answer = "none"
<1>1. /\ CallShape(NoCall(m)) /\ NoCall(m).at = "idle"
      /\ NoCall(m).updated = {} /\ NoCall(m).old = m /\ NoCall(m).before = DefaultValue
      /\ NoCall(m).req = [method |-> "PATCH", body |-> <<>>]
      /\ NoCall(m).props = <<>> /\ NoCall(m).fd = 0 /\ NoCall(m).answer = "none"
  BY DEF CallShape, NoCall, Fields
<1>. QED  BY <1>1
\* The files of a process that starts.
LEMMA OneFile ==
  ASSUME NEW e
  PROVE  /\ IsList(<<e>>)
         /\ DOMAIN <<e>> = {1} /\ Len(<<e>>) = 1 /\ <<e>>[1] = e
BY DEF IsList

LEMMA ShapeInit == ConfigInit => StoreShape
<1>. SUFFICES ASSUME ConfigInit  PROVE StoreShape
  OBVIOUS
<1>1. PICK text \in Files :
        /\ inodes = <<Whole(text)>> /\ configs = LoadedConfigs(ReadProperties(text))
        /\ fileExtras = LoadedExtras(ReadProperties(text))
  BY DEF ConfigInit, Started
<1>2. path = 1 /\ tmp = 0 /\ archived = <<>> /\ call = [c \in Client |-> NoCall(configs)]
  BY DEF ConfigInit, Started
<1>3. configs = [k \in Known |-> configs[k]]
  BY <1>1 DEF LoadedConfigs
<1>4. /\ IsList(inodes)
      /\ DOMAIN inodes = {1}
  BY <1>1, OneFile
<1>5. archived \in Seq(DOMAIN inodes)
  BY <1>2
<1>6. call = [c \in Client |-> call[c]] /\ \A c \in Client :
        CallShape(call[c]) /\ call[c].fd = 0 /\ call[c].at = "idle"
  BY <1>2, NoCalls
<1>. QED  BY <1>2, <1>3, <1>4, <1>5, <1>6 DEF StoreShape, ConfigInit

\* A step that leaves every file's inode where it is, or creates one, keeps
\* the names of the files in order.
LEMMA NamesKept ==
  ASSUME StoreShape, IsList(inodes'),
         DOMAIN inodes \subseteq DOMAIN inodes',
         path' \in DOMAIN inodes', tmp' \in {0} \cup DOMAIN inodes',
         archived' \in Seq(DOMAIN inodes'), configs' = [k \in Known |-> configs'[k]],
         call' = [c \in Client |-> call'[c]], crashes' = crashes,
         NEW c \in Client, \A d \in Client : CallShape(call'[d]),
         \A d \in Client : d # c => call'[d] = call[d],
         call'[c].fd \in {0} \cup DOMAIN inodes',
         call'[c].at \in {"write", "rename"} => call'[c].fd # 0,
         unremoved' \subseteq {tmp} \cup unremoved, 0 \notin unremoved'
  PROVE  StoreShape'
<1>1. \A d \in Client : /\ call'[d].fd \in {0} \cup DOMAIN inodes'
                        /\ call'[d].at \in {"write", "rename"} => call'[d].fd # 0
  BY DEF StoreShape
<1>2. unremoved' \subseteq DOMAIN inodes'
  BY DEF StoreShape
<1>. QED  BY <1>1, <1>2 DEF StoreShape

\* A handler goes on, or answers.
LEMMA CallMoves ==
  ASSUME StoreShape, NEW c \in Client, NEW p, NEW a, Goto(c, p) \/ Answer(c, a)
  PROVE  /\ call'[c].at \in {p, "idle"}
         /\ call'[c].fd = call[c].fd
         /\ \A d \in Client : d # c => call'[d] = call[d]
         /\ call' = [d \in Client |-> call'[d]]
         /\ \A d \in Client : CallShape(call'[d])
<1>1. CASE Goto(c, p)
  BY <1>1, GotoCall DEF Fields
<1>2. CASE Answer(c, a)
  BY <1>2, AnswerCall DEF Fields
<1>. QED  BY <1>1, <1>2

\* A step of a handler that leaves the files alone.
LEMMA ShapeInMemory ==
  ASSUME StoreShape, NEW c \in Client,
         BeginRequest(c) \/ PatchEntriesDone(c) \/ GetBefore(c) \/ Set(c) \/ Compare(c)
           \/ Reset(c) \/ Snapshot(c) \/ OpenFails(c)
  PROVE  StoreShape'
<1>1. /\ UNCHANGED fsVars /\ crashes' = crashes /\ unremoved' = unremoved
      /\ configs' = [k \in Known |-> configs'[k]]
  <2>1. CASE Set(c)
    BY <2>1 DEF Set, StoreShape, history
  <2>2. CASE Reset(c)
    BY <2>2 DEF Reset, history
  <2>3. CASE ~Set(c) /\ ~Reset(c)
    <3>1. UNCHANGED <<memVars, fsVars, crashes, unremoved>>
      BY <2>3 DEF BeginRequest, PatchEntriesDone, GetBefore, Compare, Snapshot, OpenFails, history
    <3>. QED  BY <3>1 DEF StoreShape, memVars
  <2>. QED  BY <2>1, <2>2, <2>3
<1>2. /\ \A d \in Client : d # c => call'[d] = call[d]
      /\ call' = [d \in Client |-> call'[d]]
      /\ \A d \in Client : CallShape(call'[d])
      /\ call'[c].at \notin {"write", "rename"}
      /\ call'[c].fd = call[c].fd \/ call'[c].fd = 0
  <2>1. CASE BeginRequest(c)
    BY <2>1, BeginCall
  <2>2. CASE PatchEntriesDone(c) \/ OpenFails(c)
    <3>1. PICK a : Goto(c, "archive") \/ Answer(c, a)
      BY <2>2 DEF PatchEntriesDone, OpenFails
    <3>. QED  BY <3>1, CallMoves
  <2>3. CASE GetBefore(c)
    BY <2>3, GetCall DEF Fields
  <2>4. CASE Set(c) \/ Reset(c)
    <3>1. PICK p \in {"compare", "archive"}, a \in {"404"} : Goto(c, p) \/ Answer(c, a)
      BY <2>4 DEF Set, Reset
    <3>. QED  BY <3>1, CallMoves
  <2>5. CASE Compare(c)
    BY <2>5, CompareCall DEF Fields
  <2>6. CASE Snapshot(c)
    BY <2>6, SnapshotCall DEF Fields
  <2>. QED  BY <2>1, <2>2, <2>3, <2>4, <2>5, <2>6
<1>3. 0 \notin unremoved
  BY DEF StoreShape, IsList
<1>. QED  BY <1>1, <1>2, <1>3, NamesKept DEF StoreShape, fsVars

\* The handler's steps that change files.
LEMMA ShapeInFiles ==
  ASSUME StoreShape, NEW c \in Client,
         ArchiveLink(c) \/ ArchiveCopy(c) \/ ArchiveSameTick(c) \/ ArchiveFails(c)
           \/ Open(c) \/ Write(c) \/ WriteFails(c) \/ Rename(c) \/ RenameFails(c)
  PROVE  StoreShape'
<1>. DEFINE FilesKept == /\ IsList(inodes')
                         /\ DOMAIN inodes \subseteq DOMAIN inodes'
                         /\ path' \in DOMAIN inodes' /\ tmp' \in {0} \cup DOMAIN inodes'
                         /\ archived' \in Seq(DOMAIN inodes')
<1>0. /\ IsList(inodes)
      /\ path \in DOMAIN inodes /\ tmp \in {0} \cup DOMAIN inodes
      /\ archived \in Seq(DOMAIN inodes)
      /\ call[c].fd \in {0} \cup DOMAIN inodes
      /\ call[c].at \in {"write", "rename"} => call[c].fd # 0
      /\ 0 \notin DOMAIN inodes
  BY DEF StoreShape, IsList
<1>1. /\ configs' = [k \in Known |-> configs'[k]] /\ crashes' = crashes
      /\ unremoved' \subseteq {tmp} \cup unremoved /\ 0 \notin unremoved'
  <2>1. configs' = configs /\ crashes' = crashes
    BY DEF memVars, history, ArchiveLink, ArchiveCopy, ArchiveSameTick, ArchiveFails,
           Open, Write, WriteFails, Rename, RenameFails
  <2>2. unremoved' = unremoved \/ (tmp # 0 /\ unremoved' = unremoved \cup {tmp})
    <3>1. CASE WriteFails(c) \/ RenameFails(c)
      BY <3>1 DEF WriteFails, RenameFails, RemoveTmp
    <3>2. CASE ~(WriteFails(c) \/ RenameFails(c))
      BY <3>2 DEF history, ArchiveLink, ArchiveCopy, ArchiveSameTick, ArchiveFails,
                  Open, Write, Rename
    <3>. QED  BY <3>1, <3>2
  <2>3. 0 \notin unremoved
    BY <1>0 DEF StoreShape
  <2>. QED  BY <2>1, <2>2, <2>3 DEF StoreShape
<1>2. ASSUME NEW e, inodes' = Append(inodes, e),
             archived' = archived \/ archived' = Append(archived, Len(inodes')),
             path' = path, tmp' = tmp \/ tmp' = Len(inodes')
      PROVE  FilesKept
  <2>1. /\ IsList(inodes')
        /\ Len(inodes) \in Nat /\ DOMAIN inodes = 1 .. Len(inodes)
        /\ Len(inodes') = Len(inodes) + 1 /\ DOMAIN inodes' = 1 .. Len(inodes) + 1
    BY <1>0, <1>2, ListAppend
  <2>2. DOMAIN inodes \subseteq DOMAIN inodes' /\ Len(inodes') \in DOMAIN inodes'
    BY <2>1
  <2>3. archived \in Seq(DOMAIN inodes')
    BY <1>0, <2>2, SeqMonotone
  <2>4. archived' \in Seq(DOMAIN inodes')
    <3>1. CASE archived' = archived
      BY <2>3, <3>1
    <3>2. CASE archived' = Append(archived, Len(inodes'))
      BY <2>2, <2>3, <3>2
    <3>. QED  BY <1>2, <3>1, <3>2
  <2>. QED  BY <1>0, <1>2, <2>1, <2>2, <2>4
<1>3. ASSUME NEW j \in DOMAIN inodes, NEW e, inodes' = [inodes EXCEPT ![j] = e],
             archived' = archived, path' = path, tmp' \in {0, tmp}
      PROVE  FilesKept
  BY <1>0, <1>3, ListChange
<1>4. ASSUME inodes' = inodes, archived' = archived \/ archived' = Append(archived, path),
             path' \in {path, tmp}, path' # 0, tmp' \in {0, tmp}
      PROVE  FilesKept
  BY <1>0, <1>4
<1>5. ASSUME NEW p, NEW a, Goto(c, p) \/ Answer(c, a),
             FilesKept, p = "rename" => call[c].at = "write", p # "write"
      PROVE  StoreShape'
  <2>1. /\ call'[c].at \in {p, "idle"} /\ call'[c].fd = call[c].fd
        /\ \A d \in Client : d # c => call'[d] = call[d]
        /\ call' = [d \in Client |-> call'[d]]
        /\ \A d \in Client : CallShape(call'[d])
    BY <1>5, CallMoves
  <2>2. /\ call'[c].fd \in {0} \cup DOMAIN inodes'
        /\ call'[c].at \in {"write", "rename"} => call'[c].fd # 0
    BY <1>0, <1>5, <2>1
  <2>. QED  BY <1>1, <1>5, <2>1, <2>2, NamesKept
<1>. HIDE DEF FilesKept
<1>answered. ASSUME NEW a, Answer(c, a), FilesKept  PROVE StoreShape'
  <2>1. Goto(c, "idle") \/ Answer(c, a)
    BY <1>answered
  <2>. QED  BY <2>1, <1>answered, <1>5
<1>6. CASE ArchiveLink(c)
  BY <1>4, <1>5, <1>6, <1>0 DEF ArchiveLink
<1>7. CASE ArchiveCopy(c)
  BY <1>2, <1>5, <1>7 DEF ArchiveCopy
<1>8. CASE ArchiveSameTick(c)
  <2>1. archived[Len(archived)] \in DOMAIN inodes
    BY <1>0, <1>8 DEF ArchiveSameTick
  <2>. QED  BY <2>1, <1>3, <1>5, <1>8 DEF ArchiveSameTick
<1>9. CASE ArchiveFails(c)
  <2>1. FilesKept
    <3>1. CASE UNCHANGED <<inodes, archived>>
      BY <3>1, <1>0, <1>4, <1>9 DEF ArchiveFails
    <3>2. CASE \E content \in {Empty, Mixed} : /\ inodes' = Append(inodes, content)
                                             /\ archived' = Append(archived, Len(inodes'))
      BY <3>2, <1>2, <1>9 DEF ArchiveFails
    <3>. QED  BY <3>1, <3>2, <1>9 DEF ArchiveFails
  <2>2. Answer(c, "archive failed")
    BY <1>9 DEF ArchiveFails
  <2>. QED  BY <2>1, <2>2, <1>answered
<1>10. CASE Open(c)
  <2>1. FilesKept /\ tmp' # 0
    <3>1. CASE tmp = 0
      <4>1. tmp' = Len(inodes') /\ inodes' = Append(inodes, Empty)
        BY <3>1, <1>10 DEF Open
      <4>2. FilesKept
        BY <4>1, <1>2, <1>10 DEF Open
      <4>. QED  BY <4>1, <4>2, <1>0, ListAppend
    <3>2. CASE tmp # 0
      BY <3>2, <1>0, <1>3, <1>10 DEF Open
    <3>. QED  BY <3>1, <3>2
  <2>. QED  BY <2>1, <1>1, <1>10, OpenCall, NamesKept DEF FilesKept, Fields
<1>11. CASE Write(c)
  BY <1>0, <1>3, <1>5, <1>11 DEF Write, At
<1>12. CASE WriteFails(c)
  BY <1>0, <1>3, <1>5, <1>12 DEF WriteFails, RemoveTmp, At
<1>13. CASE Rename(c)
  <2>1. FilesKept
    BY <1>0, <1>4, <1>13 DEF Rename
  <2>2. Answer(c, "200")
    BY <1>13 DEF Rename
  <2>. QED  BY <2>1, <2>2, <1>answered
<1>14. CASE RenameFails(c)
  <2>1. FilesKept
    BY <1>0, <1>4, <1>14 DEF RenameFails, RemoveTmp
  <2>2. Answer(c, "sync failed")
    BY <1>14 DEF RenameFails
  <2>. QED  BY <2>1, <2>2, <1>answered
<1>. QED  BY <1>6, <1>7, <1>8, <1>9, <1>10, <1>11, <1>12, <1>13, <1>14

\* One step of the store, named by what it is.
LEMMA StepsOf ==
  ASSUME NEW c \in Client, BeginRequest(c) \/ HandlerStep(c)
  PROVE  \/ BeginRequest(c) \/ PatchEntriesDone(c) \/ GetBefore(c) \/ Set(c) \/ Compare(c)
           \/ Reset(c) \/ Snapshot(c) \/ OpenFails(c)
         \/ ArchiveLink(c) \/ ArchiveCopy(c) \/ ArchiveSameTick(c) \/ ArchiveFails(c)
           \/ Open(c) \/ Write(c) \/ WriteFails(c) \/ Rename(c) \/ RenameFails(c)
BY DEF HandlerStep

\* It is a step of one handler: the others' variables stay.
LEMMA OthersWait ==
  ASSUME StoreShape, NEW c \in Client, BeginRequest(c) \/ HandlerStep(c)
  PROVE  \A d \in Client : d # c => call'[d] = call[d]
BY DEF HandlerStep, BeginRequest, PatchEntriesDone, GetBefore, Set, Compare, Reset, ArchiveLink,
       ArchiveCopy, ArchiveSameTick, ArchiveFails, Snapshot, Open, OpenFails, Write, WriteFails,
       Rename, RenameFails, Goto, Answer, StoreShape

LEMMA ShapeRestart == StoreShape /\ Restart => StoreShape'
<1>. SUFFICES ASSUME StoreShape, Restart  PROVE StoreShape'
  OBVIOUS
<1>1. configs' = [k \in Known |-> configs'[k]]
  BY DEF Restart, LoadedConfigs
<1>2. call' = [c \in Client |-> call'[c]] /\ \A c \in Client :
        CallShape(call'[c]) /\ call'[c].fd = 0 /\ call'[c].at = "idle"
  BY NoCalls DEF Restart
<1>3. UNCHANGED fsVars /\ crashes' \in Nat /\ unremoved' = unremoved
  BY DEF Restart, StoreShape
<1>. QED  BY <1>1, <1>2, <1>3 DEF StoreShape, fsVars

LEMMA ShapeNext == StoreShape /\ [ConfigNext]_configVars => StoreShape'
<1>. SUFFICES ASSUME StoreShape, [ConfigNext]_configVars  PROVE StoreShape'
  OBVIOUS
<1>1. ASSUME NEW c \in Client, BeginRequest(c) \/ HandlerStep(c)  PROVE StoreShape'
  BY <1>1, StepsOf, ShapeInMemory, ShapeInFiles
<1>2. CASE Restart
  BY <1>2, ShapeRestart
<1>3. CASE UNCHANGED configVars
  BY <1>3 DEF StoreShape, configVars, memVars, fsVars, history
<1>. QED  BY <1>1, <1>2, <1>3 DEF ConfigNext

\* The part of the type invariant that needs nothing of the file format.
THEOREM ShapeInvariant == ConfigSpec => []StoreShape
BY ShapeInit, ShapeNext, PTL DEF ConfigSpec

-----------------------------------------------------------------------------
(* Any number of clients.                                                  *)

\* The temporary file belongs to a handler that is writing, until the process
\* dies: whoever finds it in the way shares it, and whoever is done removes it,
\* or could not.
TmpInUse ==
  crashes = 0 /\ tmp \notin {0} \cup unremoved
    => \E c \in Client : call[c].at \in {"write", "rename"}

LEMMA TmpInUseNext ==
  StoreShape /\ TmpInUse /\ [ConfigNext]_configVars => TmpInUse'
<1>. SUFFICES ASSUME StoreShape, TmpInUse, [ConfigNext]_configVars  PROVE TmpInUse'
  OBVIOUS
<1>1. ASSUME NEW c \in Client, BeginRequest(c) \/ HandlerStep(c)  PROVE TmpInUse'
  <2>1. CASE Open(c)
    BY <2>1, OpenCall DEF TmpInUse
  <2>2. CASE Write(c)
    BY <2>2, GotoCall DEF TmpInUse, Write
  <2>3. CASE WriteFails(c) \/ Rename(c) \/ RenameFails(c)
    BY <2>3 DEF TmpInUse, WriteFails, Rename, RenameFails, RemoveTmp
  <2>4. CASE ~Open(c) /\ ~Write(c) /\ ~(WriteFails(c) \/ Rename(c) \/ RenameFails(c))
    <3>1. /\ tmp' = tmp /\ crashes' = crashes /\ unremoved' = unremoved
          /\ call[c].at \notin {"write", "rename"}
      BY <1>1, <2>4 DEF HandlerStep, BeginRequest, PatchEntriesDone, GetBefore, Set, Compare,
           Reset, ArchiveLink, ArchiveCopy, ArchiveSameTick, ArchiveFails, Snapshot, OpenFails,
           At, memVars, fsVars, history
    <3>2. \A d \in Client : d # c => call'[d] = call[d]
      BY <1>1, OthersWait
    <3>. QED  BY <3>1, <3>2 DEF TmpInUse
  <2>. QED  BY <2>1, <2>2, <2>3, <2>4
<1>2. CASE Restart
  BY <1>2 DEF Restart, TmpInUse, StoreShape
<1>3. CASE UNCHANGED configVars
  BY <1>3 DEF TmpInUse, configVars, memVars, fsVars, history
<1>. QED  BY <1>1, <1>2, <1>3 DEF ConfigNext

\* However requests interleave and whatever fails, no temporary file is left
\* when all of them are answered, but one that could not be removed, unless the
\* process died.
THEOREM NoTemporaryFileStays == ConfigSpec => []NoTmpLeft
<1>1. ConfigInit => TmpInUse
  BY DEF ConfigInit, Started, TmpInUse
<1>2. TmpInUse => NoTmpLeft
  BY DEF TmpInUse, NoTmpLeft, Quiescent, At
<1>. QED  BY <1>1, <1>2, TmpInUseNext, ShapeInvariant, PTL DEF ConfigSpec
-----------------------------------------------------------------------------
(* One request at a time.                                                  *)

OneAtATime == \A c, d \in Client : c = d

LEMMA SerialInit == ConfigInit => SerialInv
<1>. SUFFICES ASSUME ConfigInit  PROVE SerialInv
  OBVIOUS
<1>1. StoreShape
  BY ShapeInit
<1>2. PICK text \in Files : inodes = <<Whole(text)>>
  BY DEF ConfigInit, Started
<1>3. path = 1 /\ tmp = 0 /\ archived = <<>> /\ call = [c \in Client |-> NoCall(configs)]
  BY DEF ConfigInit, Started
<1>4. SerialFiles
  BY <1>2, <1>3 DEF SerialFiles, File, Whole
<1>5. \A c \in Client : SerialCall(call[c])
  BY <1>3, NoCalls DEF SerialCall
<1>. QED  BY <1>1, <1>4, <1>5 DEF SerialInv

\* The request's entries: what it changed is in the list of changed keys.
LEMMA SerialEntries ==
  ASSUME SerialInv, StoreShape', NEW c \in Client,
         BeginRequest(c) \/ PatchEntriesDone(c) \/ GetBefore(c) \/ Set(c) \/ Compare(c)
           \/ Reset(c)
  PROVE  SerialFiles' /\ SerialCall(call[c])'
<1>. USE DEF SerialInv, Fields
<1>1. UNCHANGED <<inodes, path, tmp, archived, fileExtras>>
  BY DEF fsVars, memVars, BeginRequest, PatchEntriesDone, GetBefore, Set, Compare, Reset
<1>2. SerialFiles'
  BY <1>1 DEF SerialFiles, File
<1>. SUFFICES SerialCall(call[c])'
  BY <1>2
<1>3. CASE BeginRequest(c)
  BY <1>3, BeginCall DEF SerialCall, BeginRequest, memVars
<1>4. CASE PatchEntriesDone(c)
  <2>1. call[c].at = "get" /\ configs' = configs
    BY <1>4 DEF PatchEntriesDone, At, memVars
  <2>2. CASE call[c].updated = {}
    <3>1. /\ call'[c].at = "idle" /\ call'[c].answer = "200"
          /\ call'[c].req = call[c].req /\ call'[c].old = call[c].old
      BY <1>4, <2>2, AnswerCall DEF PatchEntriesDone
    <3>2. call[c].req.method = "PATCH" /\ configs = call[c].old
      BY <2>1, <2>2 DEF SerialCall
    <3>. QED  BY <2>1, <3>1, <3>2 DEF SerialCall
  <2>3. CASE call[c].updated # {}
    <3>1. call'[c].at = "archive"
      BY <1>4, <2>3, GotoCall DEF PatchEntriesDone
    <3>. QED  BY <3>1 DEF SerialCall
  <2>. QED  BY <1>2, <2>2, <2>3
<1>5. CASE GetBefore(c)
  <2>1. call[c].at = "get" /\ configs' = configs
    BY <1>5 DEF GetBefore, At, memVars
  <2>2. /\ call'[c].at = "set" /\ call'[c].req = call[c].req
        /\ call'[c].old = call[c].old /\ call'[c].updated = call[c].updated
        /\ Head(call[c].req.body).name \in Known =>
             call'[c].before = configs[Head(call[c].req.body).name]
    BY <1>5, GetCall
  <2>. QED  BY <2>1, <2>2 DEF SerialCall
<1>6. CASE Set(c)
  <2>. DEFINE k == Head(call[c].req.body).name
  <2>1. call[c].at = "set"
    BY <1>6 DEF Set, At
  <2>2. CASE k \notin Known
    BY <1>6, <2>2, AnswerCall DEF Set, EntryOf, SerialCall
  <2>3. CASE k \in Known
    <3>1. /\ call'[c].at = "compare" /\ call'[c].req = call[c].req
          /\ call'[c].old = call[c].old /\ call'[c].updated = call[c].updated
          /\ call'[c].before = call[c].before
      BY <1>6, <2>3, GotoCall DEF Set, EntryOf
    <3>2. configs'[k] = configs[k] => configs' = configs
      <4>1. configs' = configs \/ \E v : configs' = [configs EXCEPT ![k] = v]
        BY <1>6, <2>3 DEF Set, EntryOf
      <4>2. configs = [q \in Known |-> configs[q]] /\ configs' = [q \in Known |-> configs'[q]]
        BY DEF StoreShape
      <4>. QED  BY <4>1, <4>2
    <3>. QED  BY <2>1, <2>3, <3>1, <3>2 DEF SerialCall
  <2>. QED  BY <1>2, <2>2, <2>3
<1>7. CASE Compare(c)
  <2>1. call[c].at = "compare" /\ configs' = configs
    BY <1>7 DEF Compare, At, memVars
  <2>2. /\ call'[c].at = "get" /\ call'[c].req.method = call[c].req.method
        /\ call'[c].old = call[c].old
        /\ call'[c].updated = {} =>
             call[c].updated = {} /\ configs[Head(call[c].req.body).name] = call[c].before
    BY <1>7, CompareCall
  <2>. QED  BY <2>1, <2>2 DEF SerialCall
<1>8. CASE Reset(c)
  <2>1. call'[c].at = "archive"
    BY <1>8, GotoCall DEF Reset
  <2>. QED  BY <2>1 DEF SerialCall
<1>. QED  BY <1>2, <1>3, <1>4, <1>5, <1>6, <1>7, <1>8
\* The archive: what it takes is what the file holds, and the file stays.
LEMMA SerialArchive ==
  ASSUME SerialInv, StoreShape', ~SameTick, NEW c \in Client,
         ArchiveLink(c) \/ ArchiveCopy(c) \/ ArchiveSameTick(c) \/ ArchiveFails(c)
  PROVE  SerialFiles' /\ SerialCall(call[c])'
<1>. USE DEF SerialInv, Fields
<1>1. /\ path' = path /\ tmp' = tmp
      /\ inodes' = inodes \/ \E e : inodes' = Append(inodes, e)
      /\ \/ UNCHANGED archived
         \/ archived' = Append(archived, path) /\ UNCHANGED inodes
         \/ archived' = Append(archived, Len(inodes')) /\ \E e : inodes' = Append(inodes, e)
  BY DEF ArchiveLink, ArchiveCopy, ArchiveSameTick, ArchiveFails
<1>2. IsList(inodes) /\ path \in DOMAIN inodes /\ tmp \in {0} \cup DOMAIN inodes
  BY DEF StoreShape
<1>3. /\ DOMAIN inodes = 1 .. Len(inodes) /\ Len(inodes) \in Nat
      /\ \A i \in DOMAIN inodes : inodes'[i] = inodes[i]
      /\ (\E e : inodes' = Append(inodes, e)) => Len(inodes') = Len(inodes) + 1
  BY <1>1, <1>2, ListAppend
<1>4. SerialFiles'
  <2>1. \A k \in DOMAIN archived' : archived'[k] # tmp
    <3>1. archived \in Seq(DOMAIN inodes) /\ tmp # path /\ \A k \in DOMAIN archived : archived[k] # tmp
      BY DEF StoreShape, SerialFiles
    <3>2. CASE archived' = archived
      BY <3>1, <3>2
    <3>3. ASSUME NEW j, archived' = Append(archived, j), j # tmp
          PROVE  <2>1
      BY <3>1, <3>3
    <3>. QED  BY <1>1, <1>2, <1>3, <3>1, <3>2, <3>3
  <2>. QED  BY <1>1, <1>2, <1>3, <2>1 DEF SerialFiles, File
<1>5. CASE ArchiveFails(c)
  <2>1. call'[c].at = "idle" /\ call'[c].answer = "archive failed"
    BY <1>5, AnswerCall DEF ArchiveFails
  <2>. QED  BY <1>4, <2>1 DEF SerialCall
<1>6. CASE ~ArchiveFails(c)
  <2>1. call'[c].at = "snapshot"
    BY <1>6, GotoCall DEF ArchiveLink, ArchiveCopy, ArchiveSameTick
  <2>2. \E k \in DOMAIN archived' : inodes'[archived'[k]] = inodes'[path']
    <3>1. archived \in Seq(DOMAIN inodes)
      BY DEF StoreShape
    <3>2. CASE ArchiveLink(c)
      <4>1. archived' = Append(archived, path) /\ path' = path
        BY <3>2 DEF ArchiveLink
      <4>. QED  BY <3>1, <4>1, <1>2
    <3>3. CASE ArchiveCopy(c)
      <4>1. archived' = Append(archived, Len(inodes')) /\ inodes' = Append(inodes, inodes[path])
        BY <3>3 DEF ArchiveCopy
      <4>2. inodes'[Len(inodes')] = inodes[path] /\ Len(inodes') \in Nat
        BY <4>1, <1>2, ListAppend
      <4>3. archived'[Len(archived) + 1] = Len(inodes') /\ Len(archived) + 1 \in DOMAIN archived'
        BY <4>1, <4>2, <3>1
      <4>. QED  BY <4>2, <4>3, <1>1, <1>2, <1>3
    <3>. QED  BY <1>6, <3>2, <3>3 DEF ArchiveSameTick
  <2>. QED  BY <1>4, <2>1, <2>2 DEF SerialCall, FileArchived, File
<1>. QED  BY <1>5, <1>6
\* SyncToFile: until the rename, only the temporary file changes.
LEMMA SerialSync ==
  ASSUME SerialInv, StoreShape', NEW c \in Client,
         Snapshot(c) \/ Open(c) \/ OpenFails(c) \/ Write(c) \/ WriteFails(c)
           \/ Rename(c) \/ RenameFails(c)
  PROVE  SerialFiles' /\ SerialCall(call[c])'
<1>. USE DEF SerialInv, Fields
<1>0. /\ IsList(inodes) /\ path \in DOMAIN inodes /\ tmp \in {0} \cup DOMAIN inodes
      /\ archived \in Seq(DOMAIN inodes)
      /\ tmp # path /\ (\A k \in DOMAIN archived : archived[k] # tmp) /\ inodes[path].kind = "whole"
  BY DEF StoreShape, SerialFiles, File
<1>1. UNCHANGED <<configs, fileExtras, archived>>
  BY DEF memVars, fsVars, Snapshot, Open, OpenFails, Write, WriteFails, Rename, RenameFails
<1>2. DOMAIN inodes = 1 .. Len(inodes) /\ Len(inodes) \in Nat
  BY <1>0, ListAppend
\* A step that changes no other file leaves the file and the archives.
<1>3. ASSUME path' = path, DOMAIN inodes \subseteq DOMAIN inodes',
             \A i \in DOMAIN inodes : i # tmp => inodes'[i] = inodes[i],
             tmp' \in {0, tmp} \/ tmp' \notin DOMAIN inodes
      PROVE  /\ SerialFiles' /\ File' = File
             /\ FileArchived => FileArchived'
  <2>1. inodes'[path'] = inodes[path] /\ tmp' # path'
    BY <1>0, <1>2, <1>3
  <2>2. \A k \in DOMAIN archived : /\ archived[k] \in DOMAIN inodes
                                   /\ inodes'[archived[k]] = inodes[archived[k]]
                                   /\ archived[k] # tmp'
    BY <1>0, <1>2, <1>3
  <2>. QED  BY <1>0, <1>1, <2>1, <2>2 DEF SerialFiles, File, FileArchived
<1>4. CASE Snapshot(c)
  <2>1. UNCHANGED fsVars /\ call[c].at = "snapshot"
    BY <1>4 DEF Snapshot, At
  <2>2. call'[c].at = "open" /\ call'[c].props = Merged(configs, fileExtras)
    BY <1>4, SnapshotCall
  <2>. QED  BY <1>1, <1>3, <2>1, <2>2 DEF SerialCall, fsVars
<1>5. CASE Open(c)
  <2>1. /\ path' = path /\ DOMAIN inodes \subseteq DOMAIN inodes'
        /\ \A i \in DOMAIN inodes : i # tmp => inodes'[i] = inodes[i]
        /\ tmp' # 0 /\ inodes'[tmp'] = Empty
        /\ tmp' = tmp \/ tmp' \notin DOMAIN inodes
    <3>1. CASE tmp = 0
      BY <3>1, <1>0, <1>2, <1>5, ListAppend DEF Open
    <3>2. CASE tmp # 0
      BY <3>2, <1>0, <1>5, ListChange DEF Open
    <3>. QED  BY <3>1, <3>2
  <2>2. /\ call'[c].at = "write" /\ call'[c].props = call[c].props /\ call'[c].fd = tmp'
        /\ call[c].at = "open"
    BY <1>5, OpenCall DEF Open, At
  <2>. QED  BY <1>1, <1>3, <2>1, <2>2 DEF SerialCall
<1>6. CASE OpenFails(c)
  <2>1. call'[c].at = "idle" /\ call'[c].answer = "sync failed" /\ UNCHANGED fsVars
    BY <1>6, AnswerCall DEF OpenFails
  <2>. QED  BY <1>3, <2>1 DEF SerialCall, fsVars
<1>7. CASE Write(c)
  <2>1. call[c].at = "write" /\ call[c].fd = tmp /\ tmp # 0 /\ inodes[tmp] = Empty
    BY <1>7 DEF Write, At, SerialCall
  <2>2. PICK content \in Overwrite(inodes[tmp], FileOf(call[c].props)) :
          inodes' = [inodes EXCEPT ![tmp] = content]
    BY <1>7, <2>1 DEF Write
  <2>3. content = FileOf(call[c].props)
    BY <2>1, <2>2 DEF Overwrite
  <2>4. /\ path' = path /\ tmp' = tmp /\ DOMAIN inodes' = DOMAIN inodes
        /\ \A i \in DOMAIN inodes : i # tmp => inodes'[i] = inodes[i]
        /\ inodes'[tmp'] = FileOf(call[c].props)
    BY <1>0, <1>7, <2>1, <2>2, <2>3, ListChange DEF Write
  <2>5. call'[c].at = "rename" /\ call'[c].props = call[c].props
    BY <1>7, GotoCall DEF Write
  <2>. QED  BY <1>1, <1>3, <2>1, <2>4, <2>5 DEF SerialCall
<1>8. CASE WriteFails(c)
  <2>1. call[c].fd = tmp /\ tmp \in DOMAIN inodes
    BY <1>0, <1>8 DEF WriteFails, At, SerialCall
  <2>2. /\ path' = path /\ tmp' \in {0, tmp} /\ DOMAIN inodes' = DOMAIN inodes
        /\ \A i \in DOMAIN inodes : i # tmp => inodes'[i] = inodes[i]
    BY <1>0, <1>8, <2>1, ListChange DEF WriteFails, RemoveTmp
  <2>3. call'[c].at = "idle" /\ call'[c].answer = "sync failed"
    BY <1>8, AnswerCall DEF WriteFails
  <2>. QED  BY <1>3, <2>2, <2>3 DEF SerialCall
<1>9. CASE Rename(c)
  <2>1. /\ tmp # 0 /\ inodes[tmp] = FileOf(call[c].props)
        /\ call[c].props = Merged(configs, fileExtras)
    BY <1>9 DEF Rename, At, SerialCall
  <2>2. path' = tmp /\ tmp' = 0 /\ inodes' = inodes
    BY <1>9 DEF Rename
  <2>3. inodes'[path'] = Saved(configs, fileExtras) /\ inodes'[path'].kind = "whole"
    BY <2>1, <2>2 DEF Saved, FileOf, Whole
  <2>4. call'[c].at = "idle" /\ call'[c].answer = "200"
    BY <1>9, AnswerCall DEF Rename
  <2>5. SerialFiles'
    BY <1>0, <1>1, <1>2, <2>1, <2>2, <2>3 DEF SerialFiles, File
  <2>. QED  BY <1>1, <2>3, <2>4, <2>5 DEF SerialCall, File
<1>10. CASE RenameFails(c)
  <2>1. call'[c].at = "idle" /\ call'[c].answer = "sync failed"
    BY <1>10, AnswerCall DEF RenameFails
  <2>. QED  BY <1>3, <1>10, <2>1 DEF SerialCall, RenameFails, RemoveTmp
<1>. QED  BY <1>4, <1>5, <1>6, <1>7, <1>8, <1>9, <1>10

LEMMA SerialNext ==
  ASSUME OneAtATime, ~SameTick, SerialInv, [ConfigNext]_configVars
  PROVE  SerialInv'
<1>1. StoreShape'
  BY ShapeNext DEF SerialInv
<1>2. ASSUME NEW c \in Client, BeginRequest(c) \/ HandlerStep(c)  PROVE SerialInv'
  <2>1. SerialFiles' /\ SerialCall(call[c])'
    BY <1>1, <1>2, SerialEntries, SerialArchive, SerialSync DEF HandlerStep
  <2>2. \A d \in Client : SerialCall(call[d])'
    BY <2>1 DEF OneAtATime
  <2>. QED  BY <1>1, <2>1, <2>2 DEF SerialInv
<1>3. CASE Restart
  <2>1. UNCHANGED <<inodes, path, tmp, archived>>
    BY <1>3 DEF Restart, fsVars
  <2>2. \A c \in Client : call'[c].at = "idle" /\ call'[c].answer = "none"
    BY <1>3, NoCalls DEF Restart
  <2>. QED  BY <1>1, <2>1, <2>2 DEF SerialInv, SerialFiles, SerialCall, File
<1>4. CASE UNCHANGED configVars
  BY <1>1, <1>4
     DEF SerialInv, SerialFiles, SerialCall, File, FileArchived, configVars, memVars, fsVars, history
<1>. QED  BY <1>2, <1>3, <1>4 DEF ConfigNext

\* What holds between two steps when requests come one after the other.
THEOREM SerialInvariant ==
  ASSUME OneAtATime, ~SameTick
  PROVE  ConfigSpec => []SerialInv
<1>1. SerialInv /\ [ConfigNext]_configVars => SerialInv'
  BY SerialNext
<1>. QED  BY <1>1, SerialInit, PTL DEF ConfigSpec

\* The configuration file is complete, wherever the process dies and whatever
\* system call fails.
THEOREM FileIsWhole ==
  ASSUME OneAtATime, ~SameTick
  PROVE  ConfigSpec => []FileWhole
<1>1. SerialInv => FileWhole
  BY DEF SerialInv, SerialFiles, FileWhole
<1>. QED  BY <1>1, SerialInvariant, PTL

\* A request answered 200 that changed a value, or reset them, has saved what
\* the manager now holds.
THEOREM AnsweredIsSaved ==
  ASSUME OneAtATime, ~SameTick
  PROVE  ConfigSpec => []SavedWhenAnswered
<1>1. SerialInv => SavedWhenAnswered
  BY DEF SerialInv, SerialCall, SavedWhenAnswered, SavedAnswer, Quiescent, At
<1>. QED  BY <1>1, SerialInvariant, PTL

\* No configuration is lost by saving another one: the file that a rename
\* replaces has its contents in the archive.
THEOREM ReplacedFileIsArchived ==
  ASSUME OneAtATime, ~SameTick
  PROVE  ConfigSpec => ReplacedIsArchived
<1>. DEFINE Archived == path' # path => \E k \in DOMAIN archived : inodes[archived[k]] = File
<1>1. SerialInv /\ [ConfigNext]_configVars => [Archived]_configVars
  <2>. SUFFICES ASSUME SerialInv, ConfigNext  PROVE Archived
    BY DEF configVars, fsVars
  <2>1. ASSUME NEW c \in Client, Rename(c)  PROVE Archived
    BY <2>1 DEF Rename, At, SerialInv, SerialCall, FileArchived
  <2>2. ASSUME NEW c \in Client, BeginRequest(c) \/ HandlerStep(c), ~Rename(c)  PROVE Archived
    <3>1. path' = path
      BY <2>2 DEF HandlerStep, BeginRequest, PatchEntriesDone, GetBefore, Set, Compare, Reset,
         ArchiveLink, ArchiveCopy, ArchiveSameTick, ArchiveFails, Snapshot, Open, OpenFails,
         Write, WriteFails, RenameFails, fsVars
    <3>. QED  BY <3>1
  <2>3. CASE Restart
    BY <2>3 DEF Restart, fsVars
  <2>. QED  BY <2>1, <2>2, <2>3 DEF ConfigNext
<1>. QED  BY <1>1, SerialInvariant, PTL DEF ConfigSpec, ReplacedIsArchived
-----------------------------------------------------------------------------
(* The types of what is read and written.  What is written for a map is    *)
(* read back as that map (FormatReadsBack).                                *)

Maps(keys) == UNION {[S -> Seq(Char)] : S \in SUBSET keys}

\* What SyncToFile may have to write.
Savable == {m \in Maps(Known \cup Extra) : \A k \in DOMAIN m \cap Known : m[k] \in Value}

\* What reading a text yields has values that are used.
ReadsValues(text) ==
  \A k \in DOMAIN ReadProperties(text) :
    ReadProperties(text)[k] \in (IF k \in Known THEN Value ELSE Seq(Char))

Readable(content) == content \in Contents /\ ReadsValues(content.text)

TypedCall(l) ==
  /\ l.at \in {"idle", "get", "set", "compare", "reset", "archive", "snapshot",
               "open", "write", "rename"}
  /\ l.req \in Request /\ l.before \in Value /\ l.updated \subseteq Known
  /\ l.props \in Savable
  /\ l.answer \in {"none", "200", "404", "archive failed", "sync failed"}
  /\ l.old \in [Known -> Value]
  /\ l.at \in {"set", "compare"} => l.req.body # <<>>
  /\ l.at = "compare" => Head(l.req.body).name \in Known

FormatInv ==
  /\ StoreShape
  /\ configs \in [Known -> Value]
  /\ fileExtras \in Maps(Extra)
  /\ \A i \in DOMAIN inodes : Readable(inodes[i])
  /\ \A c \in Client : TypedCall(call[c])

LEMMA Unreadable == Readable(Empty) /\ Readable(Mixed)
<1>1. ReadsValues(<<>>)
  BY NothingIsRead DEF ReadsValues
<1>. QED  BY <1>1 DEF Readable, Contents, Empty, Mixed

LEMMA SavedIsReadable ==
  ASSUME NEW m \in Savable
  PROVE  Readable(FileOf(m)) /\ FileOf(m).text = PropertiesText(m)
         /\ ReadProperties(PropertiesText(m)) = m
<1>1. m \in Maps(Known \cup Extra)
  BY DEF Savable
<1>2. PropertiesText(m) \in Seq(Char) /\ ReadProperties(PropertiesText(m)) = m
  <2>1. Known \cup Extra \subseteq Text /\ IsFiniteSet(Known \cup Extra)
    BY ConfigAssumption
  <2>2. DOMAIN m \subseteq Known \cup Extra /\ m \in [DOMAIN m -> Text]
    BY <1>1 DEF Maps, Text
  <2>3. IsTextMap(m)
    BY <2>1, <2>2, FS_Subset DEF IsTextMap
  <2>. QED  BY <2>3, FormatReadsBack, TextTyped DEF Text
<1>3. \A k \in DOMAIN m : m[k] \in (IF k \in Known THEN Value ELSE Seq(Char))
  BY <1>1 DEF Savable, Maps
<1>4. ReadsValues(PropertiesText(m))
  BY <1>2, <1>3 DEF ReadsValues
<1>5. FileOf(m) \in Contents /\ FileOf(m).text = PropertiesText(m)
  BY <1>2 DEF FileOf, Whole, Contents
<1>. QED  BY <1>2, <1>4, <1>5 DEF Readable

LEMMA MergedIsSavable ==
  ASSUME NEW m \in [Known -> Value], NEW x \in Maps(Extra)
  PROVE  /\ Merged(m, x) \in Savable
         /\ \A k \in Known : k \in DOMAIN Merged(m, x) /\ Merged(m, x)[k] = m[k]
         /\ LoadedExtras(Merged(m, x)) = x
<1>. DEFINE S == Known \cup DOMAIN x
            g == Merged(m, x)
<1>1. DOMAIN x \subseteq Extra /\ x \in [DOMAIN x -> Seq(Char)]
  BY DEF Maps
<1>2. Value \subseteq Seq(Char) /\ Extra \cap Known = {}
  BY ConfigAssumption DEF Text
<1>3. /\ g = [k \in S |-> IF k \in Known THEN m[k] ELSE x[k]]
      /\ DOMAIN g = S /\ (\A k \in Known : g[k] = m[k]) /\ \A k \in DOMAIN x : g[k] = x[k]
  BY <1>1, <1>2 DEF Merged
<1>4. g \in [S -> Seq(Char)] /\ S \in SUBSET (Known \cup Extra)
  <2>1. \A k \in S : g[k] \in Seq(Char)
    BY <1>1, <1>2, <1>3
  <2>. QED  BY <1>1, <1>3, <2>1
<1>5. g \in Savable
  <2>. HIDE DEF g, S
  <2>1. g \in Maps(Known \cup Extra)
    BY <1>4 DEF Maps
  <2>. QED  BY <2>1, <1>3 DEF Savable
<1>6. DOMAIN g \cap Extra = DOMAIN x
  BY <1>1, <1>2, <1>3
<1>7. LoadedExtras(g) = x
  BY <1>1, <1>3, <1>6 DEF LoadedExtras
<1>. QED  BY <1>3, <1>5, <1>7

\* What a process that starts has.
LEMMA LoadedIsTyped ==
  ASSUME NEW f, \A k \in DOMAIN f : f[k] \in (IF k \in Known THEN Value ELSE Seq(Char))
  PROVE  LoadedConfigs(f) \in [Known -> Value] /\ LoadedExtras(f) \in Maps(Extra)
<1>1. LoadedConfigs(f) \in [Known -> Value]
  BY ConfigAssumption DEF LoadedConfigs
<1>2. LoadedExtras(f) \in [DOMAIN f \cap Extra -> Seq(Char)]
  BY ConfigAssumption DEF LoadedExtras
<1>3. DOMAIN f \cap Extra \in SUBSET Extra
  OBVIOUS
<1>4. \A g, S : S \in SUBSET Extra /\ g \in [S -> Seq(Char)] => g \in Maps(Extra)
  BY DEF Maps
<1>. QED  BY <1>1, <1>2, <1>3, <1>4

LEMMA ParsedIsTyped ==
  ASSUME NEW content, Readable(content), NEW f \in Parsed(content)
  PROVE  LoadedConfigs(f) \in [Known -> Value] /\ LoadedExtras(f) \in Maps(Extra)
<1>1. \A k \in DOMAIN f : f[k] \in (IF k \in Known THEN Value ELSE Seq(Char))
  <2>1. CASE content.kind = "mixed"
    BY <2>1, ConfigAssumption DEF Parsed, Text
  <2>2. CASE content.kind # "mixed"
    BY <2>2 DEF Parsed, Readable, ReadsValues
  <2>. QED  BY <2>1, <2>2
<1>. QED  BY <1>1, LoadedIsTyped
LEMMA RequestEntries ==
  ASSUME NEW r \in Request, r.body # <<>>
  PROVE  /\ Head(r.body).name \in Known \cup {Unknown} /\ Head(r.body).value \in Value
         /\ [r EXCEPT !.body = Tail(@)] \in Request
<1>1. MaxEntries \in Nat
  BY ConfigAssumption
<1>2. r.method = "PATCH" /\ r.body \in BoundedSeq(Entry, MaxEntries)
      /\ r = [method |-> "PATCH", body |-> r.body]
  BY DEF Request
<1>3. PICK n \in 0 .. MaxEntries : r.body \in [1 .. n -> Entry]
  BY <1>2 DEF BoundedSeq, SeqOf
<1>4. r.body \in Seq(Entry) /\ Len(r.body) = n /\ n # 0
  BY <1>1, <1>3
<1>5. Head(r.body) \in Entry /\ Tail(r.body) \in [1 .. n - 1 -> Entry] /\ n - 1 \in 0 .. MaxEntries
  <2>1. \A s \in Seq(Entry) : s # <<>> =>
          /\ Head(s) \in Entry /\ Len(s) \in Nat \ {0}
          /\ Tail(s) \in Seq(Entry) /\ Len(Tail(s)) = Len(s) - 1
    OBVIOUS
  <2>2. Head(r.body) \in Entry /\ Tail(r.body) \in Seq(Entry) /\ Len(Tail(r.body)) = n - 1
    BY <1>4, <2>1
  <2>3. \A s \in Seq(Entry) : s \in [1 .. Len(s) -> Entry]
    OBVIOUS
  <2>4. Tail(r.body) \in [1 .. Len(Tail(r.body)) -> Entry]
    BY <2>2, <2>3
  <2>5. n - 1 \in 0 .. MaxEntries
    BY <1>1, <1>4
  <2>. QED  BY <2>2, <2>4, <2>5
<1>6. Tail(r.body) \in BoundedSeq(Entry, MaxEntries)
  BY <1>5 DEF BoundedSeq, SeqOf
<1>7. [r EXCEPT !.body = Tail(@)] = [method |-> "PATCH", body |-> Tail(r.body)]
  BY <1>2
<1>. QED  BY <1>5, <1>6, <1>7 DEF Entry, Request

LEMMA NoCallIsTyped ==
  ASSUME NEW m \in [Known -> Value], NEW calls, calls = [c \in Client |-> NoCall(m)]
  PROVE  \A c \in Client : TypedCall(calls[c])
<1>1. [method |-> "PATCH", body |-> <<>>] \in Request
  <2>1. <<>> \in [1 .. 0 -> Entry] /\ 0 \in 0 .. MaxEntries
    BY ConfigAssumption
  <2>2. <<>> \in BoundedSeq(Entry, MaxEntries)
    BY <2>1 DEF BoundedSeq, SeqOf
  <2>. QED  BY <2>2 DEF Request
<1>2. <<>> \in Savable
  <2>1. <<>> \in [{} -> Seq(Char)] /\ DOMAIN <<>> = {}
    OBVIOUS
  <2>2. <<>> \in Maps(Known \cup Extra)
    BY <2>1 DEF Maps
  <2>. QED  BY <2>1, <2>2 DEF Savable
<1>. SUFFICES ASSUME NEW c \in Client  PROVE TypedCall(calls[c])
  OBVIOUS
<1>3. /\ calls[c].at = "idle" /\ calls[c].updated = {} /\ calls[c].old = m
      /\ calls[c].before = DefaultValue /\ calls[c].req = [method |-> "PATCH", body |-> <<>>]
      /\ calls[c].props = <<>> /\ calls[c].answer = "none"
  BY NoCalls
<1>4. DefaultValue \in Value
  BY ConfigAssumption
<1>. QED  BY <1>1, <1>2, <1>3, <1>4 DEF TypedCall

LEMMA FormatInit == ConfigInit => FormatInv
<1>. SUFFICES ASSUME ConfigInit  PROVE FormatInv
  OBVIOUS
<1>1. PICK text \in Files :
        /\ inodes = <<Whole(text)>> /\ configs = LoadedConfigs(ReadProperties(text))
        /\ fileExtras = LoadedExtras(ReadProperties(text))
  BY DEF ConfigInit, Started
<1>2. ReadsValues(text) /\ text \in Seq(Char)
  <2>1. text \in Text /\ \A k \in Known \cap DOMAIN ReadProperties(text) :
                          ReadProperties(text)[k] \in Value
    BY ConfigAssumption
  <2>. QED  BY <2>1, ReadTyped DEF ReadsValues, Text
<1>3. configs \in [Known -> Value] /\ fileExtras \in Maps(Extra)
  BY <1>1, <1>2, LoadedIsTyped DEF ReadsValues
<1>4. \A i \in DOMAIN inodes : Readable(inodes[i])
  BY <1>1, <1>2, OneFile DEF Readable, Whole, Contents
<1>5. \A c \in Client : TypedCall(call[c])
  BY <1>3, NoCallIsTyped DEF ConfigInit, Started
<1>. QED  BY <1>3, <1>4, <1>5, ShapeInit DEF FormatInv
\* A handler's variables have their types at each of its steps.
LEMMA CallTyped ==
  ASSUME FormatInv, NEW c \in Client, BeginRequest(c) \/ HandlerStep(c)
  PROVE  TypedCall(call'[c])
<1>. USE DEF FormatInv, Fields
<1>1. CASE BeginRequest(c)
  <2>1. /\ call'[c].at \in {"get", "reset"} /\ call'[c].req \in Request
        /\ call'[c].updated = {} /\ call'[c].old = configs /\ call'[c].before = DefaultValue
        /\ call'[c].props = <<>> /\ call'[c].answer = "none"
    BY <1>1, BeginCall
  <2>2. <<>> \in Savable
    <3>. DEFINE calls == [d \in Client |-> NoCall(configs)]
    <3>1. \A d \in Client : TypedCall(calls[d])
      BY NoCallIsTyped
    <3>. QED  BY <3>1 DEF TypedCall, NoCall
  <2>. QED  BY <2>1, <2>2, ConfigAssumption DEF TypedCall
\* A step that changes at and answer only.
<1>2. ASSUME NEW p, NEW a, Goto(c, p) \/ Answer(c, a),
             p \in {"compare", "archive", "snapshot", "rename"},
             a \in {"200", "404", "archive failed", "sync failed"},
             p = "compare" => call[c].at = "set" /\ Head(call[c].req.body).name \in Known
      PROVE  TypedCall(call'[c])
  <2>1. /\ call'[c].req = call[c].req /\ call'[c].before = call[c].before
        /\ call'[c].updated = call[c].updated /\ call'[c].props = call[c].props
        /\ call'[c].old = call[c].old
        /\ \/ call'[c].at = p /\ call'[c].answer = call[c].answer
           \/ call'[c].at = "idle" /\ call'[c].answer = a
    <3>1. CASE Goto(c, p)
      BY <3>1, GotoCall
    <3>2. CASE Answer(c, a)
      BY <3>2, AnswerCall
    <3>. QED  BY <1>2, <3>1, <3>2
  <2>. QED  BY <1>2, <2>1 DEF TypedCall
<1>3. CASE GetBefore(c)
  <2>1. call[c].req.body # <<>>
    BY <1>3 DEF GetBefore
  <2>2. /\ call'[c].at = "set" /\ call'[c].before \in {DefaultValue} \cup Value
        /\ call'[c].req = call[c].req /\ call'[c].updated = call[c].updated
        /\ call'[c].props = call[c].props /\ call'[c].old = call[c].old
        /\ call'[c].answer = call[c].answer
    BY <1>3, GetCall
  <2>. QED  BY <2>1, <2>2, ConfigAssumption DEF TypedCall
<1>4. CASE Compare(c)
  <2>1. call[c].at = "compare"
    BY <1>4 DEF Compare, At
  <2>2. /\ call[c].req \in Request /\ call[c].req.body # <<>>
        /\ Head(call[c].req.body).name \in Known
    BY <2>1 DEF TypedCall
  <2>3. [call[c].req EXCEPT !.body = Tail(@)] \in Request
    BY <2>2, RequestEntries
  <2>4. call'[c].req = [call[c].req EXCEPT !.body = Tail(@)]
    <3>1. /\ call'[c].req.method = call[c].req.method
          /\ call'[c].req.body = Tail(call[c].req.body)
      BY <1>4, CompareCall
    <3>2. call'[c].req = [f \in {"method", "body"} |-> call'[c].req[f]]
      BY <1>4, CompareCall DEF CallShape
    <3>3. call[c].req = [f \in {"method", "body"} |-> call[c].req[f]]
      BY DEF StoreShape, CallShape
    <3>. QED  BY <3>1, <3>2, <3>3
  <2>5. /\ call'[c].at = "get" /\ call'[c].before = call[c].before
        /\ call'[c].updated \subseteq call[c].updated \cup {Head(call[c].req.body).name}
        /\ call'[c].props = call[c].props /\ call'[c].old = call[c].old
        /\ call'[c].answer = call[c].answer
    BY <1>4, CompareCall
  <2>. QED  BY <2>2, <2>3, <2>4, <2>5 DEF TypedCall
<1>5. CASE Snapshot(c)
  <2>1. Merged(configs, fileExtras) \in Savable
    BY MergedIsSavable
  <2>2. /\ call'[c].at = "open" /\ call'[c].props = Merged(configs, fileExtras)
        /\ call'[c].req = call[c].req /\ call'[c].before = call[c].before
        /\ call'[c].updated = call[c].updated /\ call'[c].old = call[c].old
        /\ call'[c].answer = call[c].answer
    BY <1>5, SnapshotCall
  <2>. QED  BY <2>1, <2>2 DEF TypedCall
<1>6. CASE Open(c)
  <2>1. /\ call'[c].at = "write" /\ call'[c].props = call[c].props
        /\ call'[c].req = call[c].req /\ call'[c].before = call[c].before
        /\ call'[c].updated = call[c].updated /\ call'[c].old = call[c].old
        /\ call'[c].answer = call[c].answer
    BY <1>6, OpenCall
  <2>. QED  BY <2>1 DEF TypedCall
<1>7. CASE Set(c)
  <2>1. CASE Head(call[c].req.body).name \in Known
    BY <1>7, <2>1, <1>2 DEF Set, EntryOf, At
  <2>2. CASE Head(call[c].req.body).name \notin Known
    <3>1. Goto(c, "archive") \/ Answer(c, "404")
      BY <1>7, <2>2 DEF Set, EntryOf
    <3>. QED  BY <3>1, <1>2
  <2>. QED  BY <2>1, <2>2
<1>8. CASE ~BeginRequest(c) /\ ~GetBefore(c) /\ ~Compare(c) /\ ~Snapshot(c) /\ ~Open(c) /\ ~Set(c)
  <2>1. PICK p \in {"archive", "snapshot", "rename"},
             a \in {"200", "archive failed", "sync failed"} : Goto(c, p) \/ Answer(c, a)
    BY <1>8 DEF HandlerStep, PatchEntriesDone, Reset, ArchiveLink, ArchiveCopy, ArchiveSameTick,
         ArchiveFails, OpenFails, Write, WriteFails, Rename, RenameFails
  <2>. QED  BY <2>1, <1>2
<1>. QED  BY <1>1, <1>3, <1>4, <1>5, <1>6, <1>7, <1>8
LEMMA FormatNext ==
  ASSUME FormatInv, [ConfigNext]_configVars
  PROVE  FormatInv'
<1>0. /\ StoreShape /\ StoreShape' /\ IsList(inodes)
      /\ configs \in [Known -> Value] /\ fileExtras \in Maps(Extra)
      /\ (\A i \in DOMAIN inodes : Readable(inodes[i])) /\ \A c \in Client : TypedCall(call[c])
  BY ShapeNext DEF FormatInv, StoreShape
\* A file that is written, or copied, is readable.
<1>. DEFINE AllReadable == \A i \in DOMAIN inodes' : Readable(inodes'[i])
<1>1. ASSUME NEW e, Readable(e), \/ inodes' = Append(inodes, e)
                                 \/ \E j \in DOMAIN inodes : inodes' = [inodes EXCEPT ![j] = e]
      PROVE  AllReadable
  <2>1. CASE inodes' = Append(inodes, e)
    BY <1>0, <1>1, <2>1, ListAppend
  <2>2. ASSUME NEW j \in DOMAIN inodes, inodes' = [inodes EXCEPT ![j] = e]  PROVE AllReadable
    BY <1>0, <1>1, <2>2, ListChange
  <2>. QED  BY <1>1, <2>1, <2>2
<1>2. ASSUME NEW c \in Client, BeginRequest(c) \/ HandlerStep(c)  PROVE FormatInv'
  <2>1. \A d \in Client : TypedCall(call'[d])
    BY <1>0, <1>2, CallTyped, OthersWait
  <2>2. configs' \in [Known -> Value] /\ fileExtras' = fileExtras
    <3>1. CASE Set(c)
      <4>1. Head(call[c].req.body).value \in Value
        BY <1>0, <3>1, RequestEntries DEF Set, At, TypedCall
      <4>. QED  BY <1>0, <3>1, <4>1 DEF Set, EntryOf
    <3>2. CASE Reset(c)
      BY <3>2, ConfigAssumption DEF Reset
    <3>3. CASE ~Set(c) /\ ~Reset(c)
      <4>1. UNCHANGED memVars
        BY <1>2, <3>3 DEF BeginRequest, HandlerStep, PatchEntriesDone, GetBefore, Compare,
             ArchiveLink, ArchiveCopy, ArchiveSameTick, ArchiveFails, Snapshot, Open, OpenFails,
             Write, WriteFails, Rename, RenameFails
      <4>. QED  BY <1>0, <4>1 DEF memVars
    <3>. QED  BY <3>1, <3>2, <3>3 DEF Set, Reset
  <2>3. \A i \in DOMAIN inodes' : Readable(inodes'[i])
    <3>0. Readable(Empty) /\ Readable(Mixed) /\ Readable(FileOf(call[c].props))
      BY <1>0, Unreadable, SavedIsReadable DEF TypedCall
    <3>1. /\ path \in DOMAIN inodes /\ tmp \in {0} \cup DOMAIN inodes
          /\ archived \in Seq(DOMAIN inodes) /\ call[c].fd \in {0} \cup DOMAIN inodes
          /\ call[c].at = "write" => call[c].fd # 0
      BY <1>0 DEF StoreShape
    <3>2. CASE UNCHANGED inodes
      BY <1>0, <3>2
    <3>3. CASE ArchiveCopy(c)
      BY <1>0, <1>1, <3>1, <3>3 DEF ArchiveCopy
    <3>4. CASE ArchiveSameTick(c)
      <4>1. archived[Len(archived)] \in DOMAIN inodes
        BY <3>1, <3>4 DEF ArchiveSameTick
      <4>. QED  BY <1>0, <1>1, <3>0, <3>1, <3>4, <4>1 DEF ArchiveSameTick
    <3>5. CASE ArchiveFails(c)
      BY <1>0, <1>1, <3>0, <3>5 DEF ArchiveFails
    <3>6. CASE Open(c)
      BY <1>1, <3>0, <3>1, <3>6 DEF Open
    <3>7. CASE Write(c) \/ WriteFails(c)
      <4>1. call[c].fd \in DOMAIN inodes
        BY <3>1, <3>7 DEF Write, WriteFails, At
      <4>2. \E e \in {FileOf(call[c].props), Empty, Mixed} :
              inodes' = [inodes EXCEPT ![call[c].fd] = e]
        BY <3>7 DEF Write, WriteFails, Overwrite
      <4>. QED  BY <1>1, <3>0, <4>1, <4>2
    <3>8. CASE ~(Write(c) \/ WriteFails(c)) /\ ~Open(c) /\ ~ArchiveFails(c)
               /\ ~ArchiveSameTick(c) /\ ~ArchiveCopy(c)
      <4>1. UNCHANGED inodes
        BY <1>2, <3>8 DEF HandlerStep, BeginRequest, PatchEntriesDone, GetBefore, Set, Compare,
             Reset, ArchiveLink, Snapshot, OpenFails, Rename, RenameFails, fsVars
      <4>. QED  BY <3>2, <4>1
    <3>. QED  BY <3>3, <3>4, <3>5, <3>6, <3>7, <3>8
  <2>. QED  BY <1>0, <2>1, <2>2, <2>3 DEF FormatInv
<1>3. CASE Restart
  <2>1. PICK f \in Parsed(inodes[path]) :
          configs' = LoadedConfigs(f) /\ fileExtras' = LoadedExtras(f)
    BY <1>3 DEF Restart
  <2>2. configs' \in [Known -> Value] /\ fileExtras' \in Maps(Extra)
    BY <1>0, <2>1, ParsedIsTyped DEF StoreShape
  <2>3. \A c \in Client : TypedCall(call'[c])
    BY <1>3, <2>2, NoCallIsTyped DEF Restart
  <2>. QED  BY <1>0, <1>3, <2>2, <2>3 DEF FormatInv, Restart, fsVars
<1>4. CASE UNCHANGED configVars
  BY <1>0, <1>4 DEF FormatInv, configVars, memVars, fsVars
<1>. QED  BY <1>2, <1>3, <1>4 DEF ConfigNext

\* The types of the maps, the files and every handler's variables are invariant
\* for any number of clients.
THEOREM TypesAreKept == ConfigSpec => []ConfigTypeOK
<1>1. ConfigInit => FormatInv
  BY FormatInit
<1>2. FormatInv /\ [ConfigNext]_configVars => FormatInv'
  BY FormatNext
<1>3. FormatInv => ConfigTypeOK
  <2>. SUFFICES ASSUME FormatInv  PROVE ConfigTypeOK
    OBVIOUS
  <2>1. \A keys, m : m \in Maps(keys) => IsMap(m, keys)
    BY DEF Maps, IsMap
  <2>2. inodes \in Seq(Contents) /\ DOMAIN inodes = 1 .. Len(inodes) /\ Len(inodes) \in Nat
    <3>1. IsList(inodes) /\ \A i \in DOMAIN inodes : inodes[i] \in Contents
      BY DEF FormatInv, StoreShape, Readable
    <3>2. {inodes[i] : i \in DOMAIN inodes} \subseteq Contents
      BY <3>1
    <3>. QED  BY <3>1, <3>2, ListAppend, SeqMonotone DEF IsList
  <2>3. \A c \in Client : CallOK(call[c])
    <3>. SUFFICES ASSUME NEW c \in Client  PROVE CallOK(call[c])
      OBVIOUS
    <3>1. /\ TypedCall(call[c]) /\ call[c].fd \in {0} \cup DOMAIN inodes
          /\ call[c].at \in {"write", "rename"} => call[c].fd # 0
      BY DEF FormatInv, StoreShape
    <3>2. IsMap(call[c].props, Known \cup Extra)
      BY <2>1, <3>1 DEF TypedCall, Savable
    <3>3. call[c].fd \in 0 .. Len(inodes)
      BY <2>2, <3>1
    <3>. QED  BY <3>1, <3>2, <3>3 DEF CallOK, TypedCall
  <2>4. IsMap(fileExtras, Extra)
    BY <2>1 DEF FormatInv
  <2>. QED  BY <2>2, <2>3, <2>4 DEF FormatInv, StoreShape, ConfigTypeOK
<1>. QED  BY <1>1, <1>2, <1>3, PTL DEF ConfigSpec
-----------------------------------------------------------------------------
(* One request at a time, with a format that reads back what it writes.    *)

\* The keys that are not configuration are those of the file.
ExtrasInFile == LoadedExtras(ReadProperties(File.text)) = fileExtras

\* Only a rename gives the file other contents, those just merged.
LEMMA FileStays ==
  ASSUME SerialInv, ~SameTick, NEW c \in Client, BeginRequest(c) \/ HandlerStep(c), ~Rename(c)
  PROVE  File' = File
<1>1. /\ IsList(inodes) /\ path \in DOMAIN inodes /\ tmp \in {0} \cup DOMAIN inodes
      /\ tmp # path /\ (call[c].at = "write" => call[c].fd = tmp)
      /\ call[c].at = "write" => tmp # 0
  BY DEF SerialInv, StoreShape, SerialFiles, SerialCall
<1>2. CASE ArchiveCopy(c) \/ ArchiveFails(c)
  <2>1. path' = path /\ (inodes' = inodes \/ \E e : inodes' = Append(inodes, e))
    BY <1>2 DEF ArchiveCopy, ArchiveFails
  <2>. QED  BY <1>1, <2>1, ListAppend DEF File
<1>3. CASE Open(c) \/ Write(c) \/ WriteFails(c)
  <2>1. /\ path' = path
        /\ \/ \E e : inodes' = Append(inodes, e)
           \/ tmp # 0 /\ \E e : inodes' = [inodes EXCEPT ![tmp] = e]
    BY <1>1, <1>3 DEF Open, Write, WriteFails, At
  <2>. QED  BY <1>1, <2>1, ListAppend, ListChange DEF File
<1>4. CASE ~(ArchiveCopy(c) \/ ArchiveFails(c)) /\ ~(Open(c) \/ Write(c) \/ WriteFails(c))
  <2>1. path' = path /\ inodes' = inodes
    BY <1>4 DEF HandlerStep, BeginRequest, PatchEntriesDone, GetBefore, Set, Compare, Reset,
         ArchiveLink, ArchiveSameTick, Snapshot, OpenFails, RenameFails, fsVars
  <2>. QED  BY <2>1 DEF File
<1>. QED  BY <1>2, <1>3, <1>4

LEMMA RenameSaves ==
  ASSUME SerialInv, NEW c \in Client, Rename(c)
  PROVE  File' = Saved(configs, fileExtras)
BY DEF SerialInv, SerialCall, Rename, At, File, Saved

\* What is saved is what a process finds that starts on the file.
LEMMA SavedIsLoaded ==
  ASSUME FormatInv, File = Saved(configs, fileExtras)
  PROVE  /\ LoadedExtras(ReadProperties(File.text)) = fileExtras
         /\ \A k \in Known \ EnvKeys : LoadedConfigs(ReadProperties(File.text))[k] = configs[k]
<1>. DEFINE m == Merged(configs, fileExtras)
<1>1. /\ m \in Savable /\ LoadedExtras(m) = fileExtras
      /\ \A k \in Known : k \in DOMAIN m /\ m[k] = configs[k]
  BY MergedIsSavable DEF FormatInv
<1>2. ReadProperties(File.text) = m
  BY <1>1, SavedIsReadable DEF Saved
<1>. QED  BY <1>1, <1>2 DEF LoadedConfigs

\* A whole file leaves a process that starts no choice.
LEMMA RestartReadsFile ==
  ASSUME SerialInv, Restart
  PROVE  /\ configs' = LoadedConfigs(ReadProperties(File.text))
         /\ fileExtras' = LoadedExtras(ReadProperties(File.text))
         /\ File' = File /\ Parsed(File) = {ReadProperties(File.text)}
<1>1. Parsed(File) = {ReadProperties(File.text)}
  BY DEF SerialInv, SerialFiles, Parsed
<1>. QED  BY <1>1 DEF Restart, File, fsVars

LEMMA ExtrasInFileNext ==
  ASSUME OneAtATime, ~SameTick, SerialInv, FormatInv, FormatInv',
         ExtrasInFile, [ConfigNext]_configVars
  PROVE  ExtrasInFile' /\ UNCHANGED fileExtras
<1>1. ASSUME NEW c \in Client, BeginRequest(c) \/ HandlerStep(c)
      PROVE  UNCHANGED fileExtras
  BY <1>1 DEF BeginRequest, HandlerStep, PatchEntriesDone, GetBefore, Set, Compare, Reset,
     ArchiveLink, ArchiveCopy, ArchiveSameTick, ArchiveFails, Snapshot, Open, OpenFails, Write,
     WriteFails, Rename, RenameFails, memVars
<1>2. ASSUME NEW c \in Client, Rename(c)  PROVE ExtrasInFile' /\ UNCHANGED fileExtras
  <2>1. UNCHANGED <<configs, fileExtras>> /\ File' = Saved(configs, fileExtras)
    BY <1>2, RenameSaves DEF Rename, memVars
  <2>2. LoadedExtras(ReadProperties(Saved(configs, fileExtras).text)) = fileExtras
    BY MergedIsSavable, SavedIsReadable DEF FormatInv, Saved
  <2>. QED  BY <2>1, <2>2 DEF ExtrasInFile
<1>3. ASSUME NEW c \in Client, BeginRequest(c) \/ HandlerStep(c), ~Rename(c)
      PROVE  ExtrasInFile' /\ UNCHANGED fileExtras
  BY <1>1, <1>3, FileStays DEF ExtrasInFile
<1>4. CASE Restart
  BY <1>4, RestartReadsFile DEF ExtrasInFile
<1>5. CASE UNCHANGED configVars
  BY <1>5 DEF ExtrasInFile, File, configVars, memVars, fsVars
<1>. QED  BY <1>2, <1>3, <1>4, <1>5 DEF ConfigNext

LEMMA ExtrasInvariant ==
  ASSUME OneAtATime, ~SameTick
  PROVE  ConfigSpec => [](SerialInv /\ FormatInv /\ ExtrasInFile)
<1>1. ConfigInit => SerialInv /\ FormatInv /\ ExtrasInFile
  <2>1. ConfigInit => ExtrasInFile
    BY DEF ConfigInit, Started, ExtrasInFile, File, Whole
  <2>. QED  BY <2>1, SerialInit, FormatInit
<1>2. SerialInv /\ FormatInv /\ ExtrasInFile /\ [ConfigNext]_configVars
        => (SerialInv /\ FormatInv /\ ExtrasInFile)'
  <2>. SUFFICES ASSUME SerialInv, FormatInv, ExtrasInFile, [ConfigNext]_configVars
                PROVE  (SerialInv /\ FormatInv /\ ExtrasInFile)'
    OBVIOUS
  <2>1. SerialInv'
    BY SerialNext
  <2>2. FormatInv'
    BY FormatNext
  <2>. QED  BY <2>1, <2>2, ExtrasInFileNext
<1>. QED  BY <1>1, <1>2, PTL DEF ConfigSpec

\* The keys of the file that are not configuration survive every request,
\* failure and crash.
THEOREM ExtrasAreKept ==
  ASSUME OneAtATime, ~SameTick
  PROVE  ConfigSpec => ExtrasKept
<1>1. /\ SerialInv /\ FormatInv /\ ExtrasInFile
      /\ (SerialInv /\ FormatInv /\ ExtrasInFile)' /\ [ConfigNext]_configVars
      => [fileExtras' = fileExtras]_configVars
  BY ExtrasInFileNext
<1>. QED  BY <1>1, ExtrasInvariant, PTL DEF ConfigSpec, ExtrasKept

\* What a request answered 200 has saved is what a process started later has,
\* but for the keys that its environment sets.
THEOREM AcknowledgedIsDurable ==
  ASSUME OneAtATime, ~SameTick
  PROVE  ConfigSpec => AcknowledgedSurvives
<1>. DEFINE Survives ==
              crashes' # crashes /\ Quiescent /\ (\E c \in Client : SavedAnswer(c))
              => \A k \in Known \ EnvKeys : configs'[k] = configs[k]
<1>1. SerialInv /\ FormatInv /\ [ConfigNext]_configVars => [Survives]_configVars
  <2>. SUFFICES ASSUME SerialInv, FormatInv, ConfigNext, crashes' # crashes, Quiescent,
                       NEW c \in Client, SavedAnswer(c), NEW k \in Known \ EnvKeys
                PROVE  configs'[k] = configs[k]
    BY DEF configVars
  <2>1. Restart
    BY DEF ConfigNext, BeginRequest, HandlerStep, PatchEntriesDone, GetBefore, Set, Compare, Reset,
       ArchiveLink, ArchiveCopy, ArchiveSameTick, ArchiveFails, Snapshot, Open, OpenFails, Write,
       WriteFails, Rename, RenameFails, history
  <2>2. File = Saved(configs, fileExtras)
    BY DEF SerialInv, SerialCall, SavedAnswer, Quiescent, At
  <2>. QED  BY <2>1, <2>2, RestartReadsFile, SavedIsLoaded
<1>. QED  BY <1>1, ExtrasInvariant, PTL DEF ConfigSpec, AcknowledgedSurvives

\* Every step of the handlers, of the archive and of a failure is one Set of a
\* key that may be set, one Reset, one Save of everything that is found again,
\* or nothing to the configuration and its file, and a process that dies,
\* wherever that is, is followed by one that has what was last saved.
THEOREM SerialStoreIsDurable ==
  ASSUME OneAtATime, ~SameTick
  PROVE  ConfigSpec => ImplementsStore
<1>1. ConfigInit => Durable!StoreInit
  BY DEF ConfigInit, Started, File, Whole, LoadedConfigs, LoadedExtras,
     Durable!StoreInit, Durable!Resumed, Durable!OthersOf
<1>2. /\ SerialInv /\ FormatInv /\ ExtrasInFile
      /\ (SerialInv /\ FormatInv /\ ExtrasInFile)' /\ [ConfigNext]_configVars
      => [Durable!StoreNext]_(Durable!storeVars)
  <2>. SUFFICES ASSUME SerialInv, FormatInv, ExtrasInFile, FormatInv', [ConfigNext]_configVars
                PROVE  [Durable!StoreNext]_(Durable!storeVars)
    OBVIOUS
  <2>1. UNCHANGED fileExtras
    BY ExtrasInFileNext
  <2>2. ASSUME NEW c \in Client, BeginRequest(c) \/ HandlerStep(c)  PROVE crashes' = crashes
    BY <2>2 DEF BeginRequest, HandlerStep, PatchEntriesDone, GetBefore, Set, Compare, Reset,
       ArchiveLink, ArchiveCopy, ArchiveSameTick, ArchiveFails, Snapshot, Open, OpenFails, Write,
       WriteFails, Rename, RenameFails, history
  <2>3. ASSUME NEW c \in Client, Set(c)  PROVE Durable!Set \/ UNCHANGED Durable!storeVars
    <3>1. File' = File /\ crashes' = crashes
      BY <2>2, <2>3, FileStays DEF HandlerStep, Set, Rename, At
    <3>2. CASE configs' = configs
      BY <2>1, <3>1, <3>2 DEF Durable!storeVars
    <3>3. CASE configs' # configs
      <4>1. PICK k \in Known \ Static : configs' = [configs EXCEPT ![k] = EntryOf(c).value]
        BY <2>3, <3>3 DEF Set
      <4>2. EntryOf(c).value \in Value
        BY <2>3, RequestEntries DEF FormatInv, TypedCall, Set, At, EntryOf
      <4>. QED  BY <2>1, <3>1, <4>1, <4>2 DEF Durable!Set
    <3>. QED  BY <3>2, <3>3
  <2>4. ASSUME NEW c \in Client, Reset(c)  PROVE Durable!Reset
    <3>1. File' = File /\ crashes' = crashes
      BY <2>2, <2>4, FileStays DEF HandlerStep, Reset, Rename, At
    <3>. QED  BY <2>1, <2>4, <3>1 DEF Reset, Durable!Reset
  <2>5. ASSUME NEW c \in Client, Rename(c)  PROVE Durable!Save
    <3>1. File' = Saved(configs, fileExtras) /\ configs' = configs /\ crashes' = crashes
      BY <2>2, <2>5, RenameSaves DEF HandlerStep, Rename, memVars
    <3>2. ReadProperties(Saved(configs, fileExtras).text) = Merged(configs, fileExtras)
      BY MergedIsSavable, SavedIsReadable DEF FormatInv, Saved
    <3>. QED  BY <2>1, <3>1, <3>2 DEF Durable!Save, Durable!Everything, Merged
  <2>6. ASSUME NEW c \in Client, BeginRequest(c) \/ HandlerStep(c),
               ~Set(c), ~Reset(c), ~Rename(c)
        PROVE  UNCHANGED Durable!storeVars
    <3>1. configs' = configs
      BY <2>6 DEF memVars, BeginRequest, HandlerStep, PatchEntriesDone, GetBefore, Compare,
         ArchiveLink, ArchiveCopy, ArchiveSameTick, ArchiveFails, Snapshot, Open, OpenFails,
         Write, WriteFails, RenameFails
    <3>. QED  BY <2>1, <2>2, <2>6, <3>1, FileStays DEF Durable!storeVars
  <2>7. ASSUME Restart  PROVE Durable!Restart
    <3>1. crashes' = crashes + 1
      BY <2>7 DEF Restart
    <3>. QED  BY <2>7, <3>1, RestartReadsFile
              DEF LoadedConfigs, LoadedExtras, Durable!Restart, Durable!Resumed, Durable!OthersOf
  <2>8. CASE UNCHANGED configVars
    BY <2>8 DEF Durable!storeVars, File, configVars, memVars, fsVars, history
  <2>. QED  BY <2>3, <2>4, <2>5, <2>6, <2>7, <2>8 DEF ConfigNext, Durable!StoreNext
<1>. QED  BY <1>1, <1>2, ExtrasInvariant, PTL DEF ConfigSpec, ImplementsStore, Durable!Store
=============================================================================
