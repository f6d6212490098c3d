---------------------------- MODULE ConfigStore ----------------------------
(***************************************************************************)
(* The ConfigManager (internal/config/config.go) and the handlers of       *)
(* /v1/config that use it (internal/server/config_handler.go), one         *)
(* goroutine per request, over a file system whose calls may fail, in a    *)
(* process that may die and be started again.                              *)
(*                                                                         *)
(* The manager locks its maps for one call at a time; neither a request    *)
(* nor SyncToFile is a critical section.  fileExtras is kept only for the  *)
(* keys that are not configuration: for the others SyncToFile overwrites   *)
(* it with configs.  Reading the configuration (GET) changes nothing and   *)
(* is left out.                                                            *)
(***************************************************************************)
EXTENDS PropertiesFile, FiniteSets

CONSTANTS
  Client,              \* the connections; each has at most one request in flight
  Files,               \* the texts of the files the process is started on
  Known,               \* the configuration keys
  Static,              \* those that requests cannot change
  Extra,               \* other keys that a configuration file may contain
  Unknown,             \* a name that is no configuration key
  Value, DefaultValue,
  EnvKeys, EnvValue,   \* the keys that the environment sets, and their value
  Failures,            \* whether system calls may fail
  SameTick,            \* whether two archives may get the same timestamp
  MaxEntries,          \* bound: the entries of a PATCH
  MaxRequests,         \* bound: the requests
  MaxCrashes           \* bound: the crashes

ASSUME ConfigAssumption ==
  /\ Static \subseteq Known /\ EnvKeys \subseteq Known
  /\ Extra \cap Known = {} /\ Unknown \notin Known
  /\ {DefaultValue, EnvValue} \subseteq Value
  /\ Files \cup Known \cup Extra \cup Value \subseteq Text /\ IsFiniteSet(Known \cup Extra)
  /\ \A text \in Files : \A k \in Known \cap DOMAIN ReadProperties(text) :
       ReadProperties(text)[k] \in Value
  /\ {Failures, SameTick} \subseteq BOOLEAN
  /\ {MaxEntries, MaxRequests, MaxCrashes} \subseteq Nat

VARIABLES
  configs,    \* the map configs
  fileExtras, \* the map fileExtras, without configuration keys
  inodes,     \* the contents of every file ever created
  path,       \* the inode of the configuration file
  tmp,        \* the inode of the temporary file, 0 if there is none
  archived,   \* the inodes in archived/, in the order of their names
  call,       \* per client, the local state of its handler
  requests, crashes,
  unremoved   \* history: the temporary files that os.Remove failed to remove

memVars == <<configs, fileExtras>>
fsVars == <<inodes, path, tmp, archived>>
history == <<requests, crashes, unremoved>>
configVars == <<memVars, fsVars, call, history>>

-----------------------------------------------------------------------------
\* The contents of a file: a text, nothing at all, or the remains of an
\* interrupted write or of two writers.
Whole(text) == [kind |-> "whole", text |-> text]
Empty == [kind |-> "empty", text |-> <<>>]
Mixed == [kind |-> "mixed", text |-> <<>>]

Contents == [kind : {"whole"}, text : Seq(Char)] \cup {Empty, Mixed}

\* What parsing may yield; the lines of a mixed file may be anything.
Parsed(content) ==
  IF content.kind = "mixed" THEN UNION {[S -> Value] : S \in SUBSET (Known \cup Extra)}
  ELSE {ReadProperties(content.text)}

\* Mutant: the environment first, then the file.
LoadedEnvFirst(f) ==
  [k \in Known |-> IF k \in DOMAIN f THEN f[k]
                   ELSE IF k \in EnvKeys THEN EnvValue ELSE DefaultValue]

\* LoadFromFile over the defaults, then LoadFromEnv.
LoadedConfigs(f) ==
  [k \in Known |-> IF k \in EnvKeys THEN EnvValue
                   ELSE IF k \in DOMAIN f THEN f[k] ELSE DefaultValue]
LoadedExtras(f) == [k \in DOMAIN f \cap Extra |-> f[k]]

\* What SyncToFile writes: every configuration key, and the other keys.
Merged(c, x) == [k \in Known \cup DOMAIN x |-> IF k \in Known THEN c[k] ELSE x[k]]
FileOf(props) == Whole(PropertiesText(props))
Saved(c, x) == FileOf(Merged(c, x))

Entry == [name : Known \cup {Unknown}, value : Value]
Request ==
  [method : {"PATCH"}, body : BoundedSeq(Entry, MaxEntries)]
  \cup {[method |-> "DELETE", body |-> <<>>]}

\* A map of some of the keys.
IsMap(f, keys) == DOMAIN f \subseteq keys /\ \A k \in DOMAIN f : f[k] \in Seq(Char)

\* The local variables of a handler: where it is, the request with the entries
\* still to do, the value before Set, the keys found to have changed, what
\* SyncToFile writes and the inode it has open, and how the request was
\* answered.  old remembers configs as it was when the request began.
CallOK(l) ==
  /\ l.at \in {"idle", "get", "set", "compare", "reset", "archive", "snapshot",
               "open", "write", "rename"}
  /\ l.req \in Request /\ l.before \in Value /\ l.updated \subseteq Known
  /\ IsMap(l.props, Known \cup Extra)
  /\ l.fd \in 0 .. Len(inodes) /\ (l.at \in {"write", "rename"} => l.fd # 0)
  /\ l.answer \in {"none", "200", "404", "archive failed", "sync failed"}
  /\ l.old \in [Known -> Value]

NoCall(m) ==
  [at |-> "idle", req |-> [method |-> "PATCH", body |-> <<>>], before |-> DefaultValue,
   updated |-> {}, props |-> <<>>, fd |-> 0, answer |-> "none", old |-> m]

-----------------------------------------------------------------------------
\* main: the process starts on a configuration file.
Started ==
  /\ \E text \in Files :
       /\ inodes = <<Whole(text)>>
       /\ configs = LoadedConfigs(ReadProperties(text))
       /\ fileExtras = LoadedExtras(ReadProperties(text))
  /\ path = 1 /\ tmp = 0 /\ archived = <<>>
  /\ call = [c \in Client |-> NoCall(configs)]

ConfigInit == Started /\ requests = 0 /\ crashes = 0 /\ unremoved = {}

At(c, p) == call[c].at = p

Goto(c, p) == call' = [call EXCEPT ![c].at = p]

Answer(c, a) == call' = [call EXCEPT ![c].at = "idle", ![c].answer = a]

BeginRequest(c) ==
  /\ At(c, "idle") /\ requests < MaxRequests
  /\ requests' = requests + 1
  /\ \E r \in Request :
       call' = [call EXCEPT ![c] = [NoCall(configs) EXCEPT
                  !.req = r, !.at = IF r.method = "PATCH" THEN "get" ELSE "reset"]]
  /\ UNCHANGED <<memVars, fsVars, crashes, unremoved>>

-----------------------------------------------------------------------------
(* Patch.  Each entry is read, set and read again, under the lock each     *)
(* time but not from one to the next.                                      *)

EntryOf(c) == Head(call[c].req.body)

\* No entry is left: nothing more is done if none of them changed a value.
PatchEntriesDone(c) ==
  /\ At(c, "get") /\ call[c].req.body = <<>>
  /\ IF call[c].updated = {} THEN Answer(c, "200") ELSE Goto(c, "archive")
  /\ UNCHANGED <<memVars, fsVars, history>>

GetBefore(c) ==
  /\ At(c, "get") /\ call[c].req.body # <<>>
  /\ LET k == EntryOf(c).name
         v == IF k \in Known THEN configs[k] ELSE DefaultValue
     IN  call' = [call EXCEPT ![c].at = "set", ![c].before = v]
  /\ UNCHANGED <<memVars, fsVars, history>>

\* Set: a static key is skipped in silence; an unknown one ends the request,
\* with the entries before it in effect.
Set(c) ==
  /\ At(c, "set")
  /\ LET k == EntryOf(c).name
     IN  IF k \notin Known
           THEN Answer(c, "404") /\ UNCHANGED configs
           ELSE /\ Goto(c, "compare")
                /\ configs' = IF k \in Static THEN configs
                              ELSE [configs EXCEPT ![k] = EntryOf(c).value]
  /\ UNCHANGED <<fileExtras, fsVars, history>>

\* Mutant: only the last changed key is remembered, as changed or not.
CompareLastOnly(c) ==
  /\ At(c, "compare")
  /\ LET k == EntryOf(c).name
         u == IF configs[k] # call[c].before THEN {k} ELSE {}
     IN  call' = [call EXCEPT ![c].at = "get", ![c].req.body = Tail(@), ![c].updated = u]
  /\ UNCHANGED <<memVars, fsVars, history>>

Compare(c) ==
  /\ At(c, "compare")
  /\ LET k == EntryOf(c).name
         u == IF configs[k] # call[c].before THEN {k} ELSE {}
     IN  call' = [call EXCEPT ![c].at = "get", ![c].req.body = Tail(@), ![c].updated = @ \cup u]
  /\ UNCHANGED <<memVars, fsVars, history>>

-----------------------------------------------------------------------------
\* DeleteAll begins with Reset: defaults, static keys included, while the keys
\* that are not configuration are preserved.
Reset(c) ==
  /\ At(c, "reset")
  /\ configs' = [k \in Known |-> DefaultValue]
  /\ Goto(c, "archive")
  /\ UNCHANGED <<fileExtras, fsVars, history>>

-----------------------------------------------------------------------------
(* Archive and SyncToFile, which both handlers end with.                   *)

\* Mutant: the archive is skipped when there already is one.
ArchiveOnce(c) ==
  /\ At(c, "archive")
  /\ archived' = IF archived = <<>> THEN <<path>> ELSE archived
  /\ Goto(c, "snapshot")
  /\ UNCHANGED <<memVars, inodes, path, tmp, history>>

\* The file gets a second name in archived/.
ArchiveLink(c) ==
  /\ At(c, "archive")
  /\ archived' = Append(archived, path)
  /\ Goto(c, "snapshot")
  /\ UNCHANGED <<memVars, inodes, path, tmp, history>>

\* Hard links do not work here: it is copied to a new file.
ArchiveCopy(c) ==
  /\ At(c, "archive") /\ Failures
  /\ inodes' = Append(inodes, inodes[path])
  /\ archived' = Append(archived, Len(inodes'))
  /\ Goto(c, "snapshot")
  /\ UNCHANGED <<memVars, path, tmp, history>>

\* The name is taken by the last archive: the file is copied over it.  Opening
\* that name truncates it, and with it the file if it is still its link.
ArchiveSameTick(c) ==
  /\ At(c, "archive") /\ SameTick /\ archived # <<>>
  /\ LET last == archived[Len(archived)]
     IN  inodes' = [inodes EXCEPT ![last] = IF last = path THEN Empty ELSE inodes[path]]
  /\ Goto(c, "snapshot")
  /\ UNCHANGED <<memVars, path, tmp, archived, history>>

\* An archive that could not be made may be left there incomplete.
ArchiveFails(c) ==
  /\ At(c, "archive") /\ Failures
  /\ \/ UNCHANGED <<inodes, archived>>
     \/ \E content \in {Empty, Mixed} : /\ inodes' = Append(inodes, content)
                                      /\ archived' = Append(archived, Len(inodes'))
  /\ Answer(c, "archive failed")
  /\ UNCHANGED <<memVars, path, tmp, history>>

\* The maps are merged under the read lock, which is then released.
Snapshot(c) ==
  /\ At(c, "snapshot")
  /\ call' = [call EXCEPT ![c].at = "open", ![c].props = Merged(configs, fileExtras)]
  /\ UNCHANGED <<memVars, fsVars, history>>

\* Mutant: the file is written in place.
OpenInPlace(c) ==
  /\ At(c, "open")
  /\ inodes' = [inodes EXCEPT ![path] = Empty]
  /\ tmp' = path
  /\ call' = [call EXCEPT ![c].at = "write", ![c].fd = tmp']
  /\ UNCHANGED <<memVars, path, archived, history>>

\* Mutant: the writer keeps the descriptor that it had before.
OpenForgetsFile(c) ==
  /\ At(c, "open")
  /\ inodes' = Append(inodes, Empty) /\ tmp' = Len(inodes')
  /\ call' = [call EXCEPT ![c].at = "write"]
  /\ UNCHANGED <<memVars, path, archived, history>>

\* The temporary file has one name for all writers; an existing one is
\* truncated and shared.
Open(c) ==
  /\ At(c, "open")
  /\ IF tmp = 0
       THEN inodes' = Append(inodes, Empty) /\ tmp' = Len(inodes')
       ELSE inodes' = [inodes EXCEPT ![tmp] = Empty] /\ tmp' = tmp
  /\ call' = [call EXCEPT ![c].at = "write", ![c].fd = tmp']
  /\ UNCHANGED <<memVars, path, archived, history>>

OpenFails(c) ==
  /\ At(c, "open") /\ Failures
  /\ Answer(c, "sync failed")
  /\ UNCHANGED <<memVars, fsVars, history>>

\* The open file is written from its beginning, over what another writer may
\* have left in it; the end of a longer text stays.
Overwrite(content, new) == IF content \in {Empty, new} THEN {new} ELSE {new, Mixed}

Write(c) ==
  /\ At(c, "write")
  /\ \E content \in Overwrite(inodes[call[c].fd], FileOf(call[c].props)) :
       inodes' = [inodes EXCEPT ![call[c].fd] = content]
  /\ Goto(c, "rename")
  /\ UNCHANGED <<memVars, path, tmp, archived, history>>

\* The temporary name is removed, whichever file it stands for.  The error of
\* the removal is dropped: if it fails the file stays, for the next writer.
RemoveTmp ==
  \/ tmp' = 0 /\ UNCHANGED unremoved
  \/ /\ Failures /\ tmp # 0
     /\ tmp' = tmp /\ unremoved' = unremoved \cup {tmp}

\* Mutant: a failed write does not remove the temporary file.
WriteFailsKeepsTmp(c) ==
  /\ At(c, "write") /\ Failures
  /\ \E content \in {Empty, Mixed} : inodes' = [inodes EXCEPT ![call[c].fd] = content]
  /\ Answer(c, "sync failed")
  /\ UNCHANGED <<memVars, tmp, path, archived, history>>

\* The write or the close fails, with part of the text written.
WriteFails(c) ==
  /\ At(c, "write") /\ Failures
  /\ \E content \in {Empty, Mixed} : inodes' = [inodes EXCEPT ![call[c].fd] = content]
  /\ RemoveTmp
  /\ Answer(c, "sync failed")
  /\ UNCHANGED <<memVars, path, archived, requests, crashes>>

\* The temporary name is renamed to the file's, whoever wrote what it names.
\* The reload hooks that Patch fires then are none: the program registers none.
Rename(c) ==
  /\ At(c, "rename") /\ tmp # 0
  /\ path' = tmp /\ tmp' = 0
  /\ Answer(c, "200")
  /\ UNCHANGED <<memVars, inodes, archived, history>>

\* Mutant: a rename that failed is tried again.
RenameRetries(c) ==
  /\ At(c, "rename") /\ (Failures \/ tmp = 0)
  /\ Goto(c, "rename")
  /\ UNCHANGED <<memVars, fsVars, history>>

\* It may be gone, renamed or removed by another request.
RenameFails(c) ==
  /\ At(c, "rename") /\ (Failures \/ tmp = 0)
  /\ RemoveTmp
  /\ Answer(c, "sync failed")
  /\ UNCHANGED <<memVars, inodes, path, archived, requests, crashes>>

-----------------------------------------------------------------------------
\* Mutant: the process resumes with the environment's values only.
RestartWithoutFile ==
  /\ crashes < MaxCrashes
  /\ crashes' = crashes + 1
  /\ configs' = LoadedConfigs(<<>>)
  /\ call' = [c \in Client |-> NoCall(configs')]
  /\ UNCHANGED <<fileExtras, fsVars, requests, unremoved>>

\* The process dies between two steps of whatever it was doing, and another
\* one starts on the files as they are.
Restart ==
  /\ crashes < MaxCrashes
  /\ crashes' = crashes + 1
  /\ \E f \in Parsed(inodes[path]) :
       configs' = LoadedConfigs(f) /\ fileExtras' = LoadedExtras(f)
  /\ call' = [c \in Client |-> NoCall(configs')]
  /\ UNCHANGED <<fsVars, requests, unremoved>>

HandlerStep(c) ==
  \/ PatchEntriesDone(c) \/ GetBefore(c) \/ Set(c) \/ Compare(c)
  \/ Reset(c)
  \/ ArchiveLink(c) \/ ArchiveCopy(c) \/ ArchiveSameTick(c) \/ ArchiveFails(c)
  \/ Snapshot(c)
  \/ Open(c) \/ OpenFails(c) \/ Write(c) \/ WriteFails(c) \/ Rename(c) \/ RenameFails(c)

ConfigNext == (\E c \in Client : BeginRequest(c) \/ HandlerStep(c)) \/ Restart

\* A handler's goroutine is scheduled and its system calls return.  Nobody is
\* bound to send a request, and the process need not die.
ConfigSpec ==
  ConfigInit /\ [][ConfigNext]_configVars /\ \A c \in Client : WF_configVars(HandlerStep(c))

-----------------------------------------------------------------------------
File == inodes[path]

ConfigTypeOK ==
  /\ configs \in [Known -> Value]
  /\ IsMap(fileExtras, Extra)
  /\ inodes \in Seq(Contents)
  /\ path \in DOMAIN inodes
  /\ tmp \in {0} \cup DOMAIN inodes
  /\ archived \in Seq(DOMAIN inodes)
  /\ unremoved \subseteq DOMAIN inodes
  /\ \A c \in Client : CallOK(call[c])

(***************************************************************************)
(* "Uses atomic write (temp file + rename) to avoid half-written files":   *)
(* the configuration file is complete, wherever a crash happens.           *)
(***************************************************************************)
FileWhole == File.kind = "whole"

\* Requests answered 200 that changed a value saved it: when none is
\* running, and none failed, the file is what the manager would write.
Quiescent == \A c \in Client : At(c, "idle")

SavedAnswer(c) ==
  call[c].answer = "200" /\ (configs # call[c].old \/ call[c].req.method = "DELETE")

SavedWhenAnswered ==
  /\ Quiescent
  /\ \A c \in Client : call[c].answer \in {"none", "200"}
  /\ \E c \in Client : SavedAnswer(c)
  => File = Saved(configs, fileExtras)

\* What was saved before a 200 is what a process started later has, but for the
\* keys that its environment sets.
AcknowledgedSurvives ==
  [][crashes' # crashes /\ Quiescent /\ (\E c \in Client : SavedAnswer(c))
     => \A k \in Known \ EnvKeys : configs'[k] = configs[k]]_configVars

\* Once every request is answered no temporary file is left, but one that could
\* not be removed, unless the process died while it was writing one: whoever
\* was the last to use the name has renamed the file or tried to remove it.
NoTmpLeft == crashes = 0 /\ Quiescent => tmp \in {0} \cup unremoved

\* A configuration file is replaced only when its contents are in the archive.
ReplacedIsArchived ==
  [][path' # path => \E k \in DOMAIN archived : inodes[archived[k]] = File]_configVars

\* Keys that are not configuration survive every PATCH, DELETE and restart.
ExtrasKept == [][fileExtras' = fileExtras]_configVars

\* Every request is answered unless the process dies.
RequestsAnswered ==
  \A c \in Client : ~At(c, "idle") ~> At(c, "idle")

Durable == INSTANCE DurableConfig WITH
  Reads <- LAMBDA content : ReadProperties(content.text), Written <- Saved,
  memory <- configs, others <- fileExtras, file <- File, restarts <- crashes

\* With one request at a time, the steps of the handlers, of SyncToFile and of
\* the archive are a Set, a Reset or a Save of the durable store, or nothing to
\* it, and a process that dies anywhere resumes from the last Save.
ImplementsStore == Durable!Store

=============================================================================
