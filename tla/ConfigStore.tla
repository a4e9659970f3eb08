----------------------------- MODULE ConfigStore -----------------------------
(***************************************************************************)
(* The configuration in memory and its file, internal/config/config.go,    *)
(* with the admin handlers that change them (PUT /api/providers,           *)
(* /api/access-tokens, /api/clients and POST /api/reload).                 *)
(*                                                                         *)
(* The in-memory copy is guarded by a lock; the file is guarded by nothing.*)
(* A save reads the file, sets one field, truncates the file, writes it,   *)
(* and then sets the field in memory, twice: once in config.Save* and once *)
(* in the handler, by Config.Replace*.  A reload reads the file and then   *)
(* replaces every field of the memory.  The steps of concurrent handlers   *)
(* interleave.  The payload of a save has passed validation already: one   *)
(* that has not changes nothing.                                           *)
(***************************************************************************)
EXTENDS Naturals

CONSTANTS
    Admins,             \* handlers of admin requests
    Duties,             \* for each of them, the fields it saves
    Values,             \* values of a field, Nothing among them
    Nothing,            \* the empty list
    DefaultProviders,   \* what load() puts in place of an empty provider list
    EnvTokens,          \* the tokens of ACCESS_TOKENS, or NotSet
    NotSet,
    Absent,             \* there is no file
    Empty,              \* the file was truncated and not yet written
    Garbled,            \* the file does not parse
    InitialFile,        \* the file the process finds when it is first started
    MaxOperations,      \* bound: saves and reloads begun
    MaxCrashes          \* bound: times the process is killed

Fields == {"providers", "access_tokens", "clients"}
Content == [Fields -> Values]
Unreadable == {Empty, Garbled}

ASSUME ValuesAssumption == {Nothing, DefaultProviders} \subseteq Values
ASSUME DutiesAssumption == Duties \in [Admins -> SUBSET Fields]
ASSUME EnvAssumption == EnvTokens \in Values \cup {NotSet}
ASSUME FileAssumption ==
    /\ Absent # Empty /\ Absent # Garbled /\ Empty # Garbled
    /\ {Absent, Empty, Garbled} \cap Content = {}
    /\ InitialFile \in Content \cup {Absent}
ASSUME StoreBoundsAssumption == MaxOperations \in Nat /\ MaxCrashes \in Nat

VARIABLES
    file,       \* the file at CONFIG_PATH
    memory,     \* config.current
    pc,         \* where each handler is
    field,      \* the field each handler saves
    buffer,     \* the content each handler is about to write or install
    operations, \* saves and reloads begun
    crashes,    \* times the process was killed
    acked,      \* history: the last value acknowledged for each field, or NotSet
    unsure,     \* history: for each field, the values of saves cut short since then
    whole,      \* history: the file as it was before it was last truncated
    savesAlone, \* history: no save met another
    allAlone    \* history: no operation met another

history == <<acked, unsure, whole, savesAlone, allAlone>>
vars == <<file, memory, pc, field, buffer, operations, crashes, history>>

Places == {"idle", "truncate", "write", "install", "replace", "reload"}
Saving == {"truncate", "write", "install", "replace"}
Opened == {"write", "install", "replace"}   \* the file truncated, not answered yet
Blank == [f \in Fields |-> Nothing]
Idle(a) == pc[a] = "idle"

Goto(a, place) == pc' = [pc EXCEPT ![a] = place]

(***************************************************************************)
(* No action uses a definition whose name begins with Mutant: each is a    *)
(* plausible slip in the one that follows it, kept to show which property  *)
(* would notice.                                                           *)
(***************************************************************************)
MutantLoaded(c) == [f \in Fields |-> IF c \in Content THEN c[f] ELSE NotSet]

(***************************************************************************)
(* load(): a file that is absent or does not parse counts as blank; the    *)
(* environment overrides the tokens; no providers means the default ones.  *)
(***************************************************************************)
Loaded(c) ==
    LET read == IF c \in Content THEN c ELSE Blank
    IN  [f \in Fields |->
           CASE f = "access_tokens" /\ EnvTokens # NotSet -> EnvTokens
             [] f = "providers" /\ read[f] = Nothing -> DefaultProviders
             [] OTHER -> read[f]]

Init == /\ file = InitialFile
        /\ memory = Loaded(InitialFile)
        /\ pc = [a \in Admins |-> "idle"]
        /\ field = [a \in Admins |-> NotSet]
        /\ buffer = [a \in Admins |-> Blank]
        /\ operations = 0
        /\ crashes = 0
        /\ acked = [f \in Fields |-> NotSet]
        /\ unsure = [f \in Fields |-> {}]
        /\ whole = InitialFile
        /\ savesAlone = TRUE
        /\ allAlone = TRUE

(***************************************************************************)
(* The bound on operations, and the history of their overlaps.             *)
(***************************************************************************)
Begun == /\ operations < MaxOperations
         /\ operations' = operations + 1
         /\ allAlone' = (allAlone /\ \A b \in Admins : Idle(b))

(***************************************************************************)
(* The handler answers: its buffer is gone.                                *)
(***************************************************************************)
Return(a) == /\ Goto(a, "idle")
             /\ field' = [field EXCEPT ![a] = NotSet]
             /\ buffer' = [buffer EXCEPT ![a] = Blank]

MutantParses(c) == TRUE

(***************************************************************************)
(* A save refuses a file that does not parse, which load() takes for blank.*)
(***************************************************************************)
Parses(c) == c \notin Unreadable

(***************************************************************************)
(* Save*: read the file and change one field of what it says.              *)
(***************************************************************************)
Merged(f, v) == [IF file \in Content THEN file ELSE Blank EXCEPT ![f] = v]

SaveRead(a, f, v) ==
    /\ Idle(a)
    /\ Parses(file)
    /\ Begun
    /\ buffer' = [buffer EXCEPT ![a] = Merged(f, v)]
    /\ field' = [field EXCEPT ![a] = f]
    /\ savesAlone' = (savesAlone /\ \A b \in Admins : pc[b] \notin Saving)
    /\ Goto(a, "truncate")
    /\ UNCHANGED <<file, memory, crashes, acked, unsure, whole>>

(***************************************************************************)
(* os.WriteFile opens the file with O_TRUNC; the open may fail and then    *)
(* leaves it alone.                                                        *)
(***************************************************************************)
Truncate(a) ==
    /\ pc[a] = "truncate"
    /\ file' = Empty
    /\ whole' = IF file \in Unreadable THEN whole ELSE file
    /\ Goto(a, "write")
    /\ UNCHANGED <<memory, field, buffer, operations, crashes, acked, unsure,
                   savesAlone, allAlone>>

OpenFails(a) ==
    /\ pc[a] = "truncate"
    /\ Return(a)
    /\ UNCHANGED <<file, memory, operations, crashes, history>>

(***************************************************************************)
(* Then it writes from the start of the file.  Where another handler wrote *)
(* in between, a tail of the longer content may stick out of the shorter.  *)
(***************************************************************************)
Overwritten(c) == IF file = Empty \/ file = c THEN {c} ELSE {c, Garbled}

Write(a) ==
    /\ pc[a] = "write"
    /\ file' \in Overwritten(buffer[a])
    /\ Goto(a, "install")
    /\ UNCHANGED <<memory, field, buffer, operations, crashes, history>>

(***************************************************************************)
(* The saves of the handlers in S end without an answer of ok.             *)
(***************************************************************************)
CutShort(S) ==
    [f \in Fields |-> unsure[f] \cup {buffer[a][f] : a \in {b \in S : field[b] = f}}]

(***************************************************************************)
(* A write that fails (the disk is full) fails the save.  What it leaves   *)
(* of the file does not parse, unless all but the last newline got there   *)
(* or only the closing of the file failed.                                 *)
(***************************************************************************)
WriteFails(a) ==
    /\ pc[a] = "write"
    /\ file' \in Unreadable \cup {buffer[a]}
    /\ unsure' = CutShort({a})
    /\ Return(a)
    /\ UNCHANGED <<memory, operations, crashes, acked, whole, savesAlone, allAlone>>

MutantWithField(a) == memory

(***************************************************************************)
(* The field in memory, set under the lock by Save* ...                    *)
(***************************************************************************)
WithField(a) == [memory EXCEPT ![field[a]] = buffer[a][field[a]]]

Install(a) ==
    /\ pc[a] = "install"
    /\ memory' = WithField(a)
    /\ Goto(a, "replace")
    /\ UNCHANGED <<file, field, buffer, operations, crashes, history>>

(***************************************************************************)
(* ... and again by Config.Replace*, before the handler answers ok.        *)
(***************************************************************************)
Replace(a) ==
    /\ pc[a] = "replace"
    /\ memory' = WithField(a)
    /\ acked' = [acked EXCEPT ![field[a]] = buffer[a][field[a]]]
    /\ unsure' = [unsure EXCEPT ![field[a]] = {}]
    /\ Return(a)
    /\ UNCHANGED <<file, operations, crashes, whole, savesAlone, allAlone>>

(***************************************************************************)
(* Reload: load() outside the lock, then every field under it.             *)
(***************************************************************************)
ReloadRead(a) ==
    /\ Idle(a)
    /\ Begun
    /\ buffer' = [buffer EXCEPT ![a] = Loaded(file)]
    /\ Goto(a, "reload")
    /\ UNCHANGED <<file, memory, field, crashes, acked, unsure, whole, savesAlone>>

ReloadInstall(a) ==
    /\ pc[a] = "reload"
    /\ memory' = buffer[a]
    /\ Return(a)
    /\ UNCHANGED <<file, operations, crashes, history>>

(***************************************************************************)
(* The process is killed and started again.  A write it was in the middle  *)
(* of may have reached the disk in part.                                   *)
(***************************************************************************)
Crash ==
    /\ crashes < MaxCrashes
    /\ crashes' = crashes + 1
    /\ file' \in {file} \cup {Garbled : a \in {b \in Admins : pc[b] = "write"}}
    /\ memory' = Loaded(file')
    /\ unsure' = CutShort({a \in Admins : pc[a] \in Opened})
    /\ pc' = [a \in Admins |-> "idle"]
    /\ field' = [a \in Admins |-> NotSet]
    /\ buffer' = [a \in Admins |-> Blank]
    /\ UNCHANGED <<operations, acked, whole, savesAlone, allAlone>>

Next == \/ \E a \in Admins :
              \/ \E f \in Duties[a], v \in Values : SaveRead(a, f, v)
              \/ Truncate(a) \/ OpenFails(a)
              \/ Write(a) \/ WriteFails(a)
              \/ Install(a) \/ Replace(a)
              \/ ReloadRead(a) \/ ReloadInstall(a)
        \/ Crash

Spec == Init /\ [][Next]_vars

-----------------------------------------------------------------------------
TypeOK == /\ file \in Content \cup {Absent, Empty, Garbled}
          /\ memory \in Content
          /\ pc \in [Admins -> Places]
          /\ field \in [Admins -> Fields \cup {NotSet}]
          /\ \A a \in Admins : pc[a] \in Saving => field[a] \in Fields
          /\ buffer \in [Admins -> Content]
          /\ operations \in Nat
          /\ crashes \in Nat
          /\ acked \in [Fields -> Values \cup {NotSet}]
          /\ unsure \in [Fields -> SUBSET Values]
          /\ whole \in Content \cup {Absent}
          /\ savesAlone \in BOOLEAN
          /\ allAlone \in BOOLEAN

NobodySaves == \A a \in Admins : pc[a] \notin Saving

(***************************************************************************)
(* c holds every field as it was last acknowledged, or as a later save     *)
(* that was cut short meant it to be.                                      *)
(***************************************************************************)
Holds(c) == \A f \in Fields : acked[f] # NotSet =>
               c \in Content /\ c[f] \in {acked[f]} \cup unsure[f]

(***************************************************************************)
(* As long as saves follow one another, the file holds every field as it   *)
(* was last acknowledged, whatever was saved, reloaded or failed since and *)
(* wherever the process was killed.  The one way to lose a field is to     *)
(* lose the file: a save cut short leaves it unreadable, and then no later *)
(* save is acknowledged that would start again from a blank one.           *)
(***************************************************************************)
AckedSavesDurable ==
    savesAlone /\ NobodySaves =>
       IF file \in Unreadable THEN \E f \in Fields : unsure[f] # {}
                              ELSE Holds(file)

(***************************************************************************)
(* The memory is, field by field, what the content c says or what load()   *)
(* makes of it, or it missed a value that a failed save left there.        *)
(***************************************************************************)
Follows(c) ==
    \A f \in Fields :
       \/ memory[f] = Loaded(c)[f]
       \/ c \in Content /\ (memory[f] = c[f] \/ c[f] \in unsure[f])

(***************************************************************************)
(* As long as nothing overlaps, the memory follows the file, through       *)
(* failing saves, reloads and kills; and when a save cut short has left a  *)
(* file that cannot be read, the memory still follows the one before it,   *)
(* until a reload or a restart makes it follow what is left: nothing.      *)
(***************************************************************************)
MemoryMatchesFile ==
    allAlone /\ (\A a \in Admins : Idle(a)) =>
       \/ Follows(file)
       \/ file \in Unreadable /\ Follows(whole)

(***************************************************************************)
(* config.go, SaveAccessTokens and its siblings: a save "replaces the list *)
(* in the active configuration file and updates the in-memory config".     *)
(* With nothing in flight, no save cut short and a file that parses, each  *)
(* field of the file is the one last acknowledged.                         *)
(***************************************************************************)
SavesReachFile ==
    NobodySaves /\ (\A f \in Fields : unsure[f] = {}) /\ file \in Content =>
       \A f \in Fields : acked[f] # NotSet => file[f] = acked[f]
=============================================================================
