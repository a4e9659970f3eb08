------------------------- MODULE ConfigStore_proofs -------------------------
(***************************************************************************)
(* Theorems about ConfigStore, for every set of administrators and values, *)
(* and any number of operations and crashes.                               *)
(***************************************************************************)
EXTENDS ConfigStore, TLAPS

(***************************************************************************)
(* c holds every field as it was last acknowledged, or as a save cut short *)
(* meant it, f aside.                                                      *)
(***************************************************************************)
Agrees(c, f) == \A g \in Fields \ {f} :
                   acked[g] # NotSet => c[g] \in {acked[g]} \cup unsure[g]

(***************************************************************************)
(* What a save on its own knows: its buffer agrees with what was           *)
(* acknowledged, but for its own field, and the file is what its place in  *)
(* the sequence read, truncate, write makes it.                            *)
(***************************************************************************)
SaveInOrder(a) ==
    /\ pc[a] \in Saving => Agrees(buffer[a], field[a])
    /\ pc[a] = "truncate" => file \notin Unreadable /\ Holds(file)
    /\ pc[a] = "write" => file = Empty
    /\ pc[a] \in {"install", "replace"} => file = buffer[a]

OneSaver == \A a, b \in Admins : pc[a] \in Saving /\ pc[b] \in Saving => a = b

Inv == /\ TypeOK
       /\ savesAlone => OneSaver /\ AckedSavesDurable /\ \A a \in Admins : SaveInOrder(a)

(***************************************************************************)
(* Whatever the file, loading it gives a value for every field.            *)
(***************************************************************************)
LEMMA ContentTypes ==
    /\ Blank \in Content
    /\ \A c : Loaded(c) \in Content
    /\ \A f \in Fields, v \in Values : TypeOK => Merged(f, v) \in Content
<1>1. Blank \in Content
  BY ValuesAssumption DEF Blank, Content
<1>2. ASSUME NEW c PROVE Loaded(c) \in Content
  <2> DEFINE read == IF c \in Content THEN c ELSE Blank
  <2>1. read \in Content
    BY <1>1
  <2>2. \A f \in Fields : Loaded(c)[f] \in Values
    BY <2>1, ValuesAssumption, EnvAssumption DEF Loaded, Content
  <2> QED
    BY <2>2 DEF Loaded, Content
<1>3. ASSUME NEW f \in Fields, NEW v \in Values, TypeOK PROVE Merged(f, v) \in Content
  BY <1>1, <1>3 DEF Merged, Content
<1> QED
  BY <1>1, <1>2, <1>3

(***************************************************************************)
(* At the start nothing was acknowledged and nobody saves.                 *)
(***************************************************************************)
LEMMA InitInv == Init => Inv
<1> SUFFICES ASSUME Init PROVE Inv
  OBVIOUS
<1>1. TypeOK
  BY ContentTypes, FileAssumption DEF Init, TypeOK, Places, Saving
<1>2. OneSaver /\ AckedSavesDurable /\ \A a \in Admins : SaveInOrder(a)
  BY FileAssumption DEF Init, OneSaver, AckedSavesDurable, SaveInOrder, Saving, Holds, Unreadable
<1> QED
  BY <1>1, <1>2 DEF Inv

(***************************************************************************)
(* Every step keeps every variable in its type.                            *)
(***************************************************************************)
LEMMA NextTypeOK == TypeOK /\ [Next]_vars => TypeOK'
<1> SUFFICES ASSUME TypeOK, [Next]_vars PROVE TypeOK'
  OBVIOUS
<1> USE DEF TypeOK, Places, Saving, history
<1>1. ASSUME NEW a \in Admins, NEW f \in Duties[a], NEW v \in Values, SaveRead(a, f, v)
      PROVE  TypeOK'
  <2>1. f \in Fields
    BY DutiesAssumption
  <2>2. Merged(f, v) \in Content
    BY <2>1, ContentTypes
  <2> QED
    BY <1>1, <2>1, <2>2 DEF SaveRead, Begun, Goto, Parses
<1>2. ASSUME NEW a \in Admins, Return(a)
      PROVE  /\ pc' \in [Admins -> Places]
             /\ field' \in [Admins -> Fields \cup {NotSet}]
             /\ \A b \in Admins : pc'[b] \in Saving => field'[b] \in Fields
             /\ buffer' \in [Admins -> Content]
  BY <1>2, ContentTypes DEF Return, Goto
<1>3. ASSUME NEW a \in Admins, Truncate(a) PROVE TypeOK'
  BY <1>3 DEF Truncate, Goto, Unreadable
<1>4. ASSUME NEW a \in Admins, OpenFails(a) PROVE TypeOK'
  BY <1>2, <1>4 DEF OpenFails
<1>5. ASSUME NEW a \in Admins, Write(a) PROVE TypeOK'
  BY <1>5 DEF Write, Overwritten, Goto
<1>0. ASSUME NEW S \in SUBSET Admins, \A a \in S : pc[a] \in Saving
      PROVE  CutShort(S) \in [Fields -> SUBSET Values]
  <2>1. \A a \in S : field[a] \in Fields /\ buffer[a] \in [Fields -> Values]
    BY <1>0 DEF Content
  <2>2. ASSUME NEW f \in Fields
        PROVE  unsure[f] \cup {buffer[a][f] : a \in {b \in S : field[b] = f}} \in SUBSET Values
    <3>1. \A a \in S : buffer[a][f] \in Values
      BY <2>1
    <3>2. {buffer[a][f] : a \in {b \in S : field[b] = f}} \subseteq Values
      BY <3>1
    <3> QED
      BY <3>2
  <2> QED
    BY <2>2 DEF CutShort
<1>6. ASSUME NEW a \in Admins, WriteFails(a) PROVE TypeOK'
  <2>1. CutShort({a}) \in [Fields -> SUBSET Values]
    <3>1. \A b \in {a} : pc[b] \in Saving
      BY <1>6 DEF WriteFails
    <3>2. {a} \in SUBSET Admins
      OBVIOUS
    <3> QED
      BY <1>0, <3>1, <3>2
  <2>2. file' \in Content \cup {Absent, Empty, Garbled}
    BY <1>6 DEF WriteFails, Unreadable
  <2> QED
    BY <1>2, <1>6, <2>1, <2>2 DEF WriteFails
<1>7. ASSUME NEW a \in Admins, pc[a] \in Saving
      PROVE  WithField(a) \in Content /\ buffer[a][field[a]] \in Values
  BY <1>7 DEF WithField, Content
<1>8. ASSUME NEW a \in Admins, Install(a) PROVE TypeOK'
  BY <1>7, <1>8 DEF Install, Goto
<1>9. ASSUME NEW a \in Admins, Replace(a) PROVE TypeOK'
  BY <1>2, <1>7, <1>9 DEF Replace
<1>10. ASSUME NEW a \in Admins, ReloadRead(a) PROVE TypeOK'
  BY <1>10, ContentTypes DEF ReloadRead, Begun, Goto
<1>11. ASSUME NEW a \in Admins, ReloadInstall(a) PROVE TypeOK'
  BY <1>2, <1>11 DEF ReloadInstall
<1>12. CASE Crash
  <2>1. CutShort({a \in Admins : pc[a] \in Opened}) \in [Fields -> SUBSET Values]
    BY <1>0 DEF Opened
  <2>2. Loaded(file') \in Content /\ Blank \in Content
    BY ContentTypes
  <2> QED
    BY <1>12, <2>1, <2>2 DEF Crash
<1>13. CASE UNCHANGED vars
  BY <1>13 DEF vars
<1> QED
  BY <1>1, <1>3, <1>4, <1>5, <1>6, <1>8, <1>9, <1>10, <1>11, <1>12, <1>13 DEF Next

(***************************************************************************)
(* The store's variables keep their types: what the memory holds is always *)
(* a whole configuration, even after a reload of a file that does not      *)
(* parse.                                                                  *)
(***************************************************************************)
THEOREM StoreTypeCorrect == Spec => []TypeOK
<1>1. Init => TypeOK
  BY InitInv DEF Inv
<1> QED
  BY <1>1, NextTypeOK, PTL DEF Spec

(***************************************************************************)
(* Every step keeps the order of the saves.                                *)
(***************************************************************************)
LEMMA NextInv == Inv /\ [Next]_vars => Inv'
<1> SUFFICES ASSUME Inv, [Next]_vars, savesAlone'
             PROVE  OneSaver' /\ AckedSavesDurable' /\ \A a \in Admins : SaveInOrder(a)'
  BY NextTypeOK DEF Inv
<1> USE DEF Places, Saving, history
<1>a. TypeOK /\ TypeOK'
  BY NextTypeOK DEF Inv
<1>b. savesAlone => OneSaver /\ AckedSavesDurable /\ \A a \in Admins : SaveInOrder(a)
  BY DEF Inv
<1>1. ASSUME NEW a \in Admins, NEW f \in Duties[a], NEW v \in Values, SaveRead(a, f, v)
      PROVE  OneSaver' /\ AckedSavesDurable' /\ \A b \in Admins : SaveInOrder(b)'
  <2>1. savesAlone /\ NobodySaves /\ file \notin Unreadable
    BY <1>1 DEF SaveRead, NobodySaves, Parses
  <2>2. Holds(file)
    BY <2>1, <1>b DEF AckedSavesDurable
  <2>3. /\ pc' = [pc EXCEPT ![a] = "truncate"]
        /\ field' = [field EXCEPT ![a] = f]
        /\ buffer' = [buffer EXCEPT ![a] = Merged(f, v)]
        /\ file' = file /\ acked' = acked /\ unsure' = unsure
    BY <1>1 DEF SaveRead, Goto
  <2>4. OneSaver' /\ ~NobodySaves'
    BY <2>1, <2>3, <1>a DEF OneSaver, NobodySaves, TypeOK
  <2>5. \A g \in Fields \ {f} : acked[g] # NotSet => Merged(f, v)[g] \in {acked[g]} \cup unsure[g]
    BY <2>2 DEF Merged, Content, Holds
  <2>6. SaveInOrder(a)'
    BY <2>1, <2>2, <2>3, <2>5, <1>a DEF SaveInOrder, Agrees, Holds, TypeOK
  <2>7. ASSUME NEW b \in Admins \ {a} PROVE SaveInOrder(b)'
    BY <2>1, <2>3, <1>a DEF SaveInOrder, NobodySaves, TypeOK
  <2> QED
    BY <2>4, <2>6, <2>7 DEF AckedSavesDurable
<1>2. ASSUME NEW a \in Admins, pc[a] \in Saving, savesAlone
      PROVE  /\ \A b \in Admins \ {a} : pc[b] \notin Saving
             /\ SaveInOrder(a) /\ ~NobodySaves
  BY <1>2, <1>b DEF OneSaver, NobodySaves
<1>3. ASSUME NEW a \in Admins, pc[a] \in Saving, savesAlone, NEW place \in Saving,
             pc' = [pc EXCEPT ![a] = place], SaveInOrder(a)'
      PROVE  OneSaver' /\ AckedSavesDurable' /\ \A b \in Admins : SaveInOrder(b)'
  <2>1. \A b \in Admins \ {a} : pc'[b] \notin Saving
    BY <1>2, <1>3, <1>a DEF TypeOK
  <2>2. pc'[a] \in Saving
    BY <1>3, <1>a DEF TypeOK
  <2>3. OneSaver' /\ ~NobodySaves'
    BY <2>1, <2>2 DEF OneSaver, NobodySaves
  <2>4. \A b \in Admins \ {a} : SaveInOrder(b)'
    BY <2>1 DEF SaveInOrder
  <2> QED
    BY <1>3, <2>3, <2>4 DEF AckedSavesDurable
<1>4. ASSUME NEW a \in Admins, pc[a] \in Saving, savesAlone, Goto(a, "idle"),
             IF file' \in Unreadable THEN \E f \in Fields : unsure'[f] # {} ELSE Holds(file)'
      PROVE  OneSaver' /\ AckedSavesDurable' /\ \A b \in Admins : SaveInOrder(b)'
  <2>1. \A b \in Admins : pc'[b] \notin Saving
    BY <1>2, <1>4, <1>a DEF Goto, TypeOK
  <2> QED
    BY <1>4, <2>1 DEF OneSaver, AckedSavesDurable, SaveInOrder
<1>5. ASSUME NEW a \in Admins, Truncate(a)
      PROVE  OneSaver' /\ AckedSavesDurable' /\ \A b \in Admins : SaveInOrder(b)'
  <2>1. SaveInOrder(a)'
    BY <1>2, <1>5, <1>a DEF Truncate, Goto, SaveInOrder, Agrees, TypeOK
  <2> QED
    BY <1>3, <1>5, <2>1 DEF Truncate, Goto
<1>6. ASSUME NEW a \in Admins, OpenFails(a)
      PROVE  OneSaver' /\ AckedSavesDurable' /\ \A b \in Admins : SaveInOrder(b)'
  BY <1>2, <1>4, <1>6 DEF OpenFails, Return, SaveInOrder, Holds
<1>7. ASSUME NEW a \in Admins, Write(a)
      PROVE  OneSaver' /\ AckedSavesDurable' /\ \A b \in Admins : SaveInOrder(b)'
  <2>1. file' = buffer[a]
    BY <1>2, <1>7 DEF Write, SaveInOrder, Overwritten
  <2>2. SaveInOrder(a)'
    BY <2>1, <1>2, <1>7, <1>a DEF Write, Goto, SaveInOrder, Agrees, TypeOK
  <2> QED
    BY <1>3, <1>7, <2>2 DEF Write, Goto
<1>8. ASSUME NEW a \in Admins, Install(a)
      PROVE  OneSaver' /\ AckedSavesDurable' /\ \A b \in Admins : SaveInOrder(b)'
  <2>1. SaveInOrder(a)'
    BY <1>2, <1>8, <1>a DEF Install, Goto, SaveInOrder, Agrees, TypeOK
  <2> QED
    BY <1>3, <1>8, <2>1 DEF Install, Goto
<1>9. ASSUME NEW a \in Admins, Replace(a)
      PROVE  OneSaver' /\ AckedSavesDurable' /\ \A b \in Admins : SaveInOrder(b)'
  <2>1. file' = buffer[a] /\ buffer[a] \in Content
    BY <1>2, <1>9, <1>a DEF Replace, SaveInOrder, TypeOK
  <2>2. \A f \in Fields : acked'[f] # NotSet => buffer[a][f] \in {acked'[f]} \cup unsure'[f]
    BY <1>2, <1>9, <1>a DEF Replace, SaveInOrder, Agrees, TypeOK
  <2>3. file' \notin Unreadable /\ Holds(file)'
    BY <2>1, <2>2, FileAssumption DEF Unreadable, Holds
  <2> QED
    BY <1>4, <1>9, <2>3 DEF Replace, Return
<1>c. ASSUME NEW S \in SUBSET Admins, NEW a \in S, pc[a] \in Saving, unsure' = CutShort(S)
      PROVE  /\ field[a] \in Fields /\ buffer[a][field[a]] \in unsure'[field[a]]
             /\ \A f \in Fields : unsure[f] \subseteq unsure'[f]
  BY <1>c, <1>a DEF CutShort, TypeOK
<1>d. ASSUME NEW a \in Admins, pc[a] \in Saving, savesAlone, file' = buffer[a], acked' = acked,
             buffer[a][field[a]] \in unsure'[field[a]],
             \A f \in Fields : unsure[f] \subseteq unsure'[f]
      PROVE  file' \notin Unreadable /\ Holds(file)'
  <2>1. buffer[a] \in Content /\ Agrees(buffer[a], field[a])
    BY <1>2, <1>d, <1>a DEF SaveInOrder, TypeOK
  <2>2. \A f \in Fields : acked'[f] # NotSet => buffer[a][f] \in {acked'[f]} \cup unsure'[f]
    BY <1>d, <2>1 DEF Agrees
  <2> QED
    BY <1>d, <2>1, <2>2, FileAssumption DEF Unreadable, Holds
<1>10. ASSUME NEW a \in Admins, pc[a] \notin Saving, NEW place \in Places \ Saving,
              pc' = [pc EXCEPT ![a] = place],
              \A b \in Admins \ {a} : buffer'[b] = buffer[b] /\ field'[b] = field[b],
              file' = file, acked' = acked, unsure' = unsure, savesAlone' = savesAlone
       PROVE  OneSaver' /\ AckedSavesDurable' /\ \A b \in Admins : SaveInOrder(b)'
  <2>1. \A b \in Admins : pc'[b] \in Saving <=> pc[b] \in Saving
    BY <1>10, <1>a DEF TypeOK
  <2>2. OneSaver' /\ AckedSavesDurable'
    BY <2>1, <1>b, <1>10 DEF OneSaver, AckedSavesDurable, NobodySaves, Holds
  <2>3. SaveInOrder(a)'
    BY <1>10, <1>a DEF SaveInOrder, TypeOK
  <2>4. ASSUME NEW b \in Admins \ {a} PROVE SaveInOrder(b)'
    BY <1>b, <1>10, <1>a DEF SaveInOrder, Agrees, Holds, TypeOK
  <2> QED
    BY <2>2, <2>3, <2>4
<1>11. ASSUME NEW a \in Admins, ReloadRead(a) \/ ReloadInstall(a)
       PROVE  OneSaver' /\ AckedSavesDurable' /\ \A b \in Admins : SaveInOrder(b)'
  <2>1. /\ pc[a] \notin Saving
        /\ \E place \in Places \ Saving : pc' = [pc EXCEPT ![a] = place]
    BY <1>11 DEF ReloadRead, ReloadInstall, Return, Idle, Goto
  <2>2. \A b \in Admins \ {a} : buffer'[b] = buffer[b] /\ field'[b] = field[b]
    BY <1>11, <1>a DEF ReloadRead, ReloadInstall, Return, TypeOK
  <2>3. file' = file /\ acked' = acked /\ unsure' = unsure /\ savesAlone' = savesAlone
    BY <1>11 DEF ReloadRead, ReloadInstall
  <2> QED
    BY <2>1, <2>2, <2>3, <1>10
<1>12. ASSUME NEW a \in Admins, WriteFails(a)
       PROVE  OneSaver' /\ AckedSavesDurable' /\ \A b \in Admins : SaveInOrder(b)'
  <2>1. pc[a] \in Saving /\ savesAlone /\ Goto(a, "idle") /\ acked' = acked
    BY <1>12 DEF WriteFails, Return
  <2>2. /\ field[a] \in Fields /\ buffer[a][field[a]] \in unsure'[field[a]]
        /\ \A f \in Fields : unsure[f] \subseteq unsure'[f]
    BY <1>c, <1>12, <2>1 DEF WriteFails
  <2>3. CASE file' \in Unreadable
    BY <1>4, <2>1, <2>2, <2>3
  <2>4. CASE file' = buffer[a]
    BY <1>4, <1>d, <2>1, <2>2, <2>4
  <2> QED
    BY <1>12, <2>3, <2>4 DEF WriteFails
<1>13. CASE Crash
  <2>1. savesAlone /\ acked' = acked /\ unsure' = CutShort({a \in Admins : pc[a] \in Opened})
    BY <1>13 DEF Crash
  <2>2. \A b \in Admins : pc'[b] \notin Saving
    BY <1>13 DEF Crash
  <2>3. \A f \in Fields : unsure[f] \subseteq unsure'[f]
    BY <2>1 DEF CutShort
  <2>4. ASSUME NEW a \in Admins, pc[a] \in Opened
        PROVE  field[a] \in Fields /\ buffer[a][field[a]] \in unsure'[field[a]]
    BY <1>c, <2>1, <2>4 DEF Opened
  <2>5. ASSUME NEW a \in Admins, pc[a] = "write" PROVE AckedSavesDurable'
    <3>1. file = Empty
      BY <1>2, <2>1, <2>5 DEF SaveInOrder
    <3>2. file' \in Unreadable
      BY <1>13, <3>1 DEF Crash, Unreadable
    <3> QED
      BY <2>4, <2>5, <3>2 DEF AckedSavesDurable, Opened
  <2>6. ASSUME \A a \in Admins : pc[a] # "write" PROVE AckedSavesDurable'
    <3>1. file' = file
      BY <1>13, <2>6 DEF Crash
    <3>2. ASSUME Holds(file) PROVE Holds(file)'
      BY <2>1, <2>3, <3>1, <3>2 DEF Holds
    <3>3. CASE NobodySaves
      BY <1>b, <2>1, <2>3, <3>1, <3>2, <3>3 DEF AckedSavesDurable
    <3>4. ASSUME NEW a \in Admins, pc[a] = "truncate" PROVE AckedSavesDurable'
      BY <1>2, <2>1, <3>1, <3>2, <3>4 DEF SaveInOrder, AckedSavesDurable
    <3>5. ASSUME NEW a \in Admins, pc[a] \in {"install", "replace"} PROVE AckedSavesDurable'
      <4>1. file' = buffer[a]
        BY <1>2, <2>1, <3>1, <3>5 DEF SaveInOrder
      <4> QED
        BY <1>d, <2>1, <2>3, <2>4, <3>5, <4>1 DEF AckedSavesDurable, Opened
    <3> QED
      BY <2>6, <3>3, <3>4, <3>5 DEF NobodySaves
  <2> QED
    BY <2>2, <2>5, <2>6 DEF OneSaver, SaveInOrder
<1>14. CASE UNCHANGED vars
  BY <1>b, <1>14 DEF vars, OneSaver, AckedSavesDurable, NobodySaves, SaveInOrder, Agrees, Holds
<1> QED
  BY <1>1, <1>5, <1>6, <1>7, <1>8, <1>9, <1>11, <1>12, <1>13, <1>14 DEF Next

(***************************************************************************)
(* While saves follow one another, an acknowledged save is in the file for *)
(* good: later saves, failing ones, reloads and kills at any step of them  *)
(* keep it there, or leave a file that nothing is saved to any more.       *)
(***************************************************************************)
THEOREM SerialSavesDurable == Spec => []AckedSavesDurable
<1>1. Inv => (savesAlone => AckedSavesDurable)
  BY DEF Inv
<1>2. (savesAlone => AckedSavesDurable) => AckedSavesDurable
  BY DEF AckedSavesDurable
<1> QED
  BY <1>1, <1>2, InitInv, NextInv, PTL DEF Spec

-----------------------------------------------------------------------------
(***************************************************************************)
(* The memory m follows the content c in field f, where the saves that     *)
(* were cut short are those of u.                                          *)
(***************************************************************************)
Matches(m, u, c, f) == \/ m[f] = Loaded(c)[f]
                       \/ c \in Content /\ (m[f] = c[f] \/ c[f] \in u[f])

MatchesAll(m, u, c) == \A f \in Fields : Matches(m, u, c, f)

(***************************************************************************)
(* What an operation on its own knows of the memory.  A save that has not  *)
(* reached the memory leaves its own field open there, and until it        *)
(* truncates the file it may still give up; a reload is about to install   *)
(* what the file says.                                                     *)
(***************************************************************************)
AloneInOrder(a) ==
    /\ pc[a] \in Saving =>
          \A f \in Fields \ {field[a]} : Matches(memory, unsure, buffer[a], f)
    /\ pc[a] = "truncate" => file \notin Unreadable /\ MatchesAll(memory, unsure, file)
    /\ pc[a] = "write" => file = Empty /\ MatchesAll(memory, unsure, whole)
    /\ pc[a] \in {"install", "replace"} => file = buffer[a]
    /\ pc[a] = "reload" => buffer[a] = Loaded(file)

OneBusy == \A a, b \in Admins : ~Idle(a) /\ ~Idle(b) => a = b

NobodyBusy == \A a \in Admins : Idle(a)

Following == \/ MatchesAll(memory, unsure, file)
             \/ file \in Unreadable /\ MatchesAll(memory, unsure, whole)

AloneInv == allAlone => /\ OneBusy
                        /\ NobodyBusy => Following
                        /\ \A a \in Admins : AloneInOrder(a)

(***************************************************************************)
(* A file changed in one field loads as it did in the others.              *)
(***************************************************************************)
LEMMA MergedLoads ==
    ASSUME TypeOK, NEW f \in Fields, NEW v \in Values, NEW g \in Fields \ {f},
           Matches(memory, unsure, file, g)
    PROVE  Matches(memory, unsure, Merged(f, v), g)
<1>1. Merged(f, v) \in Content
  BY ContentTypes
<1>2. Merged(f, v)[g] = (IF file \in Content THEN file ELSE Blank)[g]
  BY ContentTypes DEF Merged, Content
<1>3. Loaded(Merged(f, v))[g] = Loaded(file)[g]
  BY <1>1, <1>2 DEF Loaded
<1> QED
  BY <1>1, <1>2, <1>3 DEF Matches

(***************************************************************************)
(* Every step keeps it.                                                    *)
(***************************************************************************)
LEMMA AloneStep == TypeOK /\ AloneInv /\ [Next]_vars => AloneInv'
<1> SUFFICES ASSUME TypeOK, AloneInv, [Next]_vars, allAlone'
             PROVE  /\ OneBusy'
                    /\ NobodyBusy' => Following'
                    /\ \A a \in Admins : AloneInOrder(a)'
  BY DEF AloneInv
<1> DEFINE Goal == /\ OneBusy'
                   /\ NobodyBusy' => Following'
                   /\ \A a \in Admins : AloneInOrder(a)'
<1> USE DEF Saving, history
<1>0. allAlone
  BY DEF Next, SaveRead, Truncate, OpenFails, Write, WriteFails, Install, Replace,
         ReloadRead, ReloadInstall, Crash, Begun, vars
<1>1. /\ OneBusy
      /\ NobodyBusy => Following
      /\ \A a \in Admins : AloneInOrder(a)
  BY <1>0 DEF AloneInv
<1>2. ASSUME NEW a \in Admins, NEW place \in Places \ {"idle"}, Goto(a, place),
             \A b \in Admins \ {a} : Idle(b), AloneInOrder(a)'
      PROVE  Goal
  <2>1. /\ pc'[a] # "idle" /\ \A b \in Admins \ {a} : pc'[b] = "idle"
    BY <1>2 DEF Goto, Idle, TypeOK
  <2>2. OneBusy' /\ ~NobodyBusy'
    BY <2>1 DEF OneBusy, NobodyBusy, Idle
  <2>3. \A b \in Admins \ {a} : AloneInOrder(b)'
    BY <2>1 DEF AloneInOrder
  <2> QED
    BY <1>2, <2>2, <2>3
<1>3. ASSUME \A b \in Admins : pc'[b] = "idle", Following' PROVE Goal
  BY <1>3 DEF OneBusy, AloneInOrder, Idle
<1>4. ASSUME NEW a \in Admins, ~Idle(a)
      PROVE  /\ \A b \in Admins \ {a} : Idle(b)
             /\ Return(a) => \A b \in Admins : pc'[b] = "idle"
  BY <1>1, <1>4 DEF OneBusy, Idle, Return, Goto, TypeOK
<1>5. ASSUME NEW a \in Admins, NEW f \in Duties[a], NEW v \in Values, SaveRead(a, f, v)
      PROVE  Goal
  <2>0. f \in Fields
    BY DutiesAssumption
  <2>1. NobodyBusy /\ file \notin Unreadable /\ MatchesAll(memory, unsure, file)
    BY <1>1, <1>5 DEF SaveRead, Begun, NobodyBusy, Following, Parses
  <2>2. \A g \in Fields \ {f} : Matches(memory, unsure, Merged(f, v), g)
    BY <2>0, <2>1, MergedLoads DEF MatchesAll
  <2>3. /\ pc'[a] = "truncate" /\ field'[a] = f /\ buffer'[a] = Merged(f, v)
        /\ memory' = memory /\ file' = file /\ unsure' = unsure
    BY <1>5, <2>0 DEF SaveRead, Goto, TypeOK
  <2>4. AloneInOrder(a)'
    BY <2>1, <2>2, <2>3 DEF AloneInOrder
  <2> QED
    BY <1>2, <1>5, <2>1, <2>4 DEF SaveRead, NobodyBusy, Places
<1>6. ASSUME NEW a \in Admins, Truncate(a) PROVE Goal
  <2>1. /\ pc[a] = "truncate" /\ pc'[a] = "write" /\ file' = Empty
        /\ memory' = memory /\ unsure' = unsure /\ field' = field /\ buffer' = buffer
    BY <1>6 DEF Truncate, Goto, TypeOK
  <2>2. whole' = file /\ MatchesAll(memory, unsure, file)
    BY <1>1, <1>6, <2>1 DEF Truncate, AloneInOrder
  <2>3. AloneInOrder(a)'
    BY <1>1, <2>1, <2>2 DEF AloneInOrder
  <2> QED
    BY <1>2, <1>4, <1>6, <2>3 DEF Truncate, Idle, Places
<1>7. ASSUME NEW a \in Admins, OpenFails(a) PROVE Goal
  BY <1>1, <1>3, <1>4, <1>7 DEF OpenFails, AloneInOrder, Idle, Following, MatchesAll
<1>8. ASSUME NEW a \in Admins, Write(a) PROVE Goal
  <2>1. file' = buffer[a]
    BY <1>1, <1>8 DEF Write, AloneInOrder, Overwritten
  <2>2. AloneInOrder(a)'
    BY <1>1, <1>8, <2>1 DEF Write, Goto, AloneInOrder, TypeOK
  <2> QED
    BY <1>2, <1>4, <1>8, <2>2 DEF Write, Idle, Places
<1>9. ASSUME NEW a \in Admins, pc[a] \in {"install", "replace"}, memory' = WithField(a),
             file' = file, \A f \in Fields \ {field[a]} : unsure'[f] = unsure[f]
      PROVE  MatchesAll(memory', unsure', file') /\ file' = buffer[a]
  <2>1. file = buffer[a] /\ buffer[a] \in Content /\ field[a] \in Fields
    BY <1>1, <1>9 DEF AloneInOrder, TypeOK
  <2>2. memory'[field[a]] = file[field[a]]
    BY <1>9, <2>1 DEF WithField, TypeOK, Content
  <2>3. Matches(memory', unsure', file', field[a])
    BY <1>9, <2>1, <2>2 DEF Matches
  <2>4. \A f \in Fields \ {field[a]} : memory'[f] = memory[f] /\ Matches(memory, unsure, file, f)
    BY <1>1, <1>9, <2>1 DEF WithField, AloneInOrder, TypeOK, Content
  <2>5. \A f \in Fields \ {field[a]} : Matches(memory', unsure', file', f)
    BY <1>9, <2>4 DEF Matches
  <2> QED
    BY <1>9, <2>1, <2>3, <2>5 DEF MatchesAll
<1>10. ASSUME NEW a \in Admins, Install(a) PROVE Goal
  <2>1. MatchesAll(memory', unsure', file') /\ file' = buffer[a]
    BY <1>9, <1>10 DEF Install
  <2>2. AloneInOrder(a)'
    BY <1>10, <2>1 DEF Install, Goto, AloneInOrder, MatchesAll, TypeOK
  <2> QED
    BY <1>2, <1>4, <1>10, <2>2 DEF Install, Idle, Places
<1>11. ASSUME NEW a \in Admins, Replace(a) PROVE Goal
  <2>1. \A f \in Fields \ {field[a]} : unsure'[f] = unsure[f]
    BY <1>11 DEF Replace, TypeOK
  <2>2. Following'
    BY <1>9, <1>11, <2>1 DEF Replace, Following
  <2> QED
    BY <1>3, <1>4, <1>11, <2>2 DEF Replace, Idle
<1>12. ASSUME NEW a \in Admins, ReloadRead(a) PROVE Goal
  <2>1. NobodyBusy
    BY <1>12 DEF ReloadRead, Begun, NobodyBusy
  <2>2. pc'[a] = "reload" /\ buffer'[a] = Loaded(file')
    BY <1>12 DEF ReloadRead, Goto, TypeOK
  <2>3. AloneInOrder(a)'
    BY <2>2 DEF AloneInOrder, Loaded
  <2> QED
    BY <1>2, <1>12, <2>1, <2>3 DEF ReloadRead, NobodyBusy, Places
<1>13. ASSUME NEW a \in Admins, ReloadInstall(a) PROVE Goal
  <2>1. memory' = Loaded(file')
    BY <1>1, <1>13 DEF ReloadInstall, AloneInOrder
  <2> QED
    BY <1>3, <1>4, <1>13, <2>1 DEF ReloadInstall, Idle, Following, MatchesAll, Matches
<1>14. ASSUME NEW a \in Admins, WriteFails(a) PROVE Goal
  <2>1. /\ pc[a] = "write" /\ Return(a) /\ memory' = memory /\ whole' = whole
        /\ unsure' = CutShort({a}) /\ file' \in Unreadable \cup {buffer[a]}
    BY <1>14 DEF WriteFails
  <2>2. \A f \in Fields : unsure[f] \subseteq unsure'[f]
    BY <2>1 DEF CutShort
  <2>3. CASE file' \in Unreadable
    <3>1. MatchesAll(memory, unsure, whole)
      BY <1>1, <2>1 DEF AloneInOrder
    <3>2. MatchesAll(memory', unsure', whole')
      BY <2>1, <2>2, <3>1 DEF MatchesAll, Matches
    <3> QED
      BY <1>3, <1>4, <2>1, <2>3, <3>2 DEF Idle, Following
  <2>4. CASE file' = buffer[a]
    <3>1. field[a] \in Fields /\ buffer[a] \in Content
      BY <2>1 DEF TypeOK
    <3>2. buffer[a][field[a]] \in unsure'[field[a]]
      BY <2>1, <3>1 DEF CutShort
    <3>3. Matches(memory', unsure', file', field[a])
      BY <2>4, <3>1, <3>2 DEF Matches
    <3>4. \A f \in Fields \ {field[a]} : Matches(memory, unsure, buffer[a], f)
      BY <1>1, <2>1 DEF AloneInOrder
    <3>5. \A f \in Fields \ {field[a]} : Matches(memory', unsure', file', f)
      BY <2>1, <2>2, <2>4, <3>4 DEF Matches
    <3>6. Following'
      BY <3>3, <3>5 DEF Following, MatchesAll
    <3> QED
      BY <1>3, <1>4, <2>1, <3>6 DEF Idle
  <2> QED
    BY <2>1, <2>3, <2>4
<1>15. CASE Crash
  <2>1. Following'
    BY <1>15 DEF Crash, Following, MatchesAll, Matches
  <2> QED
    BY <1>3, <1>15, <2>1 DEF Crash
<1>16. CASE UNCHANGED vars
  BY <1>1, <1>16 DEF vars, OneBusy, NobodyBusy, Idle, AloneInOrder, Following, MatchesAll,
                     Matches, Loaded
<1> QED
  BY <1>5, <1>6, <1>7, <1>8, <1>10, <1>11, <1>12, <1>13, <1>14, <1>15, <1>16 DEF Next

(***************************************************************************)
(* While nothing overlaps, and whatever fails or is killed, what the       *)
(* handlers serve follows the file: in each field what the file says or    *)
(* loading makes of it, a value that a failed save left there aside.  When *)
(* a save cut short has left a file that cannot be read, the handlers go   *)
(* on serving what the file before it said until a reload or a restart.    *)
(***************************************************************************)
THEOREM MemoryKept == Spec => []MemoryMatchesFile
<1>1. Init => AloneInv
  BY DEF Init, AloneInv, OneBusy, Idle, Following, MatchesAll, Matches, AloneInOrder, Saving
<1>2. AloneInv => MemoryMatchesFile
  BY DEF AloneInv, NobodyBusy, Following, MatchesAll, Matches, MemoryMatchesFile, Follows
<1> QED
  BY <1>1, <1>2, AloneStep, StoreTypeCorrect, PTL DEF Spec
=============================================================================
