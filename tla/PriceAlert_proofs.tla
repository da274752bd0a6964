-------------------------- MODULE PriceAlert_proofs --------------------------
(***************************************************************************)
(* Proofs about PriceAlert, for any positions, quotes, threshold and       *)
(* number of overlapping tasks.                                            *)
(***************************************************************************)
EXTENDS PriceAlert, FiniteSetTheorems, TLAPS

-----------------------------------------------------------------------------
(* Type correctness.                                                       *)

LEMMA Steps == Step = {"fetch", "check", "send", "set", "update"} /\ Kind = {"take", "loss"}
BY DEF Step, Kind

\* Writing a copy back changes one row at most, and may insert its owner.
LEMMA WrittenBack ==
  ASSUME RowsTypeOK, NEW p \in Position, NEW copy \in Row, WriteBack(p, copy)
  PROVE  /\ RowsTypeOK' /\ users' = users \cup {OwnerOf[p]}
         /\ \A q \in Position \ {p} : rows'[q] = rows[q]
         /\ rows[p] = Null => rows'[p] = Null
         /\ rows[p] = copy => rows'[p] = copy
<1>1. users' = users \cup {OwnerOf[p]} /\ users' \subseteq User
  BY PositionAssumption DEF WriteBack, RowsTypeOK
<1>2. CASE rows[p] # Null
  <2>1. rows[p] \in Row
    BY <1>2 DEF RowsTypeOK
  <2>2. Merged(rows[p], copy) \in Row
    BY <2>1 DEF Merged, Kept, Row
  <2>3. rows' = [rows EXCEPT ![p] = Merged(rows[p], copy)]
    BY <1>2 DEF WriteBack
  <2>4. rows[p] = copy => Merged(rows[p], copy) = copy
    BY <2>1 DEF Merged, Kept, Row
  <2>5. QED
    BY <1>1, <1>2, <2>2, <2>3, <2>4 DEF RowsTypeOK
<1>3. CASE rows[p] = Null
  <2>1. rows' = rows
    BY <1>3 DEF WriteBack
  <2>2. copy # Null
    BY PositionAssumption
  <2>3. QED
    BY <1>1, <1>3, <2>1, <2>2 DEF RowsTypeOK
<1>4. QED
  BY <1>2, <1>3

\* What a user changes are the user's own positions, which stay well-typed.
LEMMA EditedByUser ==
  ASSUME RowsTypeOK, NEW p \in Position, Close(p) \/ BreakEven(p)
  PROVE  RowsTypeOK' /\ users' = users /\ rows[p] # Null /\ \A q \in Position \ {p} : rows'[q] = rows[q]
<1>1. rows[p] \in Row /\ rows[p] # Null /\ users' = users
  BY DEF Close, BreakEven, Open, RowsTypeOK
<1>2. PICK row \in Row : rows' = [rows EXCEPT ![p] = row]
  <2>1. CASE Close(p)
    <3>1. rows' = [rows EXCEPT ![p] = [rows[p] EXCEPT !.open = FALSE]]
      BY <2>1 DEF Close
    <3>2. [rows[p] EXCEPT !.open = FALSE] \in Row
      BY <1>1 DEF Row
    <3>3. QED
      BY <3>1, <3>2
  <2>2. CASE BreakEven(p)
    <3>1. rows' = [rows EXCEPT ![p] = [rows[p] EXCEPT !.stop = rows[p].buy]]
      BY <2>2 DEF BreakEven
    <3>2. [rows[p] EXCEPT !.stop = rows[p].buy] \in Row
      BY <1>1 DEF Row
    <3>3. QED
      BY <3>1, <3>2
  <2>3. QED
    BY <2>1, <2>2
<1>3. QED
  BY <1>1, <1>2 DEF RowsTypeOK

LEMMA UserRemoved ==
  ASSUME RowsTypeOK, NEW u \in User, RemoveUser(u)
  PROVE  /\ RowsTypeOK' /\ users' = users \ {u}
         /\ \A q \in PositionsOf(u) : rows'[q] = Null
         /\ \A q \in Position \ PositionsOf(u) : rows'[q] = rows[q]
BY DEF RemoveUser, RowsTypeOK, PositionsOf

LEMMA EditTyped ==
  ASSUME TypeOK, RowsTypeOK', NEW P, P \subseteq Position, Edited(P)
  PROVE  wanted' \in [Position -> Row \cup {Null}] /\ members' \subseteq users' /\ meddled' \subseteq Position
BY DEF Edited, TypeOK, RowsTypeOK

LEMMA ForgottenTyped ==
  ASSUME TypeOK, NEW t \in Run, NEW p \in Position
  PROVE  Forgotten(t, p) \in [Run -> [Position -> Row \cup {Null}]]
BY DEF TypeOK, Forgotten

LEMMA EventTyped == ASSUME TypeOK, Event PROVE events' \in 0..MaxEvents
BY AlertAssumption DEF TypeOK, Event

LEMMA TopicTyped ==
  ASSUME TypeOK, NEW t \in Run, step[t] # "fetch"
  PROVE  Topic(t) \in Alert /\ Target(t) \in Price \ {0} /\ pos[t] \in Position /\ list[t][pos[t]] \in Row
BY AlertAssumption, Steps DEF TypeOK, Topic, Alert, Target, Listed

\* The next target that was reached is dealt with, or the copy written back.
LEMMA NextTargetTyped ==
  ASSUME TypeOK, NEW t \in Run, step[t] # "fetch", NextTarget(t), UNCHANGED <<list, pos, reached>>
  PROVE  /\ step' \in [Run -> Step] /\ kind' \in [Run -> Kind]
         /\ \A u \in Run : step'[u] # "fetch" => pos'[u] \in Listed(u)' /\ Target(u)' # 0
<1>1. CASE /\ kind[t] = "take" /\ reached[t]["loss"] # 0
           /\ kind' = [kind EXCEPT ![t] = "loss"] /\ step' = [step EXCEPT ![t] = "check"]
  BY <1>1, Steps DEF TypeOK, Listed, Target
<1>2. CASE step' = [step EXCEPT ![t] = "update"] /\ UNCHANGED kind
  BY <1>2, Steps DEF TypeOK, Listed, Target
<1>3. QED
  BY <1>1, <1>2 DEF NextTarget, Goto

LEMMA TypeInit == Init => TypeOK
<1> SUFFICES ASSUME Init PROVE TypeOK
  OBVIOUS
<1>1. RowsTypeOK
  BY PositionAssumption DEF Init, RowsInit, RowsTypeOK
<1>2. 0 \in Price
  BY PositionAssumption DEF Price
<1>3. key \in [Alert -> Price] /\ lastSent \in [Alert -> Price]
  BY <1>2 DEF Init, NoAlerts
<1>4. repeats \in [Alert -> Nat] /\ excused \in [Alert -> Nat]
  BY DEF Init, NoAlerts
<1>5. step \in [Run -> Step] /\ kind \in [Run -> Kind] /\ reached \in [Run -> [Kind -> Price]]
  BY <1>2, Steps DEF Init, NotReached
<1>6. list \in [Run -> [Position -> Row \cup {Null}]] /\ pos \in [Run -> Position \cup {Null}]
  BY DEF Init, NoRows
<1>7. runs \in 0..MaxRuns /\ events \in 0..MaxEvents
  BY AlertAssumption DEF Init
<1>8. \A t \in Run : step[t] = "fetch"
  BY DEF Init
<1>9. wanted \in [Position -> Row \cup {Null}] /\ members \subseteq users /\ meddled \subseteq Position
  BY <1>1 DEF Init, RowsTypeOK
<1>10. QED
  BY <1>1, <1>3, <1>4, <1>5, <1>6, <1>7, <1>8, <1>9 DEF TypeOK

LEMMA TypeStep == TypeOK /\ [Next]_vars => TypeOK'
<1> SUFFICES ASSUME TypeOK, [Next]_vars PROVE TypeOK'
  OBVIOUS
<1> USE AlertAssumption, Steps
<1>1. ASSUME NEW t \in Run, Begin(t) PROVE TypeOK'
  <2>1. AlertedRows \in [Position -> Row \cup {Null}]
    BY DEF TypeOK, RowsTypeOK, AlertedRows, Open
  <2>2. list' \in [Run -> [Position -> Row \cup {Null}]]
    BY <1>1, <2>1 DEF Begin, TypeOK
  <2>3. runs' \in 0..MaxRuns
    BY <1>1 DEF Begin, TypeOK
  <2>4. \A u \in Run : step'[u] # "fetch" => list'[u] = list[u]
    BY <1>1 DEF Begin, Idle, TypeOK
  <2>5. \A u \in Run : step'[u] # "fetch" => pos'[u] \in Listed(u)' /\ Target(u)' # 0
    BY <1>1, <2>4 DEF Begin, TypeOK, Listed, Target
  <2>6. QED
    BY <1>1, <2>2, <2>3, <2>5 DEF Begin, TypeOK, RowsTypeOK, tables, editVars, countVars
<1>2. ASSUME NEW t \in Run, Fetch(t) PROVE TypeOK'
  <2>1. PICK p \in Listed(t) : \E q \in Quotes, prices \in [Kind -> Price] :
          IF prices = NotReached
            THEN list' = Forgotten(t, p) /\ UNCHANGED <<step, pos, reached, kind>>
            ELSE /\ pos' = [pos EXCEPT ![t] = p]
                 /\ reached' = [reached EXCEPT ![t] = prices]
                 /\ kind' = [kind EXCEPT ![t] = IF prices["take"] # 0 THEN "take" ELSE "loss"]
                 /\ Goto(t, "check")
                 /\ UNCHANGED list
    BY <1>2 DEF Fetch
  <2>2. PICK prices \in [Kind -> Price] :
          IF prices = NotReached
            THEN list' = Forgotten(t, p) /\ UNCHANGED <<step, pos, reached, kind>>
            ELSE /\ pos' = [pos EXCEPT ![t] = p]
                 /\ reached' = [reached EXCEPT ![t] = prices]
                 /\ kind' = [kind EXCEPT ![t] = IF prices["take"] # 0 THEN "take" ELSE "loss"]
                 /\ Goto(t, "check")
                 /\ UNCHANGED list
    BY <2>1
  <2>3. p \in Position /\ list[t][p] # Null
    BY DEF Listed
  <2>4. CASE prices = NotReached
    <3>1. list' = Forgotten(t, p) /\ UNCHANGED <<step, pos, reached, kind>>
      BY <2>2, <2>4
    <3>2. list' \in [Run -> [Position -> Row \cup {Null}]]
      BY <2>3, <3>1, ForgottenTyped
    <3>3. \A u \in Run : step'[u] # "fetch" => list'[u] = list[u]
      BY <1>2, <3>1 DEF Fetch, Forgotten, TypeOK
    <3>4. \A u \in Run : step'[u] # "fetch" => pos'[u] \in Listed(u)' /\ Target(u)' # 0
      BY <3>1, <3>3 DEF TypeOK, Listed, Target
    <3>5. QED
      BY <1>2, <3>1, <3>2, <3>4 DEF Fetch, TypeOK, RowsTypeOK, tables, editVars, countVars
  <2>5. CASE prices # NotReached
    <3>1. /\ pos' = [pos EXCEPT ![t] = p]
          /\ reached' = [reached EXCEPT ![t] = prices]
          /\ kind' = [kind EXCEPT ![t] = IF prices["take"] # 0 THEN "take" ELSE "loss"]
          /\ step' = [step EXCEPT ![t] = "check"]
          /\ UNCHANGED list
      BY <2>2, <2>5 DEF Goto
    <3>2. prices["take"] # 0 \/ prices["loss"] # 0
      BY <2>5 DEF NotReached
    <3>3. /\ pos' \in [Run -> Position \cup {Null}] /\ reached' \in [Run -> [Kind -> Price]]
          /\ kind' \in [Run -> Kind] /\ step' \in [Run -> Step]
      BY <2>3, <3>1 DEF TypeOK
    <3>4. \A u \in Run : step'[u] # "fetch" => pos'[u] \in Listed(u)' /\ Target(u)' # 0
      BY <2>3, <3>1, <3>2 DEF TypeOK, Listed, Target
    <3>5. QED
      BY <1>2, <3>1, <3>3, <3>4 DEF Fetch, TypeOK, RowsTypeOK, tables, editVars, countVars
  <2>6. QED
    BY <1>2, <2>4, <2>5 DEF Fetch
<1>3. ASSUME NEW t \in Run, FetchFails(t) PROVE TypeOK'
  <2>1. PICK p \in Listed(t) : list' = Forgotten(t, p)
    BY <1>3 DEF FetchFails
  <2>2. p \in Position
    BY DEF Listed
  <2>3. list' \in [Run -> [Position -> Row \cup {Null}]]
    BY <2>1, <2>2, ForgottenTyped
  <2>4. \A u \in Run : step'[u] # "fetch" => list'[u] = list[u]
    BY <1>3, <2>1 DEF FetchFails, Forgotten, TypeOK
  <2>5. \A u \in Run : step'[u] # "fetch" => pos'[u] \in Listed(u)' /\ Target(u)' # 0
    BY <1>3, <2>4 DEF FetchFails, TypeOK, Listed, Target
  <2>6. QED
    BY <1>3, <2>3, <2>5 DEF FetchFails, TypeOK, RowsTypeOK, tables, editVars, countVars
<1>4. ASSUME NEW t \in Run, step[t] # "fetch", NEW s \in Step \ {"fetch"}, Goto(t, s),
             UNCHANGED <<list, pos, reached, kind>>
      PROVE  /\ step' \in [Run -> Step] /\ kind' \in [Run -> Kind]
             /\ \A u \in Run : step'[u] # "fetch" => pos'[u] \in Listed(u)' /\ Target(u)' # 0
  BY <1>4 DEF Goto, TypeOK, Listed, Target
<1>5. ASSUME NEW t \in Run, Check(t) PROVE TypeOK'
  <2>1. step[t] # "fetch" /\ UNCHANGED <<tables, key, list, pos, reached, runs, lastSent, repeats, events, editVars>>
    BY <1>5 DEF Check
  <2>2. Topic(t) \in Alert
    BY <2>1, TopicTyped
  <2>3. CASE /\ Goto(t, "send") /\ UNCHANGED kind
             /\ excused' = [excused EXCEPT ![Topic(t)] = @ + IF Pending(Topic(t)) THEN 1 ELSE 0]
    <3>1. excused' \in [Alert -> Nat]
      BY <2>2, <2>3 DEF TypeOK
    <3>2. QED
      BY <1>4, <2>1, <2>3, <3>1 DEF TypeOK, RowsTypeOK, tables, editVars
  <2>4. CASE NextTarget(t) /\ UNCHANGED excused
    BY <2>1, <2>4, NextTargetTyped DEF TypeOK, RowsTypeOK, tables, editVars
  <2>5. QED
    BY <1>5, <2>1, <2>3, <2>4 DEF Check
<1>6. ASSUME NEW t \in Run, CheckFails(t) PROVE TypeOK'
  <2>1. step[t] # "fetch" /\ NextTarget(t) /\ Event /\ UNCHANGED <<tables, key, list, pos, reached, runs, countVars, editVars>>
    BY <1>6 DEF CheckFails
  <2>2. QED
    BY <2>1, NextTargetTyped, EventTyped DEF TypeOK, RowsTypeOK, tables, editVars, countVars
<1>7. ASSUME NEW t \in Run, Send(t) PROVE TypeOK'
  <2>1. step[t] # "fetch" /\ Goto(t, "set") /\ UNCHANGED <<tables, key, list, pos, reached, kind, runs, excused, events, editVars>>
    BY <1>7 DEF Send
  <2>2. Topic(t) \in Alert /\ Target(t) \in Price
    BY <2>1, TopicTyped
  <2>3. lastSent' \in [Alert -> Price] /\ repeats' \in [Alert -> Nat]
    BY <1>7, <2>2 DEF Send, TypeOK
  <2>4. QED
    BY <1>4, <2>1, <2>3 DEF TypeOK, RowsTypeOK, tables, editVars
<1>8. ASSUME NEW t \in Run, Keep(t) PROVE TypeOK'
  <2>1. step[t] # "fetch" /\ NextTarget(t) /\ UNCHANGED <<tables, list, pos, reached, runs, lastSent, repeats, events, editVars>>
    BY <1>8 DEF Keep
  <2>2. Topic(t) \in Alert /\ Target(t) \in Price
    BY <2>1, TopicTyped
  <2>3. key' \in [Alert -> Price] /\ excused' \in [Alert -> Nat]
    BY <1>8, <2>2 DEF Keep, TypeOK
  <2>4. QED
    BY <2>1, <2>3, NextTargetTyped DEF TypeOK, RowsTypeOK, tables, editVars
<1>9. ASSUME NEW t \in Run, KeepFails(t) PROVE TypeOK'
  <2>1. /\ step[t] # "fetch" /\ NextTarget(t) /\ Event
        /\ UNCHANGED <<tables, key, list, pos, reached, runs, lastSent, repeats, editVars>>
    BY <1>9 DEF KeepFails
  <2>2. Topic(t) \in Alert
    BY <2>1, TopicTyped
  <2>3. excused' \in [Alert -> Nat]
    BY <1>9, <2>2 DEF KeepFails, TypeOK
  <2>4. QED
    BY <2>1, <2>3, NextTargetTyped, EventTyped DEF TypeOK, RowsTypeOK, tables, editVars
<1>10. ASSUME NEW t \in Run, Update(t) PROVE TypeOK'
  <2>1. step[t] = "update" /\ pos[t] \in Position /\ list[t][pos[t]] \in Row
    BY <1>10, TopicTyped DEF Update
  <2>2. RowsTypeOK' /\ users \subseteq users'
    <3>1. CASE WriteBack(pos[t], list[t][pos[t]])
      BY <2>1, <3>1, WrittenBack DEF TypeOK
    <3>2. CASE UNCHANGED tables
      BY <3>2 DEF TypeOK, RowsTypeOK, tables
    <3>3. QED
      BY <1>10, <3>1, <3>2 DEF Update
  <2>3. list' \in [Run -> [Position -> Row \cup {Null}]]
    BY <1>10, <2>1, ForgottenTyped DEF Update
  <2>4. 0 \in Price
    BY PositionAssumption DEF Price
  <2>5. /\ pos' \in [Run -> Position \cup {Null}] /\ reached' \in [Run -> [Kind -> Price]]
        /\ step' \in [Run -> Step]
    BY <1>10, <2>4 DEF Update, Goto, NotReached, TypeOK
  <2>6. \A u \in Run : step'[u] # "fetch" => u # t /\ step[u] # "fetch"
    BY <1>10 DEF Update, Goto, TypeOK
  <2>7. \A u \in Run : u # t => /\ list'[u] = list[u] /\ pos'[u] = pos[u] /\ reached'[u] = reached[u]
                                /\ kind'[u] = kind[u]
    BY <1>10, <2>1 DEF Update, Forgotten, TypeOK
  <2>8. \A u \in Run : step'[u] # "fetch" => pos'[u] \in Listed(u)' /\ Target(u)' # 0
    BY <2>6, <2>7 DEF TypeOK, Listed, Target
  <2>9. QED
    BY <1>10, <2>2, <2>3, <2>5, <2>8 DEF Update, TypeOK, countVars, editVars
<1>11. ASSUME NEW a \in Alert, ExpireKey(a) PROVE TypeOK'
  <2>1. 0 \in Price
    BY PositionAssumption DEF Price
  <2>2. key' \in [Alert -> Price] /\ lastSent' \in [Alert -> Price]
    BY <1>11, <2>1 DEF ExpireKey, TypeOK
  <2>3. QED
    BY <1>11, <2>2 DEF ExpireKey, TypeOK, RowsTypeOK, tables, editVars, localVars, Listed, Target
<1>12. CASE Bot
  <2>1. RowsTypeOK' /\ \E P : P \subseteq Position /\ Edited(P)
    <3>1. ASSUME NEW p \in Position, Close(p) \/ BreakEven(p), Edited({p})
          PROVE  RowsTypeOK' /\ \E P : P \subseteq Position /\ Edited(P)
      BY <3>1, EditedByUser DEF TypeOK
    <3>2. ASSUME NEW u \in User, RemoveUser(u), Edited(PositionsOf(u))
          PROVE  RowsTypeOK' /\ \E P : P \subseteq Position /\ Edited(P)
      <4>1. RowsTypeOK'
        BY <3>2, UserRemoved DEF TypeOK
      <4>2. PositionsOf(u) \subseteq Position
        BY DEF PositionsOf
      <4>3. QED
        BY <3>2, <4>1, <4>2
    <3>3. QED
      BY <1>12, <3>1, <3>2 DEF Bot
  <2>2. wanted' \in [Position -> Row \cup {Null}] /\ members' \subseteq users' /\ meddled' \subseteq Position
    BY <2>1, EditTyped
  <2>3. QED
    BY <1>12, <2>1, <2>2, EventTyped DEF Bot, TypeOK, localVars, countVars, Listed, Target
<1>13. CASE UNCHANGED vars
  BY <1>13 DEF vars, TypeOK, RowsTypeOK, tables, editVars, localVars, countVars, Listed, Target
<1>14. QED
  BY <1>1, <1>2, <1>3, <1>5, <1>6, <1>7, <1>8, <1>9, <1>10, <1>11, <1>12, <1>13 DEF Next, Execute

\* The variables keep their types; in particular a task that has left its
\* query works on a position of its list with a target that was reached.
THEOREM TypeCorrect == Spec => []TypeOK
BY TypeInit, TypeStep, PTL DEF Spec

-----------------------------------------------------------------------------
(* What users have changed stays.                                          *)
(*                                                                         *)
(* As long as a position was not edited under a task's eyes, every copy a  *)
(* task holds is the row as the user left it, and nobody holds a copy that *)
(* belongs to a deleted user: writing back changes nothing.                *)

EditInv ==
  /\ \A p \in Position : OwnerOf[p] \notin members => rows[p] = Null
  /\ EditsStick
  /\ \A p \in Position \ meddled : \A t \in Run : list[t][p] # Null => list[t][p] = wanted[p]
  /\ \A p \in Position \ meddled : OwnerOf[p] \notin members =>
       \A q \in Position, t \in Run : OwnerOf[q] = OwnerOf[p] => list[t][q] = Null

LEMMA EditInit == Init => EditInv
BY PositionAssumption DEF Init, RowsInit, EditInv, EditsStick, NoRows

\* Tasks that only forget copies, or take them from the table
LEMMA CopiesKept ==
  ASSUME TypeOK, EditInv, UNCHANGED <<tables, editVars>>,
         \A t \in Run, p \in Position : list'[t][p] \in {Null, list[t][p], rows[p]}
  PROVE  EditInv'
<1>1. UNCHANGED <<rows, users, wanted, members, meddled>>
  BY DEF tables, editVars
<1>2. ASSUME NEW p \in Position \ meddled, NEW t \in Run, list'[t][p] # Null
      PROVE  list'[t][p] = wanted[p]
  BY <1>2 DEF EditInv, EditsStick
<1>3. ASSUME NEW p \in Position \ meddled, OwnerOf[p] \notin members,
             NEW q \in Position, NEW t \in Run, OwnerOf[q] = OwnerOf[p]
      PROVE  list'[t][q] = Null
  BY <1>3 DEF EditInv
<1>4. QED
  BY <1>1, <1>2, <1>3 DEF EditInv, EditsStick

\* A user changes the positions in P, all there are in the case of a deletion.
LEMMA EditKept ==
  ASSUME TypeOK, EditInv, NEW P \in SUBSET Position, Edited(P), UNCHANGED list,
         \A q \in Position \ P : rows'[q] = rows[q],
         \/ users' = users /\ \A p \in P : rows[p] # Null
         \/ \E u : users' = users \ {u} /\ P = PositionsOf(u) /\ \A p \in P : rows'[p] = Null
  PROVE  EditInv'
<1>1. /\ \A p \in P : wanted'[p] = rows'[p]
      /\ \A p \in Position \ P : wanted'[p] = wanted[p]
      /\ members' = members \cap users' /\ members \subseteq users
  BY DEF Edited, TypeOK
<1>2. ASSUME NEW p \in Position \ meddled'
      PROVE  /\ p \in P => \A q \in P : ~Held(q)
             /\ p \notin P => p \notin meddled
  BY DEF Edited
<1>3. CASE users' = users /\ \A p \in P : rows[p] # Null
  <2>1. members' = members
    BY <1>1, <1>3
  <2>2. \A p \in P : OwnerOf[p] \in members
    BY <1>3 DEF EditInv
  <2>3. (\A p \in Position : OwnerOf[p] \notin members => rows[p] = Null)'
    BY <2>1, <2>2 DEF EditInv
  <2>4. EditsStick'
    BY <1>1, <1>2, <1>3, <2>1, <2>2 DEF EditInv, EditsStick
  <2>5. (\A p \in Position \ meddled : \A t \in Run : list[t][p] # Null => list[t][p] = wanted[p])'
    BY <1>1, <1>2 DEF EditInv, Held
  <2>6. (\A p \in Position \ meddled : OwnerOf[p] \notin members =>
           \A q \in Position, t \in Run : OwnerOf[q] = OwnerOf[p] => list[t][q] = Null)'
    BY <1>2, <2>1, <2>2 DEF EditInv
  <2>7. QED
    BY <2>3, <2>4, <2>5, <2>6 DEF EditInv
<1>4. ASSUME NEW u, users' = users \ {u}, P = PositionsOf(u), \A p \in P : rows'[p] = Null
      PROVE  EditInv'
  <2>1. members' = members \ {u}
    BY <1>1, <1>4
  <2>2. \A p \in Position : p \in P <=> OwnerOf[p] = u
    BY <1>4 DEF PositionsOf
  <2>3. (\A p \in Position : OwnerOf[p] \notin members => rows[p] = Null)'
    BY <1>4, <2>1, <2>2 DEF EditInv
  <2>4. EditsStick'
    BY <1>1, <1>2, <1>4, <2>1, <2>2 DEF EditInv, EditsStick
  <2>5. (\A p \in Position \ meddled : \A t \in Run : list[t][p] # Null => list[t][p] = wanted[p])'
    BY <1>1, <1>2 DEF EditInv, Held
  <2>6. (\A p \in Position \ meddled : OwnerOf[p] \notin members =>
           \A q \in Position, t \in Run : OwnerOf[q] = OwnerOf[p] => list[t][q] = Null)'
    BY <1>2, <2>1, <2>2 DEF EditInv, Held
  <2>7. QED
    BY <2>3, <2>4, <2>5, <2>6 DEF EditInv
<1>5. QED
  BY <1>3, <1>4

\* A copy of a position is written back and forgotten.
LEMMA WriteKept ==
  ASSUME TypeOK, EditInv, NEW t \in Run, NEW p \in Position, list[t][p] # Null,
         WriteBack(p, list[t][p]), list' = Forgotten(t, p), UNCHANGED editVars
  PROVE  EditInv'
<1>1. UNCHANGED <<wanted, members, meddled>> /\ members \subseteq users
  BY DEF editVars, TypeOK
<1>2. list[t][p] \in Row
  BY DEF TypeOK
<1>3. /\ users' = users \cup {OwnerOf[p]}
      /\ \A q \in Position \ {p} : rows'[q] = rows[q]
      /\ rows[p] = Null => rows'[p] = Null
      /\ rows[p] = list[t][p] => rows'[p] = list[t][p]
  BY <1>2, WrittenBack DEF TypeOK
<1>4. \A v \in Run, q \in Position : list'[v][q] \in {Null, list[v][q]}
  BY DEF Forgotten, TypeOK
<1>5. (\A q \in Position : OwnerOf[q] \notin members => rows[q] = Null)'
  BY <1>1, <1>3 DEF EditInv
<1>6. ASSUME NEW q \in Position \ meddled
      PROVE  rows'[q] = wanted[q] /\ (OwnerOf[q] \in users' => OwnerOf[q] \in members)
  <2>1. rows[q] = wanted[q] /\ (OwnerOf[q] \in users => OwnerOf[q] \in members)
    BY DEF EditInv, EditsStick
  <2>2. rows'[q] = wanted[q]
    <3>1. CASE q = p
      BY <1>3, <2>1, <3>1 DEF EditInv
    <3>2. CASE q # p
      BY <1>3, <2>1, <3>2
    <3>3. QED
      BY <3>1, <3>2
  <2>3. OwnerOf[q] = OwnerOf[p] => OwnerOf[q] \in members
    BY DEF EditInv
  <2>4. QED
    BY <1>3, <2>1, <2>2, <2>3
<1>7. (\A q \in Position \ meddled : \A v \in Run : list[v][q] # Null => list[v][q] = wanted[q])'
  BY <1>1, <1>4 DEF EditInv
<1>8. (\A q \in Position \ meddled : OwnerOf[q] \notin members =>
         \A r \in Position, v \in Run : OwnerOf[r] = OwnerOf[q] => list[v][r] = Null)'
  BY <1>1, <1>4 DEF EditInv
<1>9. QED
  BY <1>1, <1>5, <1>6, <1>7, <1>8 DEF EditInv, EditsStick

LEMMA EditStep == TypeOK /\ EditInv /\ [Next]_vars => EditInv'
<1> SUFFICES ASSUME TypeOK, EditInv, [Next]_vars PROVE EditInv'
  OBVIOUS
<1>1. ASSUME NEW t \in Run, Begin(t) PROVE EditInv'
  <2>1. /\ list' = [list EXCEPT ![t] = AlertedRows] /\ UNCHANGED <<tables, editVars>>
    BY <1>1 DEF Begin
  <2>2. \A v \in Run, p \in Position : list'[v][p] \in {Null, list[v][p], rows[p]}
    BY <2>1 DEF AlertedRows, TypeOK
  <2>3. QED
    BY <2>1, <2>2, CopiesKept
<1>2. ASSUME NEW t \in Run, Fetch(t) \/ FetchFails(t) PROVE EditInv'
  <2>1. UNCHANGED <<tables, editVars>> /\ (list' = list \/ \E p \in Position : list' = Forgotten(t, p))
    BY <1>2 DEF Fetch, FetchFails, Listed
  <2>2. \A v \in Run, p \in Position : list'[v][p] \in {Null, list[v][p], rows[p]}
    BY <2>1 DEF Forgotten, TypeOK
  <2>3. QED
    BY <2>1, <2>2, CopiesKept
<1>3. ASSUME UNCHANGED <<tables, editVars, list>> PROVE EditInv'
  BY <1>3, CopiesKept
<1>4. ASSUME NEW t \in Run, Check(t) \/ CheckFails(t) \/ Send(t) \/ Keep(t) \/ KeepFails(t) PROVE EditInv'
  BY <1>3, <1>4 DEF Check, CheckFails, Send, Keep, KeepFails
<1>5. ASSUME NEW t \in Run, Update(t) PROVE EditInv'
  <2>1. /\ list' = Forgotten(t, pos[t]) /\ UNCHANGED editVars
        /\ WriteBack(pos[t], list[t][pos[t]]) \/ UNCHANGED tables
    BY <1>5 DEF Update
  <2>2. pos[t] \in Position /\ list[t][pos[t]] # Null
    BY <1>5 DEF Update, TypeOK, Listed
  <2>3. CASE WriteBack(pos[t], list[t][pos[t]])
    BY <2>1, <2>2, <2>3, WriteKept
  <2>4. CASE UNCHANGED tables
    <3>1. \A v \in Run, p \in Position : list'[v][p] \in {Null, list[v][p], rows[p]}
      BY <2>1, <2>2 DEF Forgotten, TypeOK
    <3>2. QED
      BY <2>1, <2>4, <3>1, CopiesKept
  <2>5. QED
    BY <2>1, <2>3, <2>4
<1>6. ASSUME NEW a \in Alert, ExpireKey(a) PROVE EditInv'
  BY <1>3, <1>6 DEF ExpireKey, localVars
<1>7. CASE Bot
  <2>1. UNCHANGED list
    BY <1>7 DEF Bot, localVars
  <2>2. ASSUME NEW p \in Position, Close(p) \/ BreakEven(p), Edited({p}) PROVE EditInv'
    <3>1. /\ users' = users /\ rows[p] # Null /\ \A q \in Position \ {p} : rows'[q] = rows[q]
          /\ {p} \in SUBSET Position
      BY <2>2, EditedByUser DEF TypeOK
    <3>2. QED
      BY <2>1, <2>2, <3>1, EditKept
  <2>3. ASSUME NEW u \in User, RemoveUser(u), Edited(PositionsOf(u)) PROVE EditInv'
    <3>1. /\ users' = users \ {u} /\ \A q \in PositionsOf(u) : rows'[q] = Null
          /\ \A q \in Position \ PositionsOf(u) : rows'[q] = rows[q]
      BY <2>3, UserRemoved DEF TypeOK
    <3>2. PositionsOf(u) \in SUBSET Position
      BY DEF PositionsOf
    <3>3. QED
      BY <2>1, <2>3, <3>1, <3>2, EditKept
  <2>4. QED
    BY <1>7, <2>2, <2>3 DEF Bot
<1>8. CASE UNCHANGED vars
  BY <1>3, <1>8 DEF vars, localVars
<1>9. QED
  BY <1>1, <1>2, <1>4, <1>5, <1>6, <1>7, <1>8 DEF Next, Execute

\* The tasks' writing back undoes no change a user makes while no task holds a
\* copy of the position, and brings no user back who is deleted at such a time.
THEOREM EditsAreKept == Spec => []EditsStick
<1>1. EditInv => EditsStick
  BY DEF EditInv
<1>2. QED
  BY <1>1, EditInit, EditStep, TypeCorrect, PTL DEF Spec

-----------------------------------------------------------------------------
(* Alerts are not repeated.                                                *)
(*                                                                         *)
(* Of the messages about to be sent, one may follow another too closely    *)
(* only when it is excused.  When the key agrees with the last message and *)
(* nobody is about to keep a price (Clean), the first message to be sent   *)
(* is far from the last one, and only those after it need an excuse.       *)
(* Otherwise all of them do, and so does the next one to be decided on.    *)

Topics == [t \in Run |-> Topic(t)]
Targets == [t \in Run |-> Target(t)]
Senders == [a \in Alert |-> {t \in Run : step[t] = "send" /\ Topics[t] = a}]
Keepers == [a \in Alert |-> {t \in Run : step[t] = "set" /\ Topics[t] = a}]

Clean == {a \in Alert :
            /\ Keepers[a] = {}
            /\ lastSent[a] = 0 \/ key[a] = lastSent[a]
            /\ \A t \in Senders[a] : Far(Targets[t], lastSent[a])}

Waiting == [a \in Alert |-> Cardinality(Senders[a])]

Spaced == {a \in Alert :
  /\ a \in Clean => repeats[a] + Waiting[a] <= excused[a] + 1 /\ repeats[a] <= excused[a]
  /\ a \notin Clean => /\ repeats[a] + Waiting[a] <= excused[a]
                       /\ Senders[a] = {} /\ Keepers[a] = {} => repeats[a] + 1 <= excused[a]}

SpacedInv == TypeOK /\ Alert \subseteq Spaced

LEMMA FarFromNone == \A x : Far(x, 0)
BY DEF Far

LEMMA WaitingNat ==
  /\ \A a \in Alert : IsFiniteSet(Senders[a]) /\ Waiting[a] \in Nat
  /\ \A a \in Alert : Senders[a] = {} => Waiting[a] = 0
<1>1. ASSUME NEW a \in Alert PROVE IsFiniteSet(Senders[a])
  <2>1. Senders[a] \subseteq Run
    BY DEF Senders
  <2>2. QED
    BY <2>1, AlertAssumption, FS_Subset
<1>2. QED
  BY <1>1, FS_CardinalityType, FS_EmptySet DEF Waiting

\* What a step of task t leaves of the others, and what becomes of its place.
Others(t) ==
  \A u \in Run \ {t} : /\ step'[u] = step[u]
                       /\ Topics'[u] = Topics[u] /\ Targets'[u] = Targets[u]

LEMMA Places ==
  ASSUME NEW t \in Run, Others(t), NEW a \in Alert
  PROVE  /\ \A u : u \in Senders'[a] <=> \/ u \in Senders[a] /\ u # t
                                         \/ u = t /\ step'[t] = "send" /\ Topics'[t] = a
         /\ \A u : u \in Keepers'[a] <=> \/ u \in Keepers[a] /\ u # t
                                         \/ u = t /\ step'[t] = "set" /\ Topics'[t] = a
BY DEF Others, Senders, Keepers

LEMMA WaitingChanges ==
  ASSUME NEW a \in Alert, NEW t
  PROVE  /\ t \notin Senders[a] /\ Senders'[a] = Senders[a] \cup {t} => Waiting'[a] = Waiting[a] + 1
         /\ t \in Senders[a] /\ Senders'[a] = Senders[a] \ {t} => Waiting'[a] = Waiting[a] - 1
<1>1. Waiting[a] = Cardinality(Senders[a]) /\ Waiting'[a] = Cardinality(Senders'[a])
  BY DEF Waiting
<1>2. IsFiniteSet(Senders[a])
  BY WaitingNat
<1>3. t \notin Senders[a] => Cardinality(Senders[a] \cup {t}) = Cardinality(Senders[a]) + 1
  BY <1>2, FS_AddElement
<1>4. t \in Senders[a] => Cardinality(Senders[a] \ {t}) = Cardinality(Senders[a]) - 1
  BY <1>2, FS_RemoveElement
<1>5. QED
  BY <1>1, <1>3, <1>4

\* An alert whose tasks and prices are as before is as well spaced as before.
LEMMA SpacedFrame ==
  ASSUME NEW a \in Spaced, Senders'[a] = Senders[a], Keepers'[a] = Keepers[a],
         \A u \in Senders[a] : Targets'[u] = Targets[u],
         key'[a] = key[a], lastSent'[a] = lastSent[a],
         repeats'[a] = repeats[a], excused'[a] = excused[a]
  PROVE  a \in Spaced'
<1>1. a \in Alert
  BY DEF Spaced
<1>2. a \in Clean' <=> a \in Clean
  BY <1>1 DEF Clean
<1>3. Waiting'[a] = Waiting[a]
  BY <1>1 DEF Waiting
<1>4. QED
  BY <1>1, <1>2, <1>3 DEF Spaced

\* A step that decides nothing about messages or prices.
LEMMA QuietStep ==
  ASSUME Alert \subseteq Spaced, NEW t \in Run, Others(t),
         step[t] \notin {"send", "set"}, step'[t] \notin {"send", "set"},
         UNCHANGED <<key, lastSent, repeats, excused>>
  PROVE  Alert \subseteq Spaced'
<1> SUFFICES ASSUME NEW a \in Alert PROVE a \in Spaced'
  OBVIOUS
<1>1. t \notin Senders[a] /\ t \notin Keepers[a]
  BY DEF Senders, Keepers
<1>2. Senders'[a] = Senders[a] /\ Keepers'[a] = Keepers[a]
  <2>1. (\A u : u \in Senders'[a] <=> u \in Senders[a]) /\ \A u : u \in Keepers'[a] <=> u \in Keepers[a]
    BY <1>1, Places
  <2>2. QED
    BY <2>1, Zenon
<1>3. \A u \in Senders[a] : Targets'[u] = Targets[u]
  BY <1>1 DEF Others, Senders
<1>4. QED
  BY <1>2, <1>3, SpacedFrame

\* The alerts a task does not deal with.
LEMMA OtherAlerts ==
  ASSUME Alert \subseteq Spaced, NEW t \in Run, Others(t), NEW a \in Alert, a # Topics[t],
         step'[t] \in {"send", "set"} => Topics'[t] = Topics[t],
         key'[a] = key[a], lastSent'[a] = lastSent[a],
         repeats'[a] = repeats[a], excused'[a] = excused[a]
  PROVE  a \in Spaced'
<1>1. t \notin Senders[a] /\ t \notin Keepers[a]
  BY DEF Senders, Keepers
<1>2. Senders'[a] = Senders[a] /\ Keepers'[a] = Keepers[a]
  <2>1. (\A u : u \in Senders'[a] <=> u \in Senders[a]) /\ \A u : u \in Keepers'[a] <=> u \in Keepers[a]
    BY <1>1, Places
  <2>2. QED
    BY <2>1, Zenon
<1>3. \A u \in Senders[a] : Targets'[u] = Targets[u]
  BY <1>1 DEF Others, Senders
<1>4. QED
  BY <1>2, <1>3, SpacedFrame

\* A task decides to send: excused when another is about to.
LEMMA Decided ==
  ASSUME TypeOK, Alert \subseteq Spaced, NEW t \in Run, Others(t), NEW a \in Alert, a = Topics[t],
         step[t] = "check", step'[t] = "send", Topics'[t] = a, Targets'[t] = Targets[t],
         Far(Targets[t], key[a]), UNCHANGED <<key, lastSent, repeats>>,
         excused'[a] = excused[a] + IF Senders[a] \cup Keepers[a] # {} THEN 1 ELSE 0
  PROVE  a \in Spaced'
<1>1. t \notin Senders[a] /\ t \notin Keepers[a]
  BY DEF Senders, Keepers
<1>2. Senders'[a] = Senders[a] \cup {t} /\ Keepers'[a] = Keepers[a]
  <2>1. (\A u : u \in Senders'[a] <=> u \in Senders[a] \cup {t}) /\ \A u : u \in Keepers'[a] <=> u \in Keepers[a]
    BY <1>1, Places
  <2>2. QED
    BY <2>1, Zenon
<1>3. Waiting'[a] = Waiting[a] + 1
  BY <1>1, <1>2, WaitingChanges
<1>4. \A u \in Senders[a] : Targets'[u] = Targets[u]
  BY <1>1 DEF Others, Senders
<1>5. Waiting[a] \in Nat /\ repeats[a] \in Nat /\ excused[a] \in Nat /\ (Senders[a] = {} => Waiting[a] = 0)
  BY WaitingNat DEF TypeOK
<1>6. a \in Clean' <=> a \in Clean
  BY <1>2, <1>4, FarFromNone DEF Clean
<1>7. CASE a \in Clean
  <2>1. Keepers[a] = {} /\ repeats[a] + Waiting[a] <= excused[a] + 1 /\ repeats[a] <= excused[a]
    BY <1>7 DEF Clean, Spaced
  <2>2. repeats[a] + (Waiting[a] + 1) <= excused'[a] + 1 /\ repeats[a] <= excused'[a]
    BY <1>5, <2>1
  <2>3. QED
    BY <1>3, <1>6, <1>7, <2>2 DEF Spaced
<1>8. CASE a \notin Clean
  <2>1. /\ repeats[a] + Waiting[a] <= excused[a]
        /\ Senders[a] = {} /\ Keepers[a] = {} => repeats[a] + 1 <= excused[a]
    BY <1>8 DEF Spaced
  <2>2. repeats[a] + (Waiting[a] + 1) <= excused'[a]
    BY <1>5, <2>1
  <2>3. Senders'[a] # {}
    BY <1>2
  <2>4. QED
    BY <1>3, <1>6, <1>8, <2>2, <2>3 DEF Spaced
<1>9. QED
  BY <1>7, <1>8

\* The message is sent: too near to the last only when the alert was not clean.
LEMMA Messaged ==
  ASSUME TypeOK, Alert \subseteq Spaced, NEW t \in Run, Others(t), NEW a \in Alert, a = Topics[t],
         step[t] = "send", step'[t] = "set", Topics'[t] = a, UNCHANGED excused,
         repeats'[a] = repeats[a] + IF Far(Targets[t], lastSent[a]) THEN 0 ELSE 1
  PROVE  a \in Spaced'
<1>1. t \in Senders[a]
  BY DEF Senders
<1>2. Senders'[a] = Senders[a] \ {t} /\ t \in Keepers'[a]
  BY Places
<1>3. Waiting'[a] = Waiting[a] - 1
  BY <1>1, <1>2, WaitingChanges
<1>4. Waiting[a] \in Nat /\ repeats[a] \in Nat /\ excused[a] \in Nat
  BY WaitingNat DEF TypeOK
<1>5. repeats'[a] + (Waiting[a] - 1) <= excused[a]
  <2>1. CASE a \in Clean
    <3>1. Far(Targets[t], lastSent[a]) /\ repeats[a] + Waiting[a] <= excused[a] + 1
      BY <1>1, <2>1 DEF Clean, Spaced
    <3>2. QED
      BY <1>4, <3>1
  <2>2. CASE a \notin Clean
    <3>1. repeats[a] + Waiting[a] <= excused[a]
      BY <2>2 DEF Spaced
    <3>2. QED
      BY <1>4, <3>1
  <2>3. QED
    BY <2>1, <2>2
<1>6. a \notin Clean' /\ Keepers'[a] # {}
  BY <1>2 DEF Clean
<1>7. QED
  BY <1>3, <1>5, <1>6 DEF Spaced

\* Its price is kept, or not: excused unless the key now agrees with the
\* last message.
LEMMA Settled ==
  ASSUME TypeOK, Alert \subseteq Spaced, NEW t \in Run, Others(t), NEW a \in Alert, a = Topics[t],
         step[t] = "set", step'[t] \notin {"send", "set"}, UNCHANGED <<lastSent, repeats>>,
         \/ excused'[a] = excused[a] + 1
         \/ excused'[a] = excused[a] /\ (lastSent[a] = 0 \/ key'[a] = lastSent[a])
  PROVE  a \in Spaced'
<1>1. t \in Keepers[a] /\ t \notin Senders[a]
  BY DEF Keepers, Senders
<1>2. Senders'[a] = Senders[a]
  <2>1. \A u : u \in Senders'[a] <=> u \in Senders[a]
    BY <1>1, Places
  <2>2. QED
    BY <2>1, Zenon
<1>3. Waiting'[a] = Waiting[a]
  BY <1>2 DEF Waiting
<1>4. a \notin Clean
  BY <1>1 DEF Clean
<1>5. repeats[a] + Waiting[a] <= excused[a]
  BY <1>4 DEF Spaced
<1>6. Waiting[a] \in Nat /\ repeats[a] \in Nat /\ excused[a] \in Nat
  BY WaitingNat DEF TypeOK
<1>7. CASE excused'[a] = excused[a] + 1
  <2>1. /\ repeats[a] + Waiting[a] <= excused'[a] + 1 /\ repeats[a] <= excused'[a]
        /\ repeats[a] + Waiting[a] <= excused'[a] /\ repeats[a] + 1 <= excused'[a]
    BY <1>5, <1>6, <1>7
  <2>2. QED
    BY <1>3, <2>1 DEF Spaced
<1>8. CASE excused'[a] = excused[a] /\ (lastSent[a] = 0 \/ key'[a] = lastSent[a])
  <2>1. /\ repeats[a] + Waiting[a] <= excused'[a] + 1 /\ repeats[a] <= excused'[a]
        /\ repeats[a] + Waiting[a] <= excused'[a]
    BY <1>5, <1>6, <1>8
  <2>2. a \notin Clean' => ~(Senders'[a] = {} /\ Keepers'[a] = {})
    BY <1>8 DEF Clean
  <2>3. QED
    BY <1>3, <2>1, <2>2 DEF Spaced
<1>9. QED
  BY <1>7, <1>8

\* The key expires: the next message is not a repetition.
LEMMA Expired ==
  ASSUME TypeOK, Alert \subseteq Spaced, NEW a \in Alert,
         Senders'[a] = Senders[a], Keepers'[a] = Keepers[a],
         key'[a] = 0, lastSent'[a] = 0, UNCHANGED <<repeats, excused>>
  PROVE  a \in Spaced'
<1>1. Waiting'[a] = Waiting[a]
  BY DEF Waiting
<1>2. Waiting[a] \in Nat /\ repeats[a] \in Nat /\ excused[a] \in Nat
  BY WaitingNat DEF TypeOK
<1>3. Keepers[a] = {} => a \in Clean'
  BY FarFromNone DEF Clean
<1>4. Keepers[a] # {} => a \notin Clean /\ a \notin Clean'
  BY DEF Clean
<1>5. CASE a \in Clean
  <2>1. a \in Clean' /\ repeats[a] + Waiting[a] <= excused[a] + 1 /\ repeats[a] <= excused[a]
    BY <1>3, <1>4, <1>5 DEF Spaced
  <2>2. QED
    BY <1>1, <2>1 DEF Spaced
<1>6. CASE a \notin Clean
  <2>1. repeats[a] + Waiting[a] <= excused[a]
    BY <1>6 DEF Spaced
  <2>2. repeats[a] + Waiting[a] <= excused[a] + 1 /\ repeats[a] <= excused[a]
    BY <1>2, <2>1
  <2>3. QED
    BY <1>1, <1>3, <1>4, <2>1, <2>2 DEF Spaced
<1>7. QED
  BY <1>5, <1>6

\* A task changes what it deals with itself only.
LEMMA OthersStay ==
  ASSUME TypeOK, NEW t \in Run, Begin(t) \/ Execute(t)
  PROVE  Others(t)
<1> SUFFICES ASSUME NEW u \in Run \ {t}
             PROVE  step'[u] = step[u] /\ Topics'[u] = Topics[u] /\ Targets'[u] = Targets[u]
  BY DEF Others
<1>1. step'[u] = step[u] /\ kind'[u] = kind[u] /\ pos'[u] = pos[u] /\ reached'[u] = reached[u]
  <2>1. CASE Begin(t) \/ Check(t) \/ CheckFails(t) \/ Send(t)
    BY <2>1 DEF Begin, Check, CheckFails, Send, NextTarget, Goto, TypeOK
  <2>2. CASE Keep(t) \/ KeepFails(t) \/ Update(t)
    BY <2>2 DEF Keep, KeepFails, Update, NextTarget, Goto, TypeOK
  <2>3. CASE FetchFails(t)
    BY <2>3 DEF FetchFails
  <2>4. CASE Fetch(t)
    BY <2>4 DEF Fetch, Goto, TypeOK
  <2>5. QED
    BY <2>1, <2>2, <2>3, <2>4 DEF Execute
<1>2. QED
  BY <1>1 DEF Topics, Topic, Targets, Target

LEMMA SpacedInit == Init => Alert \subseteq Spaced
<1> SUFFICES ASSUME Init, NEW a \in Alert PROVE a \in Spaced
  OBVIOUS
<1>1. Senders[a] = {} /\ Keepers[a] = {}
  BY DEF Init, Senders, Keepers
<1>2. repeats[a] = 0 /\ excused[a] = 0 /\ lastSent[a] = 0
  BY DEF Init, NoAlerts
<1>3. Waiting[a] = 0
  BY <1>1, WaitingNat
<1>4. a \in Clean
  BY <1>1, <1>2 DEF Clean
<1>5. QED
  BY <1>2, <1>3, <1>4 DEF Spaced

LEMMA SpacedStep == SpacedInv /\ [Next]_vars => Alert \subseteq Spaced'
<1> SUFFICES ASSUME TypeOK, Alert \subseteq Spaced, [Next]_vars PROVE Alert \subseteq Spaced'
  BY DEF SpacedInv
<1>1. ASSUME NEW t \in Run, NextTarget(t), UNCHANGED <<pos, reached>>
      PROVE  step'[t] \notin {"send", "set"}
  BY <1>1 DEF NextTarget, Goto, TypeOK
<1>2. ASSUME NEW t \in Run, step[t] # "fetch"
      PROVE  /\ Topics[t] = Topic(t) /\ Topics[t] \in Alert /\ Targets[t] = Target(t)
             /\ UNCHANGED <<kind, pos>> => Topics'[t] = Topics[t]
             /\ UNCHANGED <<kind, reached>> => Targets'[t] = Targets[t]
  <2>1. Topic(t) \in Alert
    BY <1>2, TopicTyped
  <2>2. QED
    BY <2>1 DEF Topics, Targets, Topic, Target
<1>3. ASSUME NEW t \in Run, Begin(t) \/ Fetch(t) \/ FetchFails(t) \/ CheckFails(t) \/ Update(t)
      PROVE  Alert \subseteq Spaced'
  <2>1. Others(t)
    BY <1>3, OthersStay DEF Execute
  <2>2. UNCHANGED <<key, lastSent, repeats, excused>> /\ step[t] \notin {"send", "set"}
    BY <1>3 DEF Begin, Idle, Fetch, FetchFails, CheckFails, Update, countVars
  <2>3. step'[t] \notin {"send", "set"}
    <3>1. CASE Begin(t) \/ FetchFails(t)
      BY <3>1 DEF Begin, Idle, FetchFails
    <3>2. CASE Fetch(t)
      BY <3>2 DEF Fetch, Goto, TypeOK
    <3>3. CASE CheckFails(t)
      BY <1>1, <3>3 DEF CheckFails
    <3>4. CASE Update(t)
      BY <3>4 DEF Update, Goto, TypeOK
    <3>5. QED
      BY <1>3, <3>1, <3>2, <3>3, <3>4
  <2>4. QED
    BY <2>1, <2>2, <2>3, QuietStep
<1>4. ASSUME NEW t \in Run, Check(t) PROVE Alert \subseteq Spaced'
  <2>1. /\ Others(t) /\ step[t] = "check"
        /\ UNCHANGED <<key, list, pos, reached, lastSent, repeats>>
    BY <1>4, OthersStay DEF Execute, Check
  <2>2. Topics[t] = Topic(t) /\ Topics[t] \in Alert /\ Targets[t] = Target(t)
    BY <1>2, <2>1
  <2>3. CASE ~Far(Target(t), key[Topic(t)])
    <3>1. NextTarget(t) /\ UNCHANGED excused
      BY <1>4, <2>3 DEF Check
    <3>2. step'[t] \notin {"send", "set"}
      BY <1>1, <2>1, <3>1
    <3>3. QED
      BY <2>1, <3>1, <3>2, QuietStep
  <2>4. CASE Far(Target(t), key[Topic(t)])
    <3>1. /\ Goto(t, "send") /\ UNCHANGED kind
          /\ excused' = [excused EXCEPT ![Topic(t)] = @ + IF Pending(Topic(t)) THEN 1 ELSE 0]
      BY <1>4, <2>4 DEF Check
    <3>2. step'[t] = "send"
      BY <3>1 DEF Goto, TypeOK
    <3>3. Topics'[t] = Topics[t] /\ Targets'[t] = Targets[t]
      BY <1>2, <2>1, <3>1
    <3>4. Pending(Topics[t]) <=> Senders[Topics[t]] \cup Keepers[Topics[t]] # {}
      BY <2>2 DEF Pending, Senders, Keepers, Topics
    <3>5. excused'[Topics[t]] = excused[Topics[t]]
            + IF Senders[Topics[t]] \cup Keepers[Topics[t]] # {} THEN 1 ELSE 0
      BY <2>2, <3>1, <3>4 DEF TypeOK
    <3>6. \A a \in Alert : a # Topics[t] => excused'[a] = excused[a]
      BY <2>2, <3>1 DEF TypeOK
    <3>7. Topics[t] \in Spaced'
      BY <2>1, <2>2, <2>4, <3>2, <3>3, <3>5, Decided
    <3>8. \A a \in Alert : a # Topics[t] => a \in Spaced'
      BY <2>1, <3>3, <3>6, OtherAlerts
    <3>9. QED
      BY <3>7, <3>8
  <2>5. QED
    BY <2>3, <2>4
<1>5. ASSUME NEW t \in Run, Send(t) PROVE Alert \subseteq Spaced'
  <2>1. /\ Others(t) /\ step[t] = "send"
        /\ UNCHANGED <<key, pos, reached, kind, excused>>
    BY <1>5, OthersStay DEF Execute, Send
  <2>2. Topics[t] = Topic(t) /\ Topics[t] \in Alert /\ Targets[t] = Target(t) /\ Topics'[t] = Topics[t]
    BY <1>2, <2>1
  <2>3. step'[t] = "set"
    BY <1>5 DEF Send, Goto, TypeOK
  <2>4. /\ repeats'[Topics[t]] = repeats[Topics[t]]
              + IF Far(Targets[t], lastSent[Topics[t]]) THEN 0 ELSE 1
        /\ \A a \in Alert : a # Topics[t] => repeats'[a] = repeats[a] /\ lastSent'[a] = lastSent[a]
    BY <1>5, <2>2 DEF Send, TypeOK
  <2>5. Topics[t] \in Spaced'
    BY <2>1, <2>2, <2>3, <2>4, Messaged
  <2>6. \A a \in Alert : a # Topics[t] => a \in Spaced'
    BY <2>1, <2>2, <2>4, OtherAlerts
  <2>7. QED
    BY <2>5, <2>6
<1>6. ASSUME NEW t \in Run, Keep(t) \/ KeepFails(t) PROVE Alert \subseteq Spaced'
  <2>1. /\ Others(t) /\ step[t] = "set" /\ NextTarget(t)
        /\ UNCHANGED <<pos, reached, lastSent, repeats>>
    BY <1>6, OthersStay DEF Execute, Keep, KeepFails
  <2>2. Topics[t] = Topic(t) /\ Topics[t] \in Alert /\ Targets[t] = Target(t)
    BY <1>2, <2>1
  <2>3. step'[t] \notin {"send", "set"}
    BY <1>1, <2>1
  <2>4. \/ excused'[Topics[t]] = excused[Topics[t]] + 1
        \/ /\ excused'[Topics[t]] = excused[Topics[t]]
           /\ lastSent[Topics[t]] = 0 \/ key'[Topics[t]] = lastSent[Topics[t]]
    <3>1. CASE KeepFails(t)
      BY <2>2, <3>1 DEF KeepFails, TypeOK
    <3>2. CASE Keep(t)
      <4>1. key'[Topics[t]] = Target(t)
        BY <2>2, <3>2 DEF Keep, TypeOK
      <4>2. excused'[Topics[t]] = excused[Topics[t]] + IF Overtaken(t) THEN 1 ELSE 0
        BY <2>2, <3>2 DEF Keep, TypeOK
      <4>3. excused[Topics[t]] \in Nat
        BY <2>2 DEF TypeOK
      <4>4. Overtaken(t) \/ lastSent[Topics[t]] = 0 \/ lastSent[Topics[t]] = Target(t)
        BY <2>2 DEF Overtaken
      <4>5. CASE Overtaken(t)
        BY <4>2, <4>5
      <4>6. CASE ~Overtaken(t)
        BY <4>1, <4>2, <4>3, <4>4, <4>6
      <4>7. QED
        BY <4>5, <4>6
    <3>3. QED
      BY <1>6, <3>1, <3>2
  <2>5. \A a \in Alert : a # Topics[t] => key'[a] = key[a] /\ excused'[a] = excused[a]
    <3>1. CASE Keep(t)
      BY <2>2, <3>1 DEF Keep, TypeOK
    <3>2. CASE KeepFails(t)
      BY <2>2, <3>2 DEF KeepFails, TypeOK
    <3>3. QED
      BY <1>6, <3>1, <3>2
  <2>6. Topics[t] \in Spaced'
    BY <2>1, <2>2, <2>3, <2>4, Settled
  <2>7. \A a \in Alert : a # Topics[t] => a \in Spaced'
    BY <2>1, <2>3, <2>5, OtherAlerts
  <2>8. QED
    BY <2>6, <2>7
<1>7. ASSUME UNCHANGED localVars
      PROVE  UNCHANGED <<Senders, Keepers, Targets>>
  BY <1>7 DEF localVars, Senders, Keepers, Topics, Targets, Topic, Target
<1>8. ASSUME NEW a \in Alert, ExpireKey(a) PROVE Alert \subseteq Spaced'
  <2>1. UNCHANGED <<Senders, Keepers, Targets, repeats, excused>>
    BY <1>7, <1>8 DEF ExpireKey
  <2>2. /\ key'[a] = 0 /\ lastSent'[a] = 0
        /\ \A b \in Alert : b # a => key'[b] = key[b] /\ lastSent'[b] = lastSent[b]
    BY <1>8 DEF ExpireKey, TypeOK
  <2>3. a \in Spaced'
    BY <2>1, <2>2, Expired
  <2>4. \A b \in Alert : b # a => b \in Spaced'
    BY <2>1, <2>2, SpacedFrame
  <2>5. QED
    BY <2>3, <2>4
<1>9. ASSUME Bot \/ UNCHANGED vars PROVE Alert \subseteq Spaced'
  <2>1. UNCHANGED <<Senders, Keepers, Targets, key, lastSent, repeats, excused>>
    BY <1>7, <1>9 DEF Bot, vars, countVars
  <2>2. QED
    BY <2>1, SpacedFrame
<1>10. QED
  BY <1>3, <1>4, <1>5, <1>6, <1>8, <1>9 DEF Next, Execute

\* However many tasks overlap, an alert is repeated only for a message that
\* two tasks were about to send at once, a price that was not kept, or one
\* kept over a later message's.
THEOREM AlertsAreSpaced == Spec => []AlertsSpaced
<1>1. Init => SpacedInv
  BY TypeInit, SpacedInit DEF SpacedInv
<1>2. SpacedInv /\ [Next]_vars => SpacedInv'
  BY TypeStep, SpacedStep DEF SpacedInv
<1>3. SpacedInv => AlertsSpaced
  <2> SUFFICES ASSUME SpacedInv, NEW a \in Alert PROVE repeats[a] <= excused[a]
    BY DEF AlertsSpaced
  <2>1. a \in Spaced /\ repeats[a] \in Nat /\ excused[a] \in Nat /\ Waiting[a] \in Nat
    BY WaitingNat DEF SpacedInv, TypeOK
  <2>2. repeats[a] <= excused[a] \/ repeats[a] + Waiting[a] <= excused[a]
    BY <2>1 DEF Spaced
  <2>3. QED
    BY <2>1, <2>2
<1>4. QED
  BY <1>1, <1>2, <1>3, PTL DEF Spec
=============================================================================
