---------------------------- MODULE LlmKeysProofs ----------------------------
(****************************************************************************)
(* Proofs about LlmKeys, for any requests, ids, names, keys and caps.       *)
(****************************************************************************)
EXTENDS LlmKeys, FiniteSetTheorems, TLAPS

(* A table the constraints and the routes' own rules leave possible, with   *)
(* rows for the ids drawn.                                                  *)
Good(table, ids) ==
    /\ table \in [Id -> Row]
    /\ \A i \in Id : table[i].byok => Preset(table[i].content)
    /\ Rows(table) \subseteq ids
    /\ Admits(table)
    /\ Cardinality(Rows(table)) <= Cap
    /\ Rows(table) # {} => Active(table) # {}

(* No row of the table is an older one, or another one, under the same id.  *)
Inherits(table) ==
    \A i \in born : table[i].there =>
        /\ cred[i].there
        /\ cred[i].revision <= table[i].revision
        /\ cred[i].revision = table[i].revision
              => cred[i].content = table[i].content

LEMMA AnyContentType == AnyContent \in Content
<1>1. AnyKey \in Key
    BY KeyAssumption DEF AnyKey
<1> QED BY <1>1 DEF AnyContent, Content, Provider

LEMMA NoRowType == NoRow \in Row
  BY AnyContentType, NameAssumption, BoundAssumption DEF NoRow, Row

LEMMA IdleType == Idle \in RequestLocal
  BY NoRowType DEF Idle, NoRows, RequestLocal

LEMMA NoTestType == NoTest \in TestLocal
  BY AnyContentType, BoundAssumption DEF NoTest, TestLocal

LEMMA NoRowsGood == Rows(NoRows) = {} /\ Good(NoRows, {})
<1>1. Rows(NoRows) = {} /\ Active(NoRows) = {}
    BY DEF NoRows, NoRow, Rows, Active
<1>2. Admits(NoRows)
    BY <1>1, FS_EmptySet DEF Admits
<1>3. NoRows \in [Id -> Row] /\ \A i \in Id : ~NoRows[i].byok
    BY NoRowType DEF NoRows, NoRow
<1> QED BY <1>1, <1>2, <1>3, FS_EmptySet, BoundAssumption DEF Good

LEMMA InitIInv == Init => IInv
<1> SUFFICES ASSUME Init PROVE IInv
    OBVIOUS
<1>1. Good(cred, born)
    BY NoRowsGood DEF Init
<1>2. TypeOK
  <2>1. request \in [Request -> RequestLocal] /\ test \in TestLocal
      BY IdleType, NoTestType DEF Init
  <2>2. run \in RunLocal /\ gone \in 0 .. TTL + 1
      BY AnyContentType, BoundAssumption DEF Init, RunLocal
  <2> QED BY <1>1, <2>1, <2>2 DEF TypeOK, Good, Init
<1>3. NoBounce /\ GuardInv /\ TestInv
    BY DEF Init, NoBounce, GuardInv, TestInv, At, Idle, NoTest
<1>4. IsFiniteSet(born)
    BY FS_EmptySet DEF Init
<1> QED BY <1>1, <1>2, <1>3, <1>4 DEF IInv, Inv, Good, WithinCap, ActiveIfAny

LEMMA GoodNow == IInv => Good(cred, born)
  BY DEF IInv, Inv, TypeOK, Good, WithinCap, ActiveIfAny

-----------------------------------------------------------------------------
(* The guard protocol.                                                      *)

LEMMA LockStep ==
    ASSUME IInv, NEW p \in Request, Lock(p)
    PROVE  IInv'
<1> USE DEF IInv, Inv, TypeOK, At, Alone
<1>1. TypeOK'
    BY DEF Lock, RequestLocal
<1>2. NoBounce'
    BY DEF Lock, NoBounce, RequestLocal
<1>3. GuardInv'
    BY RequestAssumption DEF Lock, GuardInv, Alike, RequestLocal
<1>4. TestInv' /\ Admits(cred)' /\ WithinCap' /\ ActiveIfAny'
    BY DEF Lock, TestInv, Admits, WithinCap, ActiveIfAny
<1> QED BY <1>1, <1>2, <1>3, <1>4 DEF Lock

LEMMA GiveUpStep ==
    ASSUME IInv, NEW p \in Request, GiveUp(p)
    PROVE  IInv'
<1> USE DEF IInv, Inv, TypeOK, At, Alone
<1>1. TypeOK'
    BY IdleType DEF GiveUp, Unlock
<1>2. NoBounce'
    BY DEF GiveUp, NoBounce, Idle
<1>3. GuardInv'
    BY DEF GiveUp, GuardInv, Unlock, Idle
<1>4. TestInv' /\ Admits(cred)' /\ WithinCap' /\ ActiveIfAny'
    BY DEF GiveUp, TestInv, Admits, WithinCap, ActiveIfAny
<1> QED BY <1>1, <1>2, <1>3, <1>4 DEF GiveUp

(* A change that touches rows there are, and leaves a good table, commits;  *)
(* and no other request has read what it changes.                           *)
LEMMA CommitKeeps ==
    ASSUME IInv, NEW p \in Request, At(p, "read"),
           NEW touched \in SUBSET Rows(cred), NEW table,
           born' \in SUBSET Id, born \subseteq born', IsFiniteSet(born'),
           Good(table, born'), Inherits(table),
           Commit(p, touched, table)
    PROVE  IInv' /\ cred' = table
<1> USE DEF IInv, Inv, TypeOK, At, Alone
<1>1. /\ cred' = table
      /\ request' = [request EXCEPT ![p] = Idle]
      /\ guard' = NoOne
      /\ UNCHANGED <<test, run, gone>>
    BY DEF Commit, Good, GuardInv, Unlock
<1>2. TypeOK'
    BY <1>1, IdleType DEF Good
<1>3. NoBounce'
    BY <1>1 DEF NoBounce, Idle
<1>4. GuardInv'
    BY <1>1 DEF GuardInv, Idle
<1>5. TestInv'
  <2> SUFFICES ASSUME test.pc # "idle"
               PROVE  TestInv'
      BY <1>1 DEF TestInv
  <2>1. /\ test.id \in born
        /\ test.revision \in Int
        /\ cred[test.id].revision \in Int
        /\ table[test.id].revision \in Int
      BY BoundAssumption DEF TestInv, TestLocal, Row, Good
  <2> QED BY <1>1, <2>1 DEF TestInv, Inherits
<1>6. Admits(cred)' /\ WithinCap' /\ ActiveIfAny'
    BY <1>1 DEF Good, WithinCap, ActiveIfAny, Admits
<1> QED BY <1>1, <1>2, <1>3, <1>4, <1>5, <1>6

-----------------------------------------------------------------------------
(* The structural changes.                                                  *)

LEMMA ReadIsCurrent ==
    ASSUME IInv, NEW p \in Request, At(p, "read")
    PROVE  /\ request[p].rows \in [Id -> Row]
           /\ \A i \in Id : Alike(request[p].rows[i], cred[i])
           /\ Rows(request[p].rows) = Rows(cred)
           /\ Active(request[p].rows) = Active(cred)
  BY DEF IInv, Inv, TypeOK, GuardInv, RequestLocal, Alike, Rows, Active

LEMMA RowsAreFinite ==
    ASSUME IInv
    PROVE  /\ IsFiniteSet(Rows(cred)) /\ Cardinality(Rows(cred)) \in Nat
           /\ IsFiniteSet(Active(cred))
<1>1. IsFiniteSet(Rows(cred))
    BY FS_Subset DEF IInv, Inv, TypeOK
<1> QED BY <1>1, FS_Subset, FS_CardinalityType DEF Active

(* Contents may change: the constraints see the same table.                 *)
LEMMA SameShape ==
    ASSUME IInv, NEW table \in [Id -> Row],
           \A i \in Id : table[i].byok => Preset(table[i].content),
           \A i \in Id : /\ table[i].there = cred[i].there
                         /\ table[i].name = cred[i].name
                         /\ table[i].active = cred[i].active
    PROVE  Good(table, born)
<1>1. Rows(table) = Rows(cred) /\ Active(table) = Active(cred)
    BY DEF Rows, Active
<1>2. Admits(table)
    BY <1>1 DEF IInv, Admits, Rows
<1> QED BY <1>1, <1>2 DEF IInv, Inv, TypeOK, WithinCap, ActiveIfAny, Good

LEMMA UpdatedIsRow ==
    ASSUME NEW row \in Row, NEW old \in Row, Alike(old, row), NEW b \in Payload,
           old.revision < MaxRev
    PROVE  /\ Updated(row, old, b) \in Row
           /\ Updated(row, old, b).byok => Preset(Updated(row, old, b).content)
           /\ Updated(row, old, b).there = row.there
           /\ Updated(row, old, b).name = row.name
           /\ Updated(row, old, b).active = row.active
           /\ Updated(row, old, b).revision = row.revision + 1
<1>1. [provider |-> b.provider,
       key |-> IF b.keyGiven THEN b.key ELSE old.content.key] \in Content
    BY DEF Payload, Content, Row
<1>2. Byok(b.byok, b.provider, old.byok) \in BOOLEAN
    BY DEF Byok, Row
<1>3. old.revision + 1 \in 1 .. MaxRev /\ old.revision = row.revision
    BY BoundAssumption DEF Row, Alike
<1>4. old.verified \in BOOLEAN /\ row.verified \in BOOLEAN
    BY DEF Row
<1> DEFINE content == [provider |-> b.provider,
                       key |-> IF b.keyGiven THEN b.key ELSE old.content.key]
           byok == Byok(b.byok, b.provider, old.byok)
           verified == IF (b.keyGiven \/ b.provider # old.content.provider) /\ old.verified
                       THEN FALSE ELSE row.verified
<1>5. byok => Preset(content)
    BY DEF Byok, Preset, Payload, Provider
<1>6. Updated(row, old, b) = [row EXCEPT !.content = content, !.byok = byok,
                                 !.revision = old.revision + 1, !.verified = verified]
    BY DEF Updated
<1>7. content \in Content /\ byok \in BOOLEAN /\ verified \in BOOLEAN
    BY <1>1, <1>2, <1>4
<1> HIDE DEF content, byok, verified
<1> QED BY <1>3, <1>5, <1>6, <1>7 DEF Row

LEMMA PutUpdateStep ==
    ASSUME IInv, NEW p \in Request, PutUpdate(p)
    PROVE  /\ IInv'
           /\ \E i \in Active(cred) :
                 /\ cred'[i].active
                 /\ \A j \in Id \ {i} : cred'[j] = cred[j]
<1>1. At(p, "read") /\ born' = born
    BY DEF PutUpdate
<1>2. PICK i \in Active(request[p].rows), b \in Payload :
          LET old == request[p].rows[i]
          IN  /\ old.revision < MaxRev
              /\ Commit(p, {i}, [cred EXCEPT ![i] = Updated(@, old, b)])
    BY DEF PutUpdate
<1> DEFINE old == request[p].rows[i]
           table == [cred EXCEPT ![i] = Updated(@, old, b)]
<1>3. /\ i \in Active(cred) /\ i \in Rows(cred) /\ i \in Id
      /\ cred \in [Id -> Row] /\ old \in Row /\ Alike(old, cred[i])
    BY <1>1, ReadIsCurrent DEF Active, Rows, IInv, Inv, TypeOK
<1>4. /\ Updated(cred[i], old, b) \in Row
      /\ Updated(cred[i], old, b).byok
            => Preset(Updated(cred[i], old, b).content)
      /\ Updated(cred[i], old, b).there = cred[i].there
      /\ Updated(cred[i], old, b).name = cred[i].name
      /\ Updated(cred[i], old, b).active = cred[i].active
      /\ Updated(cred[i], old, b).revision = cred[i].revision + 1
    BY <1>2, <1>3, UpdatedIsRow
<1>5. Good(table, born)
    BY <1>3, <1>4, SameShape DEF IInv, Inv, TypeOK
<1>6. Inherits(table)
  <2>1. \A j \in Id : cred[j].revision \in Int
      BY <1>3, BoundAssumption DEF Row
  <2>2. table[i] = Updated(cred[i], old, b)
      BY <1>3
  <2>3. \A j \in Id \ {i} : table[j] = cred[j]
      BY <1>3
  <2>4. born \subseteq Id
      BY DEF IInv, Inv, TypeOK
  <2> HIDE DEF table
  <2> QED BY <1>3, <1>4, <2>1, <2>2, <2>3, <2>4 DEF Inherits
<1>7. IInv' /\ cred' = table
    BY <1>1, <1>2, <1>3, <1>5, <1>6, CommitKeeps DEF IInv, Inv, TypeOK
<1>8. cred'[i].active /\ \A j \in Id \ {i} : cred'[j] = cred[j]
  <2>1. cred'[i] = Updated(cred[i], old, b)
      BY <1>3, <1>7
  <2> QED BY <1>3, <1>4, <1>7, <2>1 DEF Active
<1> QED BY <1>3, <1>7, <1>8

(* A new row, under an id and a name that no row has, active exactly when   *)
(* it is the first.                                                         *)
LEMMA InsertedIsRow ==
    ASSUME NEW name \in Name, NEW b \in Payload, NEW active \in BOOLEAN
    PROVE  /\ Inserted(name, b, active) \in Row
           /\ Inserted(name, b, active).byok
                 => Preset(Inserted(name, b, active).content)
           /\ Inserted(name, b, active).there
           /\ Inserted(name, b, active).name = name
           /\ Inserted(name, b, active).active = active
<1>1. [provider |-> b.provider, key |-> b.key] \in Content
    BY DEF Payload, Content
<1>2. Byok(b.byok, b.provider, FALSE) \in BOOLEAN
    BY DEF Byok
<1> QED BY <1>1, <1>2, BoundAssumption
           DEF Inserted, Row, Byok, Preset, Payload, Provider

LEMMA InsertKeeps ==
    ASSUME IInv, NEW p \in Request, At(p, "read"),
           NEW i \in Id \ born, NEW b \in Payload,
           NEW name \in Name \ {cred[j].name : j \in Rows(cred)},
           Cardinality(Rows(cred)) < Cap,
           born' = born \cup {i},
           Commit(p, {}, [cred EXCEPT ![i] =
                              Inserted(name, b, Rows(cred) = {})])
    PROVE  IInv' /\ \A j \in born : cred'[j] = cred[j]
<1> DEFINE table == [cred EXCEPT ![i] = Inserted(name, b, Rows(cred) = {})]
<1> USE DEF IInv, Inv, TypeOK
<1>1. /\ table \in [Id -> Row]
      /\ \A j \in Id : table[j].byok => Preset(table[j].content)
    BY InsertedIsRow
<1>2. Rows(table) = Rows(cred) \cup {i} /\ i \notin Rows(cred)
    BY InsertedIsRow DEF Rows
<1>3. Active(table) = IF Rows(cred) = {} THEN {i} ELSE Active(cred)
  <2>1. table[i].active = (Rows(cred) = {})
      BY InsertedIsRow
  <2>2. \A j \in Rows(cred) : table[j] = cred[j]
      BY <1>2 DEF Rows
  <2>3. i \notin Active(cred)
      BY <1>2 DEF Active
  <2>4. CASE Rows(cred) = {}
      BY <1>2, <2>1, <2>4 DEF Active
  <2>5. CASE Rows(cred) # {}
      BY <1>2, <2>1, <2>2, <2>3, <2>5 DEF Active
  <2> QED BY <2>4, <2>5
<1>4. Cardinality(Rows(table)) <= Cap
  <2>1. Cardinality(Rows(cred) \cup {i}) = Cardinality(Rows(cred)) + 1
      BY <1>2, RowsAreFinite, FS_AddElement
  <2>2. Cardinality(Rows(cred)) \in Nat /\ Cap \in Nat
      BY RowsAreFinite, BoundAssumption
  <2> HIDE DEF table, IInv, Inv, TypeOK
  <2> QED BY <1>2, <2>1, <2>2
<1>5. Admits(table)
  <2>1. Cardinality(Active(table)) <= 1
    <3>1. Cardinality({i}) = 1
        BY FS_Singleton
    <3>2. Cardinality(Active(cred)) <= 1
        BY DEF Admits
    <3> HIDE DEF table
    <3> QED BY <1>3, <3>1, <3>2
  <2>2. \A j, k \in Rows(table) : table[j].name = table[k].name => j = k
    <3>1. table[i].name = name
        BY InsertedIsRow
    <3>2. \A j \in Rows(cred) : table[j].name = cred[j].name /\ cred[j].name # name
        BY <1>2 DEF Rows
    <3>3. \A j, k \in Rows(cred) : cred[j].name = cred[k].name => j = k
        BY DEF Admits
    <3> HIDE DEF table
    <3> QED BY <1>2, <3>1, <3>2, <3>3
  <2> QED BY <2>1, <2>2 DEF Admits
<1>6. Rows(table) # {} => Active(table) # {}
    BY <1>3 DEF ActiveIfAny
<1>7. Good(table, born')
    BY <1>1, <1>2, <1>4, <1>5, <1>6 DEF Good
<1>8. Inherits(table)
    BY BoundAssumption DEF Inherits, Row
<1>9. IsFiniteSet(born')
    BY FS_AddElement
<1>10. {} \in SUBSET Rows(cred) /\ born' \in SUBSET Id /\ born \subseteq born'
    OBVIOUS
<1> HIDE DEF table
<1>11. At(p, "read") /\ Commit(p, {}, table)
    BY DEF table
<1> HIDE DEF IInv, Inv, TypeOK
<1>12. IInv' /\ cred' = table
    BY <1>7, <1>8, <1>9, <1>10, <1>11, CommitKeeps
<1>13. \A j \in born : table[j] = cred[j]
    BY DEF table, IInv, Inv, TypeOK
<1> QED BY <1>12, <1>13

LEMMA PutInsertStep ==
    ASSUME IInv, NEW p \in Request, PutInsert(p)
    PROVE  IInv' /\ \A j \in born : cred'[j] = cred[j]
<1>1. At(p, "read") /\ Active(request[p].rows) = {}
    BY DEF PutInsert
<1>2. Rows(cred) = {}
    BY <1>1, ReadIsCurrent DEF IInv, Inv, ActiveIfAny
<1>3. PICK i \in Id \ born, b \in Payload :
          /\ born' = born \cup {i}
          /\ Commit(p, {}, [cred EXCEPT ![i] = Inserted("default", b, TRUE)])
    BY DEF PutInsert
<1>4. Commit(p, {}, [cred EXCEPT ![i] =
                         Inserted("default", b, Rows(cred) = {})])
    BY <1>2, <1>3
<1>5. Cardinality(Rows(cred)) < Cap
    BY <1>2, FS_EmptySet, BoundAssumption
<1>6. "default" \in Name \ {cred[j].name : j \in Rows(cred)}
    BY <1>2, NameAssumption
<1> QED BY <1>1, <1>3, <1>4, <1>5, <1>6, InsertKeeps

LEMMA CreateStep ==
    ASSUME IInv, NEW p \in Request, Create(p)
    PROVE  IInv' /\ \A j \in born : cred'[j] = cred[j]
<1>1. /\ At(p, "read")
      /\ Cardinality(Rows(request[p].rows)) < Cap
      /\ \E i \in Id \ born, b \in Payload,
            n \in Name \ {request[p].rows[j].name : j \in Rows(request[p].rows)} :
            /\ born' = born \cup {i}
            /\ Commit(p, {}, [cred EXCEPT ![i] =
                                  Inserted(n, b, Rows(request[p].rows) = {})])
    BY DEF Create
<1>2. Rows(request[p].rows) = Rows(cred)
    BY <1>1, ReadIsCurrent
<1>3. {request[p].rows[j].name : j \in Rows(cred)}
          = {cred[j].name : j \in Rows(cred)}
    BY <1>1, ReadIsCurrent DEF Alike, Rows
<1>4. PICK i \in Id \ born, b \in Payload,
           n \in Name \ {cred[j].name : j \in Rows(cred)} :
          /\ born' = born \cup {i}
          /\ Commit(p, {}, [cred EXCEPT ![i] = Inserted(n, b, Rows(cred) = {})])
    BY <1>1, <1>2, <1>3
<1>5. Cardinality(Rows(cred)) < Cap
    BY <1>1, <1>2
<1> QED BY <1>1, <1>4, <1>5, InsertKeeps

(* A row whose flag is set anew is the row in everything else.              *)
LEMMA Flipped ==
    ASSUME NEW row \in Row, NEW a \in BOOLEAN
    PROVE  LET new == [row EXCEPT !.active = a]
           IN  /\ new \in Row /\ new.active = a
               /\ new.there = row.there /\ new.name = row.name
               /\ new.content = row.content /\ new.byok = row.byok
               /\ new.revision = row.revision
    BY DEF Row

LEMMA ActivateStep ==
    ASSUME IInv, NEW p \in Request, Activate(p)
    PROVE  /\ IInv'
           /\ \A j \in Id : cred'[j].revision = cred[j].revision
<1> DEFINE read == request[p].rows
<1> USE DEF IInv, Inv, TypeOK
<1>1. At(p, "read") /\ born' = born
    BY DEF Activate
<1>2. /\ \A j \in Id : Alike(read[j], cred[j])
      /\ Rows(read) = Rows(cred) /\ Active(read) = Active(cred)
    BY <1>1, ReadIsCurrent
<1>3. PICK i \in Rows(read) :
          IF read[i].active
          THEN Commit(p, {}, cred)
          ELSE Commit(p, Active(read) \cup {i}, Switched(i, read))
    BY DEF Activate
<1>4. CASE read[i].active
  <2>1. Good(cred, born') /\ Inherits(cred)
      BY <1>1, GoodNow, BoundAssumption DEF Inherits, Row
  <2>2. {} \in SUBSET Rows(cred) /\ born' \in SUBSET Id /\ born \subseteq born'
      BY <1>1
  <2>3. IInv' /\ cred' = cred
      BY <1>1, <1>3, <1>4, <2>1, <2>2, CommitKeeps
  <2> QED BY <2>3
<1>5. CASE ~read[i].active
  <2> DEFINE table == Switched(i, read)
  <2>1. i \in Id /\ cred[i].there /\ ~cred[i].active
      BY <1>2, <1>5 DEF Rows, Alike
  <2>0. \A j \in Id : \E a \in BOOLEAN :
            /\ table[j] = [cred[j] EXCEPT !.active = a]
            /\ a = IF j = i THEN TRUE
                   ELSE IF j \in Active(cred) THEN FALSE ELSE cred[j].active
    <3> SUFFICES ASSUME NEW j \in Id
                 PROVE  LET a == IF j = i THEN TRUE
                                 ELSE IF j \in Active(cred) THEN FALSE
                                 ELSE cred[j].active
                        IN  /\ a \in BOOLEAN
                            /\ table[j] = [cred[j] EXCEPT !.active = a]
        OBVIOUS
    <3>1. cred[j] \in Row
        OBVIOUS
    <3>2. cred[j] = [cred[j] EXCEPT !.active = cred[j].active]
        BY <3>1 DEF Row
    <3> QED BY <1>2, <3>1, <3>2 DEF Switched, Row
  <2>01. table = [j \in Id |-> table[j]]
      BY DEF Switched
  <2>02. cred \in [Id -> Row]
      OBVIOUS
  <2>03. Admits(cred)
      OBVIOUS
  <2>04. Rows(cred) \subseteq born /\ WithinCap
         /\ \A j \in Id : cred[j].byok => Preset(cred[j].content)
      OBVIOUS
  <2> HIDE DEF table, IInv, Inv, TypeOK, read
  <2>2. /\ table \in [Id -> Row]
        /\ \A j \in Id : /\ table[j].there = cred[j].there
                         /\ table[j].name = cred[j].name
                         /\ table[j].content = cred[j].content
                         /\ table[j].byok = cred[j].byok
                         /\ table[j].revision = cred[j].revision
        /\ \A j \in Id : table[j].active
               = IF j = i THEN TRUE
                 ELSE IF j \in Active(cred) THEN FALSE ELSE cred[j].active
    <3> SUFFICES ASSUME NEW j \in Id
                 PROVE  /\ table[j] \in Row
                        /\ table[j].there = cred[j].there
                        /\ table[j].name = cred[j].name
                        /\ table[j].content = cred[j].content
                        /\ table[j].byok = cred[j].byok
                        /\ table[j].revision = cred[j].revision
                        /\ table[j].active
                               = IF j = i THEN TRUE
                                 ELSE IF j \in Active(cred) THEN FALSE
                                 ELSE cred[j].active
        BY <2>01
    <3>1. PICK a \in BOOLEAN :
            /\ table[j] = [cred[j] EXCEPT !.active = a]
            /\ a = IF j = i THEN TRUE
                   ELSE IF j \in Active(cred) THEN FALSE ELSE cred[j].active
        BY <2>0
    <3> DEFINE row == cred[j]
               new == [row EXCEPT !.active = a]
    <3>2. row \in Row
        BY <2>02
    <3> HIDE DEF row
    <3>3. /\ new \in Row /\ new.active = a
          /\ new.there = row.there /\ new.name = row.name
          /\ new.content = row.content /\ new.byok = row.byok
          /\ new.revision = row.revision
        BY <3>2, Flipped
    <3>4. table[j] = new
        BY <3>1 DEF row
    <3> HIDE DEF new
    <3> QED BY <3>1, <3>3, <3>4 DEF row
  <2>3. Rows(table) = Rows(cred)
      BY <2>2 DEF Rows
  <2>4. Active(table) = {i}
      BY <2>1, <2>2, <2>3 DEF Rows, Active
  <2>5. Admits(table)
    <3>1. Cardinality({i}) = 1
        BY FS_Singleton
    <3>2. \A j, k \in Rows(table) : table[j].name = table[k].name => j = k
        BY <2>2, <2>3, <2>03 DEF Admits, Rows
    <3> QED BY <2>4, <3>1, <3>2 DEF Admits
  <2>6. Good(table, born)
      BY <2>2, <2>3, <2>4, <2>5, <2>04 DEF Good, WithinCap
  <2>7. Inherits(table)
    <3>1. \A j \in born : j \in Id /\ cred[j].revision \in Int
        BY <2>02, BoundAssumption DEF IInv, Inv, TypeOK, Row
    <3> QED BY <2>2, <3>1 DEF Inherits
  <2>8. Active(read) \cup {i} \in SUBSET Rows(cred)
      BY <1>2, <2>1 DEF Active, Rows
  <2>9. IInv' /\ cred' = table
    <3>1. born' \in SUBSET Id /\ born \subseteq born' /\ Good(table, born')
          /\ IsFiniteSet(born')
        BY <1>1, <2>6 DEF IInv, Inv, TypeOK
    <3>2. Commit(p, Active(read) \cup {i}, table)
        BY <1>3, <1>5 DEF table
    <3> QED BY <1>1, <2>7, <2>8, <3>1, <3>2, CommitKeeps
  <2> QED BY <2>2, <2>9
<1> QED BY <1>4, <1>5

LEMMA DeleteStep ==
    ASSUME IInv, NEW p \in Request, Delete(p)
    PROVE  /\ IInv'
           /\ \A j \in Id : cred'[j] = cred[j] \/ ~cred'[j].there
<1> USE DEF IInv, Inv, TypeOK
<1>1. At(p, "read") /\ born' = born
    BY DEF Delete
<1>2. PICK i \in Id : /\ MayDelete(request[p].rows[i])
                      /\ Commit(p, {}, [cred EXCEPT ![i] = NoRow])
    BY DEF Delete
<1> DEFINE table == [cred EXCEPT ![i] = NoRow]
<1>3. ~cred[i].active
    BY <1>1, <1>2, ReadIsCurrent DEF MayDelete, Alike
<1>4. /\ table \in [Id -> Row] /\ ~table[i].there /\ ~table[i].byok
      /\ \A j \in Id \ {i} : table[j] = cred[j]
    BY NoRowType DEF NoRow
<1>5. Rows(table) = Rows(cred) \ {i}
    BY <1>4 DEF Rows
<1>6. Active(table) = Active(cred)
    BY <1>3, <1>4, <1>5 DEF Active
<1>7. Admits(table)
    BY <1>4, <1>5, <1>6 DEF Admits
<1>8. Cardinality(Rows(table)) <= Cap
  <2>1. Cardinality(Rows(cred) \ {i}) <= Cardinality(Rows(cred))
      BY RowsAreFinite, FS_Subset
  <2>2. IsFiniteSet(Rows(cred) \ {i})
      BY RowsAreFinite, FS_Subset
  <2>3. Cardinality(Rows(cred) \ {i}) \in Nat
      BY <2>2, FS_CardinalityType
  <2>4. Cardinality(Rows(cred)) \in Nat /\ Cap \in Nat
      BY RowsAreFinite, BoundAssumption
  <2>5. Cardinality(Rows(cred)) <= Cap
      BY DEF WithinCap
  <2> HIDE DEF table, IInv, Inv, TypeOK
  <2> QED BY <1>5, <2>1, <2>3, <2>4, <2>5
<1>9. Good(table, born)
    BY <1>4, <1>5, <1>6, <1>7, <1>8 DEF Good, ActiveIfAny
<1>10. Inherits(table)
    BY <1>4, BoundAssumption DEF Inherits, Row
<1>11. IInv' /\ cred' = table
  <2>1. /\ {} \in SUBSET Rows(cred)
        /\ born' \in SUBSET Id /\ born \subseteq born' /\ Good(table, born')
      BY <1>1, <1>9
  <2> QED BY <1>1, <1>2, <1>10, <2>1, CommitKeeps
<1> QED BY <1>4, <1>11

LEMMA WipeStep ==
    ASSUME IInv, NEW p \in Request, Wipe(p)
    PROVE  IInv' /\ \A j \in Id : ~cred'[j].there
<1> USE DEF IInv, Inv, TypeOK
<1> DEFINE table == [i \in Id |-> IF request[p].rows[i].there THEN NoRow
                                                              ELSE cred[i]]
<1>1. At(p, "read") /\ born' = born /\ Commit(p, {}, table)
    BY DEF Wipe
<1>2. /\ table \in [Id -> Row]
      /\ \A j \in Id : ~table[j].there
      /\ \A j \in Id : table[j].byok => Preset(table[j].content)
    BY <1>1, NoRowType, ReadIsCurrent DEF Alike, NoRow
<1>3. Rows(table) = {} /\ Active(table) = {}
    BY <1>2 DEF Rows, Active
<1>4. Good(table, born')
  <2>1. Cardinality(Rows(table)) = 0 /\ Cardinality(Active(table)) = 0
      BY <1>3, FS_EmptySet
  <2>2. Cap \in Nat
      BY BoundAssumption
  <2> HIDE DEF table, IInv, Inv, TypeOK
  <2> QED BY <1>2, <1>3, <2>1, <2>2 DEF Good, Admits
<1>5. Inherits(table)
    BY <1>2 DEF Inherits
<1>6. IInv' /\ cred' = table
  <2>1. /\ {} \in SUBSET Rows(cred)
        /\ born' \in SUBSET Id /\ born \subseteq born'
      BY <1>1
  <2> QED BY <1>1, <1>4, <1>5, <2>1, CommitKeeps
<1> QED BY <1>2, <1>6

LEMMA ChangeStep ==
    ASSUME IInv, NEW p \in Request, Change(p)
    PROVE  IInv'
  BY LockStep, GiveUpStep, PutUpdateStep, PutInsertStep, CreateStep,
     ActivateStep, DeleteStep, WipeStep DEF Change

-----------------------------------------------------------------------------
(* The test route, and the run.                                             *)

LEMMA TestStep ==
    ASSUME IInv, Test
    PROVE  IInv'
<1> USE DEF IInv, Inv, TypeOK, unchangedTables
<1>1. ASSUME NEW open \in BOOLEAN, StartTest(open)
      PROVE  IInv'
  <2>1. PICK i \in Active(cred) :
            test' = [pc |-> "call", id |-> i, revision |-> cred[i].revision,
                     content |-> cred[i].content]
      BY <1>1 DEF StartTest, Resolved
  <2>2. i \in Id /\ i \in born /\ cred[i] \in Row
      BY DEF Active, Rows
  <2>3. TypeOK'
      BY <1>1, <2>1, <2>2 DEF StartTest, TestLocal, Row
  <2>4. TestInv'
      BY <1>1, <2>1, <2>2, BoundAssumption DEF StartTest, TestInv, Row
  <2>5. GuardInv' /\ NoBounce' /\ Admits(cred)' /\ WithinCap' /\ ActiveIfAny'
      BY <1>1 DEF StartTest, GuardInv, NoBounce, At, Admits, WithinCap,
                  ActiveIfAny
  <2> QED BY <1>1, <2>3, <2>4, <2>5 DEF StartTest
<1>2. ASSUME NEW ok \in BOOLEAN, CallTest(ok)
      PROVE  IInv'
  <2>1. TypeOK'
      BY <1>2, NoTestType DEF CallTest, TestLocal
  <2>2. TestInv'
      BY <1>2 DEF CallTest, TestInv, TestLocal, NoTest
  <2>3. GuardInv' /\ NoBounce' /\ Admits(cred)' /\ WithinCap' /\ ActiveIfAny'
      BY <1>2 DEF CallTest, GuardInv, NoBounce, At, Admits, WithinCap,
                  ActiveIfAny
  <2> QED BY <1>2, <2>1, <2>2, <2>3 DEF CallTest
<1>3. CASE Stamp
  <2>1. /\ cred' \in [Id -> Row]
        /\ \A i \in Id : Alike(cred[i], cred'[i])
      BY <1>3 DEF Stamp, Alike, Row
  <2>2. Rows(cred') = Rows(cred) /\ Active(cred') = Active(cred)
      BY <2>1 DEF Rows, Active, Alike
  <2>3. TypeOK'
      BY <1>3, <2>1, <2>2, NoTestType DEF Stamp, Alike
  <2>4. GuardInv'
      BY <1>3, <2>1 DEF Stamp, GuardInv, At, Alike
  <2>5. Admits(cred')
      BY <2>1, <2>2 DEF Admits, Rows, Alike
  <2>6. TestInv' /\ NoBounce' /\ WithinCap' /\ ActiveIfAny'
      BY <1>3, <2>2
         DEF Stamp, TestInv, NoTest, NoBounce, At, WithinCap, ActiveIfAny
  <2> QED BY <1>3, <2>3, <2>4, <2>5, <2>6 DEF Stamp
<1> QED BY <1>1, <1>2, <1>3 DEF Test

LEMMA RunLeavesTables ==
    ASSUME Run
    PROVE  UNCHANGED <<cred, born, guard, request, test>>
  BY DEF Run, FirstRead, UseMemo, SecondRead, Classified, Tick,
         unchangedTables

LEMMA RunStep ==
    ASSUME IInv, Run
    PROVE  IInv'
<1> USE DEF IInv, Inv, TypeOK
<1>1. run' \in RunLocal /\ gone' \in 0 .. TTL + 1
  <2>1. CASE FirstRead
      BY <2>1, AnyContentType, BoundAssumption
         DEF FirstRead, Settled, RunLocal
  <2>2. CASE UseMemo \/ Classified
      BY <2>2 DEF UseMemo, Classified, RunLocal
  <2>3. CASE SecondRead
      BY <2>3 DEF SecondRead, RunLocal, Active, Rows, Row
  <2>4. CASE Tick
      BY <2>4, BoundAssumption DEF Tick, RunLocal
  <2> QED BY <2>1, <2>2, <2>3, <2>4 DEF Run
<1> QED BY <1>1, RunLeavesTables
           DEF GuardInv, TestInv, NoBounce, At, Admits, WithinCap, ActiveIfAny

LEMMA StutterIInv == IInv /\ UNCHANGED vars => IInv'
  BY DEF vars, IInv, Inv, TypeOK, GuardInv, TestInv, NoBounce, At, Admits,
         WithinCap, ActiveIfAny

-----------------------------------------------------------------------------
(* The inductive invariant of the table, its lock and the test route.       *)
THEOREM Invariance == Spec => []IInv
<1>1. IInv /\ [Next]_vars => IInv'
  <2> SUFFICES ASSUME IInv, [Next]_vars
               PROVE  IInv'
      OBVIOUS
  <2> QED BY ChangeStep, TestStep, RunStep, StutterIInv DEF Next
<1> QED BY InitIInv, <1>1, PTL DEF Spec

(* With the lock of the user's row, any number of creates, rewrites,        *)
(* switches and deletes at once keep the cap and an active row, and none of *)
(* them is ever refused by a constraint of the table.                       *)
THEOREM TableIsSound == Spec => []Inv
<1>1. IInv => Inv
    BY DEF IInv
<1> QED BY Invariance, <1>1, PTL

(* No change of a credential marks it as verified.                          *)
LEMMA ChangesDoNotStamp ==
    ASSUME TypeOK, NEW p \in Request, Change(p),
           NEW j \in Id, cred'[j].verified
    PROVE  cred[j].verified
<1> USE DEF TypeOK
<1>1. ASSUME NEW touched, NEW table, Commit(p, touched, table),
             table[j].verified => cred[j].verified
      PROVE  cred[j].verified
    BY <1>1 DEF Commit
<1>2. CASE Lock(p) \/ GiveUp(p)
    BY <1>2 DEF Lock, GiveUp
<1>3. CASE PutUpdate(p)
  <2>1. PICK i \in Active(request[p].rows), b \in Payload :
            Commit(p, {i}, [cred EXCEPT ![i] =
                                Updated(@, request[p].rows[i], b)])
      BY <1>3 DEF PutUpdate
  <2> DEFINE table == [cred EXCEPT ![i] = Updated(@, request[p].rows[i], b)]
  <2>2. table[j].verified => cred[j].verified
      BY DEF Updated, Row
  <2> HIDE DEF table
  <2> QED BY <1>1, <2>1, <2>2 DEF table
<1>4. ASSUME NEW i \in Id, NEW n, NEW b, NEW active,
             Commit(p, {}, [cred EXCEPT ![i] = Inserted(n, b, active)])
      PROVE  cred[j].verified
  <2>1. [cred EXCEPT ![i] = Inserted(n, b, active)][j].verified
            => cred[j].verified
      BY DEF Inserted
  <2> QED BY <1>1, <1>4, <2>1
<1>5. CASE PutInsert(p)
    BY <1>4, <1>5 DEF PutInsert
<1>6. CASE Create(p)
    BY <1>4, <1>6 DEF Create
<1>7. CASE Activate(p)
  <2>1. PICK i \in Rows(request[p].rows) :
            \/ Commit(p, {}, cred)
            \/ Commit(p, Active(request[p].rows) \cup {i},
                      Switched(i, request[p].rows))
      BY <1>7 DEF Activate
  <2>2. Switched(i, request[p].rows)[j].verified => cred[j].verified
      BY DEF Switched, Row
  <2> QED BY <1>1, <2>1, <2>2
<1>8. CASE Delete(p)
  <2>1. PICK i \in Id : Commit(p, {}, [cred EXCEPT ![i] = NoRow])
      BY <1>8 DEF Delete
  <2>2. [cred EXCEPT ![i] = NoRow][j].verified => cred[j].verified
      BY DEF NoRow
  <2> QED BY <1>1, <2>1, <2>2
<1>9. CASE Wipe(p)
  <2> DEFINE table == [i \in Id |-> IF request[p].rows[i].there THEN NoRow
                                                                ELSE cred[i]]
  <2>1. table[j].verified => cred[j].verified
      BY DEF NoRow
  <2>2. Commit(p, {}, table)
      BY <1>9 DEF Wipe
  <2> QED BY <1>1, <2>1, <2>2
<1> QED BY <1>2, <1>3, <1>5, <1>6, <1>7, <1>8, <1>9 DEF Change

(* A stamp of the test route is of the contents it tried, however many      *)
(* rewrites and deletes happened while its call was out.                    *)
THEOREM StampIsTrue == Spec => StampIsOfWhatWasTested
<1>1. ASSUME IInv, [Next]_vars, NEW i \in Id,
             ~cred[i].verified, cred'[i].verified
      PROVE  cred[i].there /\ cred[i].content = test.content
  <2>1. TypeOK
      BY <1>1 DEF IInv, Inv
  <2>2. CASE Stamp
      BY <1>1, <2>1, <2>2 DEF Stamp, Stamps, IInv, TestInv, TypeOK
  <2>3. CASE \E p \in Request : Change(p)
      BY <1>1, <2>1, <2>3, ChangesDoNotStamp
  <2>4. CASE Run
      BY <1>1, <2>4, RunLeavesTables
  <2>5. CASE Test /\ ~Stamp
      BY <1>1, <2>5 DEF Test, StartTest, CallTest, unchangedTables
  <2>6. CASE UNCHANGED vars
      BY <1>1, <2>6 DEF vars
  <2> QED BY <1>1, <2>2, <2>3, <2>4, <2>5, <2>6 DEF Next
<1>2. IInv /\ [Next]_vars
        => [\A i \in Id : ~cred[i].verified /\ cred'[i].verified
               => cred[i].there /\ cred[i].content = test.content]_vars
    BY <1>1
<1> QED BY Invariance, <1>2, PTL DEF Spec, StampIsOfWhatWasTested

(* A rewrite goes to the credential that is active when it commits: the     *)
(* lock is taken before the active one is looked up.                        *)
THEOREM PutIsOfTheActive == Spec => PutWritesTheActive
<1>1. ASSUME IInv, [Next]_vars, NEW j \in Id, cred[j].there, cred'[j].there,
             cred'[j].revision # cred[j].revision
      PROVE  cred[j].active /\ cred'[j].active
  <2>0. j \in born
      BY <1>1 DEF IInv, Inv, TypeOK, Rows
  <2>1. ASSUME NEW p \in Request, Change(p)
        PROVE  cred[j].active /\ cred'[j].active
    <3>1. CASE PutUpdate(p)
        BY <1>1, <3>1, PutUpdateStep DEF Active
    <3>2. CASE PutInsert(p) \/ Create(p)
        BY <1>1, <2>0, <3>2, PutInsertStep, CreateStep
    <3>3. CASE Activate(p) \/ Delete(p) \/ Wipe(p)
        BY <1>1, <3>3, ActivateStep, DeleteStep, WipeStep
    <3>4. CASE Lock(p) \/ GiveUp(p)
        BY <1>1, <3>4 DEF Lock, GiveUp
    <3> QED BY <2>1, <3>1, <3>2, <3>3, <3>4 DEF Change
  <2>2. CASE Run
      BY <1>1, <2>2, RunLeavesTables
  <2>3. CASE Test
    <3>1. cred \in [Id -> Row]
        BY <1>1 DEF IInv, Inv, TypeOK
    <3>2. CASE Stamp
        BY <1>1, <3>1, <3>2 DEF Stamp, Row
    <3>3. CASE ~Stamp
        BY <1>1, <2>3, <3>3 DEF Test, StartTest, CallTest, unchangedTables
    <3> QED BY <3>2, <3>3
  <2>4. CASE UNCHANGED vars
      BY <1>1, <2>4 DEF vars
  <2> QED BY <1>1, <2>1, <2>2, <2>3, <2>4 DEF Next
<1>2. IInv /\ [Next]_vars
        => [\A i \in Id : cred[i].there /\ cred'[i].there
                          /\ cred'[i].revision # cred[i].revision
               => cred[i].active /\ cred'[i].active]_vars
    BY <1>1
<1> QED BY Invariance, <1>2, PTL DEF Spec, PutWritesTheActive

-----------------------------------------------------------------------------
(* The memo of the run's router.                                            *)

LEMMA OthersLeaveRun ==
    ASSUME Test \/ \E p \in Request : Change(p)
    PROVE  UNCHANGED <<run, gone>>
<1>1. CASE Test
    BY <1>1 DEF Test, StartTest, CallTest, Stamp
<1>2. ASSUME NEW p \in Request, Change(p)
      PROVE  Alone(p)
    BY <1>2 DEF Change, Lock, GiveUp, PutUpdate, PutInsert, Create, Activate,
                Delete, Wipe, Commit
<1> QED BY <1>1, <1>2 DEF Alone

LEMMA MemoStep ==
    ASSUME TypeOK, MemoInv, Run
    PROVE  MemoInv'
<1> USE DEF MemoInv, RevocationIsPrompt
<1>0. /\ run \in RunLocal /\ run.age \in Nat /\ gone \in Nat
      /\ TTL \in Nat /\ TTL > 0
    BY BoundAssumption DEF TypeOK, RunLocal
<1>1. CASE FirstRead
    BY <1>0, <1>1 DEF FirstRead, Settled
<1>2. CASE UseMemo
    BY <1>0, <1>2 DEF UseMemo, Expired, RunLocal
<1>3. CASE SecondRead
    BY <1>0, <1>3 DEF SecondRead, RunLocal
<1>4. CASE Classified
    BY <1>0, <1>4 DEF Classified, RunLocal
<1>5. CASE Tick
  <2>1. /\ run'.age = run.age + 1 /\ run'.mode = run.mode /\ run'.pc = run.pc
        /\ run.pc # "routed"
        /\ run.mode # "user" => gone' = 0
        /\ gone' = 0 \/ gone' = gone \/ gone' = gone + 1
      BY <1>0, <1>5 DEF Tick, RunLocal
  <2> QED BY <1>0, <2>1
<1> QED BY <1>1, <1>2, <1>3, <1>4, <1>5 DEF Run

(* A run bills a key for less than the memo's time after the user has opted *)
(* out of it, switched, rewritten or deleted it.                            *)
THEOREM RevocationPrompt == Spec => []RevocationIsPrompt
<1>1. Init => MemoInv
    BY BoundAssumption DEF Init, MemoInv, RevocationIsPrompt
<1>2. IInv /\ MemoInv /\ [Next]_vars => MemoInv'
  <2>1. ASSUME MemoInv, UNCHANGED <<run, gone>>
        PROVE  MemoInv'
      BY <2>1 DEF MemoInv, RevocationIsPrompt
  <2>2. IInv => TypeOK
      BY DEF IInv, Inv
  <2> QED BY <2>1, <2>2, MemoStep, OthersLeaveRun DEF Next, vars
<1>3. MemoInv => RevocationIsPrompt
    BY DEF MemoInv
<1> QED BY Invariance, <1>1, <1>2, <1>3, PTL DEF Spec

(* A key is picked for billing in the state in which the user consents to   *)
(* it: the one active row is the one whose opt-in the second read has seen. *)
THEOREM RoutedWithConsent == Spec => RoutesWithConsent
<1>1. ASSUME IInv, [Next]_vars, run.mode # "user", run'.mode = "user"
      PROVE  Consented(run'.content)
  <2>0. /\ TypeOK /\ IsFiniteSet(Active(cred)) /\ Cardinality(Active(cred)) <= 1
        /\ run \in RunLocal
    <3>1. Active(cred) \subseteq born
        BY <1>1 DEF IInv, Inv, TypeOK, Active
    <3> QED BY <1>1, <3>1, FS_Subset DEF IInv, Inv, TypeOK, Admits
  <2>1. SecondRead
    <3>1. Run
        BY <1>1, OthersLeaveRun DEF Next, vars
    <3> QED BY <1>1, <2>0, <3>1
               DEF Run, FirstRead, Settled, UseMemo, Classified, Tick, RunLocal
  <2>2. PICK e \in Active(cred) : Eligible(e)
      BY <1>1, <2>0, <2>1 DEF SecondRead, RunLocal
  <2>3. PICK i \in Active(cred) : run'.content = cred[i].content
      BY <2>0, <2>1, <2>2 DEF SecondRead, RunLocal
  <2>4. i = e
    <3>1. Cardinality(Active(cred)) = 1
        BY <2>0, <2>2, FS_EmptySet, FS_CardinalityType
    <3> QED BY <2>0, <3>1, FS_Singleton
  <2> QED BY <2>2, <2>3, <2>4 DEF Consented, Eligible
<1>2. IInv /\ [Next]_vars
        => [run.mode # "user" /\ run'.mode = "user" => Consented(run'.content)]_vars
    BY <1>1
<1> QED BY Invariance, <1>2, PTL DEF Spec, RoutesWithConsent
==============================================================================
