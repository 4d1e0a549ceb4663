------------------------- MODULE ProfileStoreProofs -------------------------
(***************************************************************************)
(* Proofs about ProfileStore, for any number of operations, profiles, urls *)
(* and contents, for both services and however the operations overlap.     *)
(***************************************************************************)
EXTENDS ProfileStore, TLAPS

\* The places where a running operation has its target.
Working == Places \ {"idle", "lookup", "done"}

\* An operation under way carries an entity and, after the lookup, a target.
RequestInv ==
  \A o \in Ops :
    /\ pc[o] = "lookup" => /\ base[o] \in Row
                           /\ kind[o] \in {"addByUrl", "addByContent"}
    /\ pc[o] \in Working => /\ base[o] \in Row
                            /\ target[o] \in Ids
                            /\ kind[o] \in Kinds
    /\ pc[o] = "idle" => target[o] = None

\* A profile that is being added has no row and no other operation; one that
\* is being deleted has lost its row, and never gets one again.
FreshInv ==
  \A o \in Ops :
    /\ pc[o] \in Working /\ kind[o] \in InsertKinds =>
         /\ ~Exists(target[o])
         /\ \A p \in Ops \ {o} : target[p] # target[o]
    /\ pc[o] = "deleteFile" => ~Exists(target[o]) /\ kind[o] = "delete"
    /\ pc[o] = "deleteRow" => kind[o] = "delete"

\* What is about to be inserted has its file.
SavedInv ==
  \A o \in Ops :
    /\ kind[o] \in InsertKinds
    /\ pc[o] \in {"convert", "commit"} \/ (pc[o] = "clean" /\ ok[o])
    => file[target[o]] # None

\* A temporary file has an operation that is going to clean it up.
TempInv ==
  \A i \in Ids : temp[i] # None =>
    \/ killed
    \/ \E o \in Ops : /\ target[o] = i
                      /\ pc[o] \in {"headers", "validate", "convert", "clean"}

IInv == /\ TypeOK /\ RequestInv /\ FreshInv /\ SavedInv /\ TempInv
        /\ AtMostOneActive /\ RowHasFile

-----------------------------------------------------------------------------
LEMMA RowFact ==
  ASSUME NEW a \in BOOLEAN, NEW u \in Urls \cup {None}
  PROVE  /\ [active |-> a, url |-> u] \in Row
         /\ [active |-> a, url |-> u] # None
  BY ContentsAssumption DEF Row

\* Clearing the flags keeps the table a table, with the rows it has.
LEMMA ClearedFact ==
  ASSUME TypeOK, NEW a \in BOOLEAN
  PROVE  Cleared(a) \in [Ids -> Row \cup {None}]
<1> SUFFICES ASSUME NEW i \in Ids
             PROVE  (IF Exists(i) /\ a THEN [rows[i] EXCEPT !.active = FALSE]
                                       ELSE rows[i]) \in Row \cup {None}
  BY DEF Cleared
<1>1. CASE Exists(i)
  <2>1. rows[i] \in Row
    BY <1>1 DEF TypeOK, Exists
  <2>2. [rows[i] EXCEPT !.active = FALSE] \in Row
    BY <2>1 DEF Row
  <2> QED
    BY <2>1, <2>2
<1>2. CASE ~Exists(i)
  BY <1>2 DEF TypeOK
<1> QED
  BY <1>1, <1>2

LEMMA EditFact ==
  ASSUME TypeOK, NEW i \in Ids, NEW row \in Row, Edit(i, row) \/ Insert(i, row)
  PROVE  rows' \in [Ids -> Row \cup {None}]
<1>1. row.active \in BOOLEAN
  BY DEF Row
<1>2. Cleared(row.active) \in [Ids -> Row \cup {None}]
  BY <1>1, ClearedFact
<1> QED
  BY <1>2 DEF Edit, Insert

\* addByUrl goes on with the entity of a profile there is, or with a new id.
LEMMA LookupFact ==
  ASSUME TypeOK, RequestInv, NEW o \in Ops, Lookup(o)
  PROVE  /\ pc[o] = "lookup"
         /\ \E i \in Ids, r \in Row, k \in Kinds, p \in {"download", "content"} :
              /\ target' = [target EXCEPT ![o] = i]
              /\ base' = [base EXCEPT ![o] = r]
              /\ kind' = [kind EXCEPT ![o] = k]
              /\ pc' = [pc EXCEPT ![o] = p]
              /\ Fresh(i) \/ (k = "update" /\ Exists(i))
         /\ UNCHANGED <<rows, file, temp, content, ok, adding, deletedActive,
                        setup>>
<1>1. /\ pc[o] = "lookup"
      /\ UNCHANGED <<rows, file, temp, content, ok, adding, deletedActive,
                     setup>>
  BY DEF Lookup, disk, history
<1>2. base[o] \in Row /\ kind[o] \in {"addByUrl", "addByContent"}
  BY <1>1 DEF RequestInv
<1>3. CASE kind' = kind
  <2>1. PICK i \in Ids : Fresh(i) /\ target' = [target EXCEPT ![o] = i]
    BY <1>2, <1>3 DEF Lookup, TypeOK
  <2>2. base' = [base EXCEPT ![o] = base[o]] /\ kind' = [kind EXCEPT ![o] = kind[o]]
    BY <1>2, <1>3 DEF Lookup, TypeOK
  <2>3. PICK p \in {"download", "content"} : pc' = [pc EXCEPT ![o] = p]
    BY <1>2, <1>3 DEF Lookup, Goto, TypeOK
  <2>4. kind[o] \in Kinds
    BY <1>2 DEF Kinds, FetchKinds
  <2> QED
    BY <1>1, <1>2, <2>1, <2>2, <2>3, <2>4
<1>4. CASE kind' # kind
  <2>1. PICK i \in Ids :
          /\ Exists(i)
          /\ target' = [target EXCEPT ![o] = i]
          /\ base' = [base EXCEPT ![o] = [active |-> base[o].active \/ rows[i].active,
                                          url |-> rows[i].url]]
    BY <1>4 DEF Lookup
  <2> DEFINE r == [active |-> base[o].active \/ rows[i].active, url |-> rows[i].url]
  <2>2. rows[i].url \in Urls \cup {None}
    BY <2>1 DEF TypeOK, Exists, Row
  <2>3. (base[o].active \/ rows[i].active) \in BOOLEAN
    OBVIOUS
  <2>4. r \in Row
    BY <2>2, <2>3, RowFact
  <2>5. kind' = [kind EXCEPT ![o] = "update"] /\ pc' = [pc EXCEPT ![o] = "download"]
    BY <1>4 DEF Lookup, Goto
  <2>6. "update" \in Kinds
    BY DEF Kinds, FetchKinds
  <2> HIDE DEF r
  <2>7. base' = [base EXCEPT ![o] = r]
    BY <2>1 DEF r
  <2> QED
    BY <1>1, <2>1, <2>4, <2>5, <2>6, <2>7
<1> QED
  BY <1>3, <1>4

\* Starting an operation keeps the types.
LEMMA BeginFact ==
  ASSUME TypeOK, NEW o \in Ops, NEW k \in Kinds, NEW i \in Ids \cup {None},
         NEW row \in Row, NEW p \in Places, Begin(o, k, i, row, p),
         UNCHANGED <<rows, file, temp, content, ok>>, adding' \in Ops \cup {None}
  PROVE  TypeOK'
<1>1. overlapped' \in BOOLEAN
  BY ZenonT(30) DEF Begin
<1> QED
  BY <1>1 DEF Begin, Goto, TypeOK

\* Every step keeps the types.
LEMMA TypeStep ==
  ASSUME TypeOK, RequestInv, NEW o \in Ops, Step(o)
  PROVE  TypeOK'
<1>1. CASE Adding(o)
  <2>1. PICK mark \in BOOLEAN, u \in Urls \cup {None} :
          Begin(o, IF u = None THEN "addByContent" ELSE "addByUrl", None,
                [active |-> mark, url |-> u], "lookup")
    BY <1>1 DEF Adding
  <2>2. UNCHANGED <<rows, file, temp, content, ok>> /\ adding' = o
    BY <1>1 DEF Adding, disk
  <2>3. (IF u = None THEN "addByContent" ELSE "addByUrl") \in Kinds
    BY DEF Kinds, FetchKinds
  <2> QED
    BY <2>1, <2>2, <2>3, RowFact, BeginFact DEF Places
<1>6. CASE BeginSave(o)
  <2>1. UNCHANGED <<rows, file, temp, content, ok, adding>>
    BY <1>6 DEF BeginSave, disk
  <2>2. PICK i \in Ids :
          /\ Exists(i)
          /\ \/ Begin(o, "patch", i, rows[i], "commit")
             \/ \E u \in Urls : Begin(o, "saveUrl", i,
                                    [rows[i] EXCEPT !.url = u], "download")
    BY <1>6 DEF BeginSave
  <2>3. rows[i] \in Row
    BY <2>2 DEF TypeOK, Exists
  <2>4. ASSUME NEW u \in Urls PROVE [rows[i] EXCEPT !.url = u] \in Row
    BY <2>3 DEF Row
  <2>5. {"patch", "saveUrl"} \subseteq Kinds /\ {"commit", "download"} \subseteq Places
    BY DEF Kinds, FetchKinds, Places
  <2>6. adding' \in Ops \cup {None}
    BY <2>1 DEF TypeOK
  <2> QED
    BY <2>1, <2>2, <2>3, <2>4, <2>5, <2>6, BeginFact
<1>2. CASE Lookup(o)
  BY <1>2, LookupFact DEF TypeOK, Places, setup
<1>16. CASE CommitInsert(o)
  <2>1. /\ target[o] \in Ids
        /\ base[o] \in Row
    BY <1>16 DEF CommitInsert, RequestInv, Working, Places
  <2>2. rows' \in [Ids -> Row \cup {None}]
    BY <1>16, <2>1, EditFact DEF CommitInsert
  <2>3. deletedActive' \in BOOLEAN
    BY <1>16, ZenonT(30) DEF CommitInsert, Activates, TypeOK
  <2> QED
    BY <1>16, <2>2, <2>3 DEF CommitInsert, Goto, Ended, TypeOK,
         request, setup, Places, Kinds, FetchKinds
<1>17. CASE CommitUpdate(o)
  <2>1. /\ target[o] \in Ids
        /\ base[o] \in Row
    BY <1>17 DEF CommitUpdate, RequestInv, Working, Places
  <2>2. rows' \in [Ids -> Row \cup {None}]
    <3> DEFINE i == target[o]
           r == [active |-> base[o].active,
                 url |-> IF Exists(i) THEN rows[i].url ELSE None]
    <3>1. (IF Exists(i) THEN rows[i].url ELSE None) \in Urls \cup {None}
      BY <2>1 DEF TypeOK, Exists, Row
    <3>2. base[o].active \in BOOLEAN
      BY <2>1 DEF Row
    <3>3. r \in Row
      BY <3>1, <3>2, RowFact
    <3>4. Edit(i, r)
      BY <1>17 DEF CommitUpdate
    <3> QED
      BY <2>1, <3>3, <3>4, EditFact
  <2>3. deletedActive' \in BOOLEAN
    BY <1>17, ZenonT(30) DEF CommitUpdate, Activates, TypeOK
  <2> QED
    BY <1>17, <2>2, <2>3 DEF CommitUpdate, Goto, Ended, TypeOK,
         request, setup, Places, Kinds, FetchKinds
<1>18. CASE CommitSave(o)
  <2>1. /\ target[o] \in Ids
        /\ base[o] \in Row
    BY <1>18 DEF CommitSave, RequestInv, Working, Places
  <2>2. rows' \in [Ids -> Row \cup {None}]
    BY <1>18, <2>1, EditFact DEF CommitSave
  <2>3. deletedActive' \in BOOLEAN
    BY <1>18, ZenonT(30) DEF CommitSave, Activates, TypeOK
  <2> QED
    BY <1>18, <2>2, <2>3 DEF CommitSave, Goto, Ended, TypeOK,
         request, setup, Places, Kinds, FetchKinds
<1>19. CASE CommitSelect(o)
  <2>1. /\ target[o] \in Ids
        /\ base[o] \in Row
    BY <1>19 DEF CommitSelect, RequestInv, Working, Places
  <2>2. rows' \in [Ids -> Row \cup {None}]
    <3> DEFINE i == target[o]
           r == [active |-> TRUE,
                 url |-> IF Exists(i) THEN rows[i].url ELSE None]
    <3>1. (IF Exists(i) THEN rows[i].url ELSE None) \in Urls \cup {None}
      BY <2>1 DEF TypeOK, Exists, Row
    <3>2. TRUE \in BOOLEAN
      BY <2>1 DEF Row
    <3>3. r \in Row
      BY <3>1, <3>2, RowFact
    <3>4. Edit(i, r)
      BY <1>19 DEF CommitSelect
    <3> QED
      BY <2>1, <3>3, <3>4, EditFact
  <2>3. deletedActive' \in BOOLEAN
    BY <1>19, ZenonT(30) DEF CommitSelect, Activates, TypeOK
  <2> QED
    BY <1>19, <2>2, <2>3 DEF CommitSelect, Goto, Ended, TypeOK,
         request, setup, Places, Kinds, FetchKinds
<1> USE ContentsAssumption DEF Goto, disk, request, history, setup, Exists,
      Actives, TypeOK, RequestInv, Places, Working, InsertKinds, Kinds, FetchKinds, Row
<1>3. CASE CancelAdd(o)
  BY <1>3 DEF CancelAdd
<1>4. CASE BeginAddNew(o)
  BY <1>4 DEF BeginAddNew, Begin, Fresh
<1>5. CASE BeginUpdate(o)
  BY <1>5 DEF BeginUpdate, Begin
<1>7. CASE BeginSelect(o)
  BY <1>7 DEF BeginSelect, Begin
<1>8. CASE BeginDelete(o)
  BY <1>8 DEF BeginDelete, Begin
<1>9. CASE Fail(o)
  BY <1>9 DEF Fail
<1>10. CASE WriteTemp(o)
  BY <1>10 DEF WriteTemp
<1>11. CASE ReadHeaders(o)
  BY <1>11 DEF ReadHeaders
<1>12. CASE ValidateNative(o)
  BY <1>12 DEF ValidateNative
<1>13. CASE ReadStored(o)
  BY <1>13 DEF ReadStored
<1>14. CASE Convert(o)
  BY <1>14 DEF Convert
<1>15. CASE Clean(o)
  BY <1>15 DEF Clean, Ended
<1>20. CASE DeleteRow(o)
  BY <1>20 DEF DeleteRow
<1>21. CASE DeleteFile(o)
  BY <1>21 DEF DeleteFile
<1> QED
  BY <1>1, <1>2, <1>3, <1>4, <1>5, <1>6, <1>7, <1>8, <1>9, <1>10, <1>11,
     <1>12, <1>13, <1>14, <1>15, <1>16, <1>17, <1>18, <1>19, <1>20, <1>21 DEF
     Step

\* An operation has its entity and target from the lookup on.
LEMMA RequestStep ==
  ASSUME TypeOK, RequestInv, NEW o \in Ops, Step(o)
  PROVE  RequestInv'
<1>2. CASE Lookup(o)
  BY <1>2, LookupFact DEF TypeOK, RequestInv, Working
<1> USE ContentsAssumption DEF Goto, disk, request, history, setup, Exists,
      Actives, TypeOK, RequestInv, Places, Working, InsertKinds, Kinds, FetchKinds, Row
<1>1. CASE Adding(o)
  BY <1>1 DEF Adding, Begin
<1>3. CASE CancelAdd(o)
  BY <1>3 DEF CancelAdd
<1>4. CASE BeginAddNew(o)
  BY <1>4 DEF BeginAddNew, Begin, Fresh
<1>5. CASE BeginUpdate(o)
  BY <1>5 DEF BeginUpdate, Begin
<1>6. CASE BeginSave(o)
  BY <1>6 DEF BeginSave, Begin
<1>7. CASE BeginSelect(o)
  BY <1>7 DEF BeginSelect, Begin
<1>8. CASE BeginDelete(o)
  BY <1>8 DEF BeginDelete, Begin
<1>9. CASE Fail(o)
  BY <1>9 DEF Fail
<1>10. CASE WriteTemp(o)
  BY <1>10 DEF WriteTemp
<1>11. CASE ReadHeaders(o)
  BY <1>11 DEF ReadHeaders
<1>12. CASE ValidateNative(o)
  BY <1>12 DEF ValidateNative
<1>13. CASE ReadStored(o)
  BY <1>13 DEF ReadStored
<1>14. CASE Convert(o)
  BY <1>14 DEF Convert
<1>15. CASE Clean(o)
  BY <1>15 DEF Clean, Ended
<1>16. CASE CommitInsert(o)
  BY <1>16 DEF CommitInsert, Insert, Cleared, Ended, Activates
<1>17. CASE CommitUpdate(o)
  BY <1>17 DEF CommitUpdate, Edit, Cleared, Ended
<1>18. CASE CommitSave(o)
  BY <1>18 DEF CommitSave, Edit, Cleared
<1>19. CASE CommitSelect(o)
  BY <1>19 DEF CommitSelect, Edit, Cleared
<1>20. CASE DeleteRow(o)
  BY <1>20 DEF DeleteRow
<1>21. CASE DeleteFile(o)
  BY <1>21 DEF DeleteFile
<1> QED
  BY <1>1, <1>2, <1>3, <1>4, <1>5, <1>6, <1>7, <1>8, <1>9, <1>10, <1>11,
     <1>12, <1>13, <1>14, <1>15, <1>16, <1>17, <1>18, <1>19, <1>20, <1>21 DEF
     Step

\* Nobody else works on a profile that is being added, and nothing brings a
\* deleted row back.
LEMMA FreshStep ==
  ASSUME TypeOK, RequestInv, FreshInv, NEW o \in Ops, Step(o)
  PROVE  FreshInv'
<1>2. CASE Lookup(o)
  BY <1>2, LookupFact DEF TypeOK, RequestInv, FreshInv, Working, InsertKinds,
     Fresh, Exists
<1> USE ContentsAssumption DEF Goto, disk, request, history, setup, Exists,
      Actives, TypeOK, RequestInv, FreshInv, Places, Working, InsertKinds
<1>1. CASE Adding(o)
  BY <1>1 DEF Adding, Begin
<1>3. CASE CancelAdd(o)
  BY <1>3 DEF CancelAdd
<1>4. CASE BeginAddNew(o)
  BY <1>4 DEF BeginAddNew, Begin, Fresh
<1>5. CASE BeginUpdate(o)
  BY <1>5 DEF BeginUpdate, Begin
<1>6. CASE BeginSave(o)
  BY <1>6 DEF BeginSave, Begin
<1>7. CASE BeginSelect(o)
  BY <1>7 DEF BeginSelect, Begin
<1>8. CASE BeginDelete(o)
  BY <1>8 DEF BeginDelete, Begin
<1>9. CASE Fail(o)
  BY <1>9 DEF Fail
<1>10. CASE WriteTemp(o)
  BY <1>10 DEF WriteTemp
<1>11. CASE ReadHeaders(o)
  BY <1>11 DEF ReadHeaders
<1>12. CASE ValidateNative(o)
  BY <1>12 DEF ValidateNative
<1>13. CASE ReadStored(o)
  BY <1>13 DEF ReadStored
<1>14. CASE Convert(o)
  BY <1>14 DEF Convert
<1>15. CASE Clean(o)
  BY <1>15 DEF Clean, Ended
<1>16. CASE CommitInsert(o)
  BY <1>16 DEF CommitInsert, Insert, Cleared, Ended, Activates
<1>17. CASE CommitUpdate(o)
  BY <1>17 DEF CommitUpdate, Edit, Cleared, Ended
<1>18. CASE CommitSave(o)
  BY <1>18 DEF CommitSave, Edit, Cleared
<1>19. CASE CommitSelect(o)
  BY <1>19 DEF CommitSelect, Edit, Cleared
<1>20. CASE DeleteRow(o)
  BY <1>20 DEF DeleteRow
<1>21. CASE DeleteFile(o)
  BY <1>21 DEF DeleteFile
<1> QED
  BY <1>1, <1>2, <1>3, <1>4, <1>5, <1>6, <1>7, <1>8, <1>9, <1>10, <1>11,
     <1>12, <1>13, <1>14, <1>15, <1>16, <1>17, <1>18, <1>19, <1>20, <1>21 DEF
     Step

\* A new profile is inserted after its file has been saved.
LEMMA SavedStep ==
  ASSUME TypeOK, RequestInv, FreshInv, SavedInv, NEW o \in Ops, Step(o)
  PROVE  SavedInv'
<1>2. CASE Lookup(o)
  BY <1>2, LookupFact DEF TypeOK, SavedInv, InsertKinds
<1> USE ContentsAssumption DEF Goto, disk, request, history, setup, Exists,
      Actives, TypeOK, RequestInv, FreshInv, SavedInv, Places, Working, InsertKinds
<1>1. CASE Adding(o)
  BY <1>1 DEF Adding, Begin
<1>3. CASE CancelAdd(o)
  BY <1>3 DEF CancelAdd
<1>4. CASE BeginAddNew(o)
  BY <1>4 DEF BeginAddNew, Begin, Fresh
<1>5. CASE BeginUpdate(o)
  BY <1>5 DEF BeginUpdate, Begin
<1>6. CASE BeginSave(o)
  BY <1>6 DEF BeginSave, Begin
<1>7. CASE BeginSelect(o)
  BY <1>7 DEF BeginSelect, Begin
<1>8. CASE BeginDelete(o)
  BY <1>8 DEF BeginDelete, Begin
<1>9. CASE Fail(o)
  BY <1>9 DEF Fail
<1>10. CASE WriteTemp(o)
  BY <1>10 DEF WriteTemp
<1>11. CASE ReadHeaders(o)
  BY <1>11 DEF ReadHeaders
<1>12. CASE ValidateNative(o)
  BY <1>12 DEF ValidateNative
<1>13. CASE ReadStored(o)
  BY <1>13 DEF ReadStored
<1>14. CASE Convert(o)
  BY <1>14 DEF Convert
<1>15. CASE Clean(o)
  BY <1>15 DEF Clean, Ended
<1>16. CASE CommitInsert(o)
  BY <1>16 DEF CommitInsert, Insert, Cleared, Ended, Activates
<1>17. CASE CommitUpdate(o)
  BY <1>17 DEF CommitUpdate, Edit, Cleared, Ended
<1>18. CASE CommitSave(o)
  BY <1>18 DEF CommitSave, Edit, Cleared
<1>19. CASE CommitSelect(o)
  BY <1>19 DEF CommitSelect, Edit, Cleared
<1>20. CASE DeleteRow(o)
  BY <1>20 DEF DeleteRow
<1>21. CASE DeleteFile(o)
  BY <1>21 DEF DeleteFile
<1> QED
  BY <1>1, <1>2, <1>3, <1>4, <1>5, <1>6, <1>7, <1>8, <1>9, <1>10, <1>11,
     <1>12, <1>13, <1>14, <1>15, <1>16, <1>17, <1>18, <1>19, <1>20, <1>21 DEF
     Step

\* Who writes a temporary file cleans it up.
LEMMA TempStep ==
  ASSUME TypeOK, RequestInv, TempInv, NEW o \in Ops, Step(o)
  PROVE  TempInv'
<1>2. CASE Lookup(o)
  BY <1>2, LookupFact DEF TypeOK, TempInv, Fresh, setup
<1> USE ContentsAssumption DEF Goto, disk, request, history, setup, Exists,
      Actives, TypeOK, RequestInv, TempInv, Places, Working
<1>1. CASE Adding(o)
  BY <1>1 DEF Adding, Begin
<1>3. CASE CancelAdd(o)
  BY <1>3 DEF CancelAdd
<1>4. CASE BeginAddNew(o)
  BY <1>4 DEF BeginAddNew, Begin, Fresh
<1>5. CASE BeginUpdate(o)
  BY <1>5 DEF BeginUpdate, Begin
<1>6. CASE BeginSave(o)
  BY <1>6 DEF BeginSave, Begin
<1>7. CASE BeginSelect(o)
  BY <1>7 DEF BeginSelect, Begin
<1>8. CASE BeginDelete(o)
  BY <1>8 DEF BeginDelete, Begin
<1>9. CASE Fail(o)
  BY <1>9 DEF Fail
<1>10. CASE WriteTemp(o)
  BY <1>10 DEF WriteTemp
<1>11. CASE ReadHeaders(o)
  BY <1>11 DEF ReadHeaders
<1>12. CASE ValidateNative(o)
  BY <1>12 DEF ValidateNative
<1>13. CASE ReadStored(o)
  BY <1>13 DEF ReadStored
<1>14. CASE Convert(o)
  BY <1>14 DEF Convert
<1>15. CASE Clean(o)
  BY <1>15 DEF Clean, Ended
<1>16. CASE CommitInsert(o)
  BY <1>16 DEF CommitInsert, Insert, Cleared, Ended, Activates
<1>17. CASE CommitUpdate(o)
  BY <1>17 DEF CommitUpdate, Edit, Cleared, Ended
<1>18. CASE CommitSave(o)
  BY <1>18 DEF CommitSave, Edit, Cleared
<1>19. CASE CommitSelect(o)
  BY <1>19 DEF CommitSelect, Edit, Cleared
<1>20. CASE DeleteRow(o)
  BY <1>20 DEF DeleteRow
<1>21. CASE DeleteFile(o)
  BY <1>21 DEF DeleteFile
<1> QED
  BY <1>1, <1>2, <1>3, <1>4, <1>5, <1>6, <1>7, <1>8, <1>9, <1>10, <1>11,
     <1>12, <1>13, <1>14, <1>15, <1>16, <1>17, <1>18, <1>19, <1>20, <1>21 DEF
     Step

\* A transaction that sets the flag clears it everywhere else.
LEMMA ActiveStep ==
  ASSUME TypeOK, RequestInv, AtMostOneActive, NEW o \in Ops, Step(o)
  PROVE  AtMostOneActive'
<1> USE ContentsAssumption DEF Goto, disk, request, history, setup, Exists,
      Actives, TypeOK, RequestInv, AtMostOneActive, Working, Places, Row
<1>1. CASE Adding(o)
  BY <1>1 DEF Adding, Begin
<1>2. CASE Lookup(o)
  BY <1>2 DEF Lookup, Fresh
<1>3. CASE CancelAdd(o)
  BY <1>3 DEF CancelAdd
<1>4. CASE BeginAddNew(o)
  BY <1>4 DEF BeginAddNew, Begin, Fresh
<1>5. CASE BeginUpdate(o)
  BY <1>5 DEF BeginUpdate, Begin
<1>6. CASE BeginSave(o)
  BY <1>6 DEF BeginSave, Begin
<1>7. CASE BeginSelect(o)
  BY <1>7 DEF BeginSelect, Begin
<1>8. CASE BeginDelete(o)
  BY <1>8 DEF BeginDelete, Begin
<1>9. CASE Fail(o)
  BY <1>9 DEF Fail
<1>10. CASE WriteTemp(o)
  BY <1>10 DEF WriteTemp
<1>11. CASE ReadHeaders(o)
  BY <1>11 DEF ReadHeaders
<1>12. CASE ValidateNative(o)
  BY <1>12 DEF ValidateNative
<1>13. CASE ReadStored(o)
  BY <1>13 DEF ReadStored
<1>14. CASE Convert(o)
  BY <1>14 DEF Convert
<1>15. CASE Clean(o)
  BY <1>15 DEF Clean, Ended
<1>16. CASE CommitInsert(o)
  BY <1>16 DEF CommitInsert, Insert, Cleared, Ended, Activates
<1>17. CASE CommitUpdate(o)
  BY <1>17 DEF CommitUpdate, Edit, Cleared, Ended
<1>18. CASE CommitSave(o)
  BY <1>18 DEF CommitSave, Edit, Cleared
<1>19. CASE CommitSelect(o)
  BY <1>19 DEF CommitSelect, Edit, Cleared
<1>20. CASE DeleteRow(o)
  BY <1>20 DEF DeleteRow
<1>21. CASE DeleteFile(o)
  BY <1>21 DEF DeleteFile
<1> QED
  BY <1>1, <1>2, <1>3, <1>4, <1>5, <1>6, <1>7, <1>8, <1>9, <1>10, <1>11,
     <1>12, <1>13, <1>14, <1>15, <1>16, <1>17, <1>18, <1>19, <1>20, <1>21 DEF
     Step

\* A row is made after its file and goes before it.
LEMMA FileStep ==
  ASSUME TypeOK, RequestInv, FreshInv, SavedInv, RowHasFile, NEW o \in Ops,
         Step(o)
  PROVE  RowHasFile'
<1> USE ContentsAssumption DEF Goto, disk, request, history, setup, Exists,
      Actives, TypeOK, RequestInv, FreshInv, SavedInv, RowHasFile, Working, Places,
      InsertKinds
<1>1. CASE Adding(o)
  BY <1>1 DEF Adding, Begin
<1>2. CASE Lookup(o)
  BY <1>2 DEF Lookup, Fresh
<1>3. CASE CancelAdd(o)
  BY <1>3 DEF CancelAdd
<1>4. CASE BeginAddNew(o)
  BY <1>4 DEF BeginAddNew, Begin, Fresh
<1>5. CASE BeginUpdate(o)
  BY <1>5 DEF BeginUpdate, Begin
<1>6. CASE BeginSave(o)
  BY <1>6 DEF BeginSave, Begin
<1>7. CASE BeginSelect(o)
  BY <1>7 DEF BeginSelect, Begin
<1>8. CASE BeginDelete(o)
  BY <1>8 DEF BeginDelete, Begin
<1>9. CASE Fail(o)
  BY <1>9 DEF Fail
<1>10. CASE WriteTemp(o)
  BY <1>10 DEF WriteTemp
<1>11. CASE ReadHeaders(o)
  BY <1>11 DEF ReadHeaders
<1>12. CASE ValidateNative(o)
  BY <1>12 DEF ValidateNative
<1>13. CASE ReadStored(o)
  BY <1>13 DEF ReadStored
<1>14. CASE Convert(o)
  BY <1>14 DEF Convert
<1>15. CASE Clean(o)
  BY <1>15 DEF Clean, Ended
<1>16. CASE CommitInsert(o)
  BY <1>16 DEF CommitInsert, Insert, Cleared, Ended, Activates
<1>17. CASE CommitUpdate(o)
  BY <1>17 DEF CommitUpdate, Edit, Cleared, Ended
<1>18. CASE CommitSave(o)
  BY <1>18 DEF CommitSave, Edit, Cleared
<1>19. CASE CommitSelect(o)
  BY <1>19 DEF CommitSelect, Edit, Cleared
<1>20. CASE DeleteRow(o)
  BY <1>20 DEF DeleteRow
<1>21. CASE DeleteFile(o)
  BY <1>21 DEF DeleteFile
<1> QED
  BY <1>1, <1>2, <1>3, <1>4, <1>5, <1>6, <1>7, <1>8, <1>9, <1>10, <1>11,
     <1>12, <1>13, <1>14, <1>15, <1>16, <1>17, <1>18, <1>19, <1>20, <1>21 DEF
     Step

-----------------------------------------------------------------------------
LEMMA InitIInv == Init => IInv
  BY ContentsAssumption
  DEF Init, IInv, TypeOK, RequestInv, FreshInv, SavedInv, TempInv, Working,
      Places, AtMostOneActive, RowHasFile, Exists

LEMMA KillStep == IInv /\ Kill => IInv'
  BY DEF Kill, disk, request, IInv, TypeOK, RequestInv, FreshInv, SavedInv,
     TempInv, AtMostOneActive, RowHasFile, Exists, Actives, Working, Places

\* The invariant is inductive.
LEMMA NextIInv == IInv /\ [Next]_vars => IInv'
<1> SUFFICES ASSUME IInv, [Next]_vars PROVE IInv'
  OBVIOUS
<1>1. CASE Kill
  BY <1>1, KillStep
<1>2. ASSUME NEW o \in Ops, Step(o) PROVE IInv'
  BY <1>2, TypeStep, RequestStep, FreshStep, SavedStep, TempStep, ActiveStep,
     FileStep DEF IInv
<1>3. CASE UNCHANGED vars
  BY <1>3 DEF vars, disk, request, history, setup, IInv, TypeOK, RequestInv, FreshInv,
     SavedInv, TempInv, AtMostOneActive, RowHasFile, Exists, Actives
<1> QED
  BY <1>1, <1>2, <1>3 DEF Next

LEMMA Invariant == Spec => []IInv
  BY InitIInv, NextIInv, PTL DEF Spec

\* Types hold in every interleaving of the repository's operations.
THEOREM TypeCorrect == Spec => []TypeOK
<1>1. IInv => TypeOK
  BY DEF IInv
<1> QED
  BY <1>1, Invariant, PTL

\* However stale the flags are that updates and edits write back, at most one
\* profile is active.
THEOREM OneActive == Spec => []AtMostOneActive
<1>1. IInv => AtMostOneActive
  BY DEF IInv
<1> QED
  BY <1>1, Invariant, PTL

\* Every profile in the table has its file, with either service, in every
\* interleaving and across a kill of the app.
THEOREM RowsHaveFiles == Spec => []RowHasFile
<1>1. IInv => RowHasFile
  BY DEF IInv
<1> QED
  BY <1>1, Invariant, PTL

\* No temporary file outlives the operations on its profile.
THEOREM TempsCleaned == Spec => []NoTempLeft
<1>1. IInv => NoTempLeft
  <2> SUFFICES ASSUME IInv, NEW i \in Ids, temp[i] # None, ~killed
               PROVE  \E o \in Ops : target[o] = i /\ pc[o] # "done"
    BY DEF NoTempLeft
  <2> QED
    BY DEF IInv, TempInv
<1> QED
  BY <1>1, Invariant, PTL

\* A deleted profile stays deleted: updates and edits under way when it is
\* deleted do not bring the row back.
THEOREM DeletedStaysDeleted == Spec => NoResurrection
<1>1. IInv /\ [Next]_vars =>
        [\A i \in Ids : ~Exists(i) /\ rows'[i] # None =>
           \E o \in Ops : /\ target[o] = i /\ kind[o] \in InsertKinds
                          /\ \A p \in Ops \ {o} : target[p] # i]_vars
  <2> SUFFICES ASSUME IInv, Next, NEW i \in Ids, ~Exists(i), rows'[i] # None
               PROVE  \E o \in Ops : /\ target[o] = i
                                     /\ kind[o] \in InsertKinds
                                     /\ \A p \in Ops \ {o} : target[p] # i
    OBVIOUS
  <2>1. ~Kill
    BY DEF Kill, disk, Exists
  <2>2. PICK o \in Ops : Step(o)
    BY <2>1 DEF Next
  <2>3. CASE CommitInsert(o)
    <3>1. target[o] \in Ids /\ pc[o] \in Working /\ kind[o] \in InsertKinds
      BY <2>3 DEF CommitInsert, IInv, RequestInv, Working, Places
    <3>2. target[o] = i
      BY <2>3, <3>1 DEF CommitInsert, Insert, Cleared, Exists
    <3> QED
      BY <3>1, <3>2 DEF IInv, FreshInv
  <2>4. CASE \/ CommitUpdate(o) \/ CommitSave(o) \/ CommitSelect(o)
    BY <2>4 DEF CommitUpdate, CommitSave, CommitSelect, Edit, Cleared, Exists
  <2>5. CASE DeleteRow(o)
    BY <2>5 DEF DeleteRow, Exists, IInv, TypeOK
  <2>6. CASE rows' = rows
    BY <2>6 DEF Exists
  <2> QED
    BY <2>2, <2>3, <2>4, <2>5, <2>6 DEF Step, Adding, Lookup, CancelAdd,
       BeginAddNew, BeginUpdate, BeginSave, BeginSelect, BeginDelete, Fail,
       WriteTemp, ReadHeaders, ValidateNative, ReadStored, Convert, Clean,
       DeleteFile, disk
<1> QED
  BY <1>1, Invariant, PTL DEF Spec, NoResurrection

-----------------------------------------------------------------------------
(* What each service does with what it validates.                          *)

\* As long as operations wait for each other, one is under way.
SoloInv ==
  ~overlapped => \A o, p \in Ops : pc[o] \notin {"idle", "done"}
                                /\ pc[p] \notin {"idle", "done"} => o = p

\* With ClashAdapterService a profile that is being added has no file.
ClashInv ==
  service = "clash" =>
    \A o \in Ops : pc[o] \in Working /\ kind[o] \in InsertKinds
                     => file[target[o]] = None

\* The native service takes over into the profile's file what the operation
\* has written.
NativeInv ==
  service = "singbox" =>
    \A o \in Ops :
      /\ pc[o] # "convert"
      /\ pc[o] = "idle" => content[o] = None
      /\ ~overlapped /\ pc[o] \in {"headers", "validate"}
           => temp[target[o]] = content[o]
      /\ ~overlapped /\ pc[o] \in {"clean", "commit"} /\ ok[o]
           => content[o] = None \/ file[target[o]] = content[o]

\* As long as operations wait for each other, the entity one was called with is
\* as active as its row, and there is an active profile unless it was deleted.
KeptInv ==
  ~overlapped =>
    /\ Actives = {} => deletedActive \/ \A i \in Ids : ~Exists(i)
    /\ \A o \in Ops :
         /\ pc[o] \in Working \cup {"lookup"} /\ kind[o] \in InsertKinds
              => Actives # {} \/ base[o].active
         /\ pc[o] \in Working /\ kind[o] \in {"update", "patch", "saveUrl"}
              => Exists(target[o]) /\ (rows[target[o]].active => base[o].active)
         /\ pc[o] \in Working /\ kind[o] = "select" => Exists(target[o])

\* An operation does not move another one.
LEMMA OtherKeeps ==
  ASSUME TypeOK, NEW o \in Ops, Step(o), NEW p \in Ops \ {o}
  PROVE  pc'[p] = pc[p]
  BY DEF TypeOK, Goto, Step, Adding, Lookup, CancelAdd, BeginAddNew, BeginUpdate, BeginSave,
         BeginSelect, BeginDelete, Begin, Fail, WriteTemp, ReadHeaders, ValidateNative,
         ReadStored, Convert, Clean, CommitInsert, CommitUpdate, CommitSave, CommitSelect,
         DeleteRow, DeleteFile

\* The operation that takes a step is the only one under way; but the cancel
\* button may come when there is nothing left to cancel.
LEMMA SoloFact ==
  ASSUME TypeOK, SoloInv, NEW o \in Ops, Step(o), ~overlapped'
  PROVE  /\ ~overlapped
         /\ \/ \A p \in Ops \ {o} : pc[p] \in {"idle", "done"}
            \/ UNCHANGED <<rows, file, temp, kind, target, base, content, pc, ok, history>>
<1> USE ContentsAssumption DEF Goto, disk, request, history, setup, Exists,
      Actives, TypeOK, RequestInv, Working, Places, InsertKinds, Quiet, SoloInv
<1>1. CASE Adding(o)
  BY <1>1 DEF Adding, Begin
<1>2. CASE Lookup(o)
  BY <1>2 DEF Lookup, Fresh
<1>3. CASE CancelAdd(o)
  BY <1>3 DEF CancelAdd
<1>4. CASE BeginAddNew(o)
  BY <1>4 DEF BeginAddNew, Begin, Fresh
<1>5. CASE BeginUpdate(o)
  BY <1>5 DEF BeginUpdate, Begin
<1>6. CASE BeginSave(o)
  BY <1>6 DEF BeginSave, Begin
<1>7. CASE BeginSelect(o)
  BY <1>7 DEF BeginSelect, Begin
<1>8. CASE BeginDelete(o)
  BY <1>8 DEF BeginDelete, Begin
<1>9. CASE Fail(o)
  BY <1>9 DEF Fail
<1>10. CASE WriteTemp(o)
  BY <1>10 DEF WriteTemp
<1>11. CASE ReadHeaders(o)
  BY <1>11 DEF ReadHeaders
<1>12. CASE ValidateNative(o)
  BY <1>12 DEF ValidateNative
<1>13. CASE ReadStored(o)
  BY <1>13 DEF ReadStored
<1>14. CASE Convert(o)
  BY <1>14 DEF Convert
<1>15. CASE Clean(o)
  BY <1>15 DEF Clean, Ended
<1>16. CASE CommitInsert(o)
  BY <1>16 DEF CommitInsert, Insert, Cleared, Ended, Activates
<1>17. CASE CommitUpdate(o)
  BY <1>17 DEF CommitUpdate, Edit, Cleared, Ended
<1>18. CASE CommitSave(o)
  BY <1>18 DEF CommitSave, Edit, Cleared
<1>19. CASE CommitSelect(o)
  BY <1>19 DEF CommitSelect, Edit, Cleared
<1>20. CASE DeleteRow(o)
  BY <1>20 DEF DeleteRow
<1>21. CASE DeleteFile(o)
  BY <1>21 DEF DeleteFile
<1> QED
  BY <1>1, <1>2, <1>3, <1>4, <1>5, <1>6, <1>7, <1>8, <1>9, <1>10, <1>11,
     <1>12, <1>13, <1>14, <1>15, <1>16, <1>17, <1>18, <1>19, <1>20, <1>21 DEF Step

LEMMA SoloStep ==
  ASSUME TypeOK, SoloInv, NEW o \in Ops, Step(o)
  PROVE  SoloInv'
<1> SUFFICES ASSUME ~overlapped' PROVE SoloInv'
  BY DEF SoloInv
<1>1. /\ ~overlapped
      /\ \/ \A p \in Ops \ {o} : pc[p] \in {"idle", "done"}
         \/ UNCHANGED pc
  BY SoloFact
<1>2. \A p \in Ops \ {o} : pc'[p] = pc[p]
  BY OtherKeeps
<1> QED
  BY <1>1, <1>2 DEF SoloInv, TypeOK

LEMMA ClashStep ==
  ASSUME TypeOK, RequestInv, FreshInv, ClashInv, NEW o \in Ops, Step(o)
  PROVE  ClashInv'
<1>1. CASE Lookup(o)
  BY <1>1, LookupFact DEF TypeOK, RequestInv, ClashInv, Fresh, Exists, Working, InsertKinds,
     setup
<1> USE ContentsAssumption DEF Goto, disk, request, history, setup, Exists,
      Actives, TypeOK, RequestInv, Working, Places, InsertKinds, Quiet, ClashInv, FreshInv
<1>2. CASE Adding(o)
  BY <1>2 DEF Adding, Begin
<1>3. CASE CancelAdd(o)
  BY <1>3 DEF CancelAdd
<1>4. CASE BeginAddNew(o)
  BY <1>4 DEF BeginAddNew, Begin, Fresh
<1>5. CASE BeginUpdate(o)
  BY <1>5 DEF BeginUpdate, Begin
<1>6. CASE BeginSave(o)
  BY <1>6 DEF BeginSave, Begin
<1>7. CASE BeginSelect(o)
  BY <1>7 DEF BeginSelect, Begin
<1>8. CASE BeginDelete(o)
  BY <1>8 DEF BeginDelete, Begin
<1>9. CASE Fail(o)
  BY <1>9 DEF Fail
<1>10. CASE WriteTemp(o)
  BY <1>10 DEF WriteTemp
<1>11. CASE ReadHeaders(o)
  BY <1>11 DEF ReadHeaders
<1>12. CASE ValidateNative(o)
  BY <1>12 DEF ValidateNative
<1>13. CASE ReadStored(o)
  BY <1>13 DEF ReadStored
<1>14. CASE Convert(o)
  BY <1>14 DEF Convert
<1>15. CASE Clean(o)
  BY <1>15 DEF Clean, Ended
<1>16. CASE CommitInsert(o)
  BY <1>16 DEF CommitInsert, Insert, Cleared, Ended, Activates
<1>17. CASE CommitUpdate(o)
  BY <1>17 DEF CommitUpdate, Edit, Cleared, Ended
<1>18. CASE CommitSave(o)
  BY <1>18 DEF CommitSave, Edit, Cleared
<1>19. CASE CommitSelect(o)
  BY <1>19 DEF CommitSelect, Edit, Cleared
<1>20. CASE DeleteRow(o)
  BY <1>20 DEF DeleteRow
<1>21. CASE DeleteFile(o)
  BY <1>21 DEF DeleteFile
<1> QED
  BY <1>1, <1>2, <1>3, <1>4, <1>5, <1>6, <1>7, <1>8, <1>9, <1>10, <1>11, <1>12,
     <1>13, <1>14, <1>15, <1>16, <1>17, <1>18, <1>19, <1>20, <1>21 DEF Step

LEMMA NativeStep ==
  ASSUME TypeOK, RequestInv, SoloInv, NativeInv, NEW o \in Ops, Step(o)
  PROVE  NativeInv'
<1> SUFFICES ASSUME service = "singbox" PROVE NativeInv'
  BY DEF NativeInv, Step, Adding, Lookup, CancelAdd, BeginAddNew, BeginUpdate, BeginSave,
         BeginSelect, BeginDelete, Begin, Fail, WriteTemp, ReadHeaders, ValidateNative,
         ReadStored, Convert, Clean, CommitInsert, CommitUpdate, CommitSave, CommitSelect,
         DeleteRow, DeleteFile, history, setup
<1>0. ~overlapped' =>
        /\ ~overlapped
        /\ \/ \A p \in Ops \ {o} : pc[p] \in {"idle", "done"}
           \/ UNCHANGED <<rows, file, temp, kind, target, base, content, pc, ok, history>>
  BY SoloFact
<1> USE ContentsAssumption DEF Goto, disk, request, history, setup, Exists,
      Actives, TypeOK, RequestInv, Working, Places, InsertKinds, Quiet, NativeInv
<1>1. CASE Adding(o)
  BY <1>1, <1>0 DEF Adding, Begin
<1>2. CASE Lookup(o)
  BY <1>2, <1>0 DEF Lookup, Fresh
<1>3. CASE CancelAdd(o)
  BY <1>3, <1>0 DEF CancelAdd
<1>4. CASE BeginAddNew(o)
  BY <1>4, <1>0 DEF BeginAddNew, Begin, Fresh
<1>5. CASE BeginUpdate(o)
  BY <1>5, <1>0 DEF BeginUpdate, Begin
<1>6. CASE BeginSave(o)
  BY <1>6, <1>0 DEF BeginSave, Begin
<1>7. CASE BeginSelect(o)
  BY <1>7, <1>0 DEF BeginSelect, Begin
<1>8. CASE BeginDelete(o)
  BY <1>8, <1>0 DEF BeginDelete, Begin
<1>9. CASE Fail(o)
  BY <1>9, <1>0 DEF Fail
<1>10. CASE WriteTemp(o)
  BY <1>10, <1>0 DEF WriteTemp
<1>11. CASE ReadHeaders(o)
  BY <1>11, <1>0 DEF ReadHeaders
<1>12. CASE ValidateNative(o)
  BY <1>12, <1>0 DEF ValidateNative
<1>13. CASE ReadStored(o)
  BY <1>13, <1>0 DEF ReadStored
<1>14. CASE Convert(o)
  BY <1>14, <1>0 DEF Convert
<1>15. CASE Clean(o)
  BY <1>15, <1>0 DEF Clean, Ended
<1>16. CASE CommitInsert(o)
  BY <1>16, <1>0 DEF CommitInsert, Insert, Cleared, Ended, Activates
<1>17. CASE CommitUpdate(o)
  BY <1>17, <1>0 DEF CommitUpdate, Edit, Cleared, Ended
<1>18. CASE CommitSave(o)
  BY <1>18, <1>0 DEF CommitSave, Edit, Cleared
<1>19. CASE CommitSelect(o)
  BY <1>19, <1>0 DEF CommitSelect, Edit, Cleared
<1>20. CASE DeleteRow(o)
  BY <1>20, <1>0 DEF DeleteRow
<1>21. CASE DeleteFile(o)
  BY <1>21, <1>0 DEF DeleteFile
<1> QED
  BY <1>1, <1>2, <1>3, <1>4, <1>5, <1>6, <1>7, <1>8, <1>9, <1>10, <1>11,
     <1>12, <1>13, <1>14, <1>15, <1>16, <1>17, <1>18, <1>19, <1>20, <1>21 DEF Step

LEMMA KeptStep ==
  ASSUME TypeOK, RequestInv, FreshInv, SoloInv, KeptInv, NEW o \in Ops, Step(o)
  PROVE  KeptInv'
<1> SUFFICES ASSUME ~overlapped' PROVE KeptInv'
  BY DEF KeptInv
<1>0. /\ ~overlapped
      /\ \/ \A p \in Ops \ {o} : pc[p] \in {"idle", "done"}
         \/ UNCHANGED <<rows, file, temp, kind, target, base, content, pc, ok, history>>
  BY SoloFact
<1> USE ContentsAssumption DEF Goto, disk, request, history, setup, Exists,
      Actives, TypeOK, RequestInv, Working, Places, InsertKinds, Quiet, KeptInv, Row
<1>1. CASE Adding(o)
  BY <1>1, <1>0 DEF Adding, Begin
<1>2. CASE Lookup(o)
  <2>1. UNCHANGED <<rows, content, deletedActive, overlapped, service>> /\ pc[o] = "lookup"
    BY <1>2 DEF Lookup
  <2>2. base[o] \in Row /\ kind[o] \in {"addByUrl", "addByContent"}
    BY <2>1
  <2>3. pc' \in {[pc EXCEPT ![o] = "download"], [pc EXCEPT ![o] = "content"]}
    BY <1>2 DEF Lookup
  <2>4. CASE kind' = kind
    <3>1. base' = base
      BY <1>2, <2>2, <2>4 DEF Lookup
    <3> QED
      BY <1>0, <2>1, <2>2, <2>3, <2>4, <3>1
  <2>5. CASE kind' # kind
    <3>1. PICK i \in Ids :
            /\ Exists(i)
            /\ kind' = [kind EXCEPT ![o] = "update"]
            /\ target' = [target EXCEPT ![o] = i]
            /\ base' = [base EXCEPT ![o] = [active |-> base[o].active \/ rows[i].active,
                                             url |-> rows[i].url]]
      BY <1>2, <2>5 DEF Lookup
    <3>2. rows[i].active => base'[o].active
      BY <3>1
    <3> QED
      BY <1>0, <2>1, <2>2, <2>3, <3>1, <3>2
  <2> QED
    BY <2>4, <2>5
<1>3. CASE CancelAdd(o)
  BY <1>3, <1>0 DEF CancelAdd
<1>4. CASE BeginAddNew(o)
  BY <1>4, <1>0 DEF BeginAddNew, Begin, Fresh
<1>5. CASE BeginUpdate(o)
  BY <1>5, <1>0 DEF BeginUpdate, Begin
<1>6. CASE BeginSave(o)
  BY <1>6, <1>0 DEF BeginSave, Begin
<1>7. CASE BeginSelect(o)
  BY <1>7, <1>0 DEF BeginSelect, Begin
<1>8. CASE BeginDelete(o)
  BY <1>8, <1>0 DEF BeginDelete, Begin
<1>9. CASE Fail(o)
  BY <1>9, <1>0 DEF Fail
<1>10. CASE WriteTemp(o)
  BY <1>10, <1>0 DEF WriteTemp
<1>11. CASE ReadHeaders(o)
  BY <1>11, <1>0 DEF ReadHeaders
<1>12. CASE ValidateNative(o)
  BY <1>12, <1>0 DEF ValidateNative
<1>13. CASE ReadStored(o)
  BY <1>13, <1>0 DEF ReadStored
<1>14. CASE Convert(o)
  BY <1>14, <1>0 DEF Convert
<1>15. CASE Clean(o)
  BY <1>15, <1>0 DEF Clean, Ended
<1>16. CASE CommitInsert(o)
  <2>1. /\ pc[o] = "commit" /\ pc' = [pc EXCEPT ![o] = "done"]
        /\ kind[o] \in InsertKinds /\ kind' = kind /\ target' = target
        /\ rows' = [Cleared(base[o].active) EXCEPT ![target[o]] = base[o]]
    BY <1>16 DEF CommitInsert, Insert
  <2>2. target[o] \in Ids /\ base[o] \in Row /\ ~Exists(target[o])
    BY <2>1 DEF FreshInv
  <2>3. rows'[target[o]] = base[o] /\ base[o] # None
    BY <2>1, <2>2 DEF Cleared
  <2>4. CASE base[o].active
    <3>1. target[o] \in Actives'
      BY <2>2, <2>3, <2>4
    <3> QED
      BY <1>0, <2>1, <3>1
  <2>5. CASE ~base[o].active
    <3>1. PICK i \in Ids : Exists(i) /\ rows[i].active
      BY <1>0, <2>1, <2>5
    <3>2. rows'[i] = rows[i]
      BY <2>1, <2>2, <2>5, <3>1 DEF Cleared
    <3>3. i \in Actives'
      BY <3>1, <3>2
    <3> QED
      BY <1>0, <2>1, <3>3
  <2> QED
    BY <2>4, <2>5
<1>17. CASE CommitUpdate(o)
  BY <1>17, <1>0 DEF CommitUpdate, Edit, Cleared, Ended
<1>18. CASE CommitSave(o)
  BY <1>18, <1>0 DEF CommitSave, Edit, Cleared
<1>19. CASE CommitSelect(o)
  <2>1. /\ pc[o] = "commit" /\ pc' = [pc EXCEPT ![o] = "done"] /\ kind[o] = "select"
    BY <1>19 DEF CommitSelect
  <2>2. target[o] \in Ids /\ Exists(target[o])
    BY <1>0, <2>1
  <2>3. rows'[target[o]] = [active |-> TRUE, url |-> rows[target[o]].url]
    BY <1>19, <2>2 DEF CommitSelect, Edit, Cleared
  <2>4. rows[target[o]].url \in Urls \cup {None}
    BY <2>2
  <2>5. rows'[target[o]] # None
    <3>1. \A u \in Urls \cup {None} : [active |-> TRUE, url |-> u] # None
      BY RowFact, Zenon
    <3> QED
      BY <2>3, <2>4, <3>1
  <2>6. target[o] \in Actives'
    BY <2>2, <2>3, <2>5
  <2> QED
    BY <1>0, <2>1, <2>6
<1>20. CASE DeleteRow(o)
  <2>1. /\ pc[o] = "deleteRow" /\ pc' = [pc EXCEPT ![o] = "deleteFile"]
        /\ kind[o] = "delete" /\ kind' = kind
        /\ rows' = [rows EXCEPT ![target[o]] = None]
    BY <1>20 DEF DeleteRow, FreshInv
  <2>2. CASE target[o] \in Actives
    <3>1. deletedActive'
      BY <1>20, <2>2 DEF DeleteRow
    <3> QED
      BY <1>0, <2>1, <3>1
  <2>3. CASE target[o] \notin Actives
    <3>1. deletedActive => deletedActive'
      BY <1>20 DEF DeleteRow
    <3>2. Actives' = {} => Actives = {}
      BY <2>1, <2>3
    <3>3. (\A i \in Ids : ~Exists(i)) => (\A i \in Ids : ~Exists(i))'
      BY <2>1
    <3> QED
      BY <1>0, <2>1, <3>1, <3>2, <3>3
  <2> QED
    BY <2>2, <2>3
<1>21. CASE DeleteFile(o)
  BY <1>21, <1>0 DEF DeleteFile
<1> QED
  BY <1>1, <1>2, <1>3, <1>4, <1>5, <1>6, <1>7, <1>8, <1>9, <1>10, <1>11,
     <1>12, <1>13, <1>14, <1>15, <1>16, <1>17, <1>18, <1>19, <1>20, <1>21 DEF Step

\* What holds of validation and of the active profile in every state.
ServiceInv == SoloInv /\ ClashInv /\ NativeInv /\ KeptInv

LEMMA InitServiceInv == Init => ServiceInv
  BY DEF Init, ServiceInv, SoloInv, ClashInv, NativeInv, KeptInv, Working, Places, Actives,
         Exists

LEMMA NextServiceInv == IInv /\ ServiceInv /\ [Next]_vars => ServiceInv'
<1> SUFFICES ASSUME IInv, ServiceInv, [Next]_vars PROVE ServiceInv'
  OBVIOUS
<1>1. CASE Kill
  <2>1. \A o \in Ops : pc'[o] = "done" \/ (pc[o] = "idle" /\ pc'[o] = "idle")
    BY <1>1 DEF Kill
  <2>2. UNCHANGED <<rows, file, temp, kind, target, base, content, ok, service, deletedActive,
                    overlapped>>
    BY <1>1 DEF Kill, disk, request
  <2> QED
    BY <2>1, <2>2 DEF ServiceInv, SoloInv, ClashInv, NativeInv, KeptInv, Working, Places,
                      Actives, Exists
<1>2. ASSUME NEW o \in Ops, Step(o) PROVE ServiceInv'
  BY <1>2, SoloStep, ClashStep, NativeStep, KeptStep DEF IInv, ServiceInv
<1>3. CASE UNCHANGED vars
  BY <1>3 DEF vars, disk, request, history, setup, ServiceInv, SoloInv, ClashInv, NativeInv,
              KeptInv, Actives, Exists
<1> QED
  BY <1>1, <1>2, <1>3 DEF Next

LEMMA ServiceInvariant == Spec => []ServiceInv
  BY InitServiceInv, NextServiceInv, Invariant, PTL DEF Spec

\* As long as operations wait for each other, the native service leaves in the
\* profile's file what it has validated.
THEOREM NativeStores == Spec => []NativeSaves
<1>1. ServiceInv => NativeSaves
  BY DEF ServiceInv, NativeInv, NativeSaves, ValidatedIsSaved
<1> QED
  BY <1>1, ServiceInvariant, PTL

\* As long as operations wait for each other, only a deletion takes the active
\* profile away.
THEOREM ActiveKept == Spec => []ActiveUnlessDeleted
<1>1. ServiceInv => ActiveUnlessDeleted
  BY DEF ServiceInv, KeptInv, ActiveUnlessDeleted
<1> QED
  BY <1>1, ServiceInvariant, PTL

\* With ClashAdapterService no profile is ever added, however operations overlap.
THEOREM ClashAddsNone == Spec => NothingAdded
<1>1. IInv /\ ServiceInv /\ [Next]_vars =>
        [service = "clash" => \A i \in Ids : ~Exists(i) => rows'[i] = None]_vars
  <2> SUFFICES ASSUME IInv, ServiceInv, Next, service = "clash", NEW i \in Ids, ~Exists(i)
               PROVE  rows'[i] = None
    OBVIOUS
  <2>1. CASE Kill
    BY <2>1 DEF Kill, disk, Exists
  <2>2. ASSUME NEW o \in Ops, CommitInsert(o) PROVE FALSE
    <3>1. pc[o] = "commit" /\ kind[o] \in InsertKinds
      BY <2>2 DEF CommitInsert
    <3>2. file[target[o]] # None
      BY <3>1 DEF IInv, SavedInv
    <3>3. file[target[o]] = None
      BY <3>1 DEF ServiceInv, ClashInv, Working, Places
    <3> QED
      BY <3>2, <3>3
  <2>3. ASSUME NEW o \in Ops, CommitUpdate(o) \/ CommitSave(o) \/ CommitSelect(o)
        PROVE  rows'[i] = None
    BY <2>3 DEF CommitUpdate, CommitSave, CommitSelect, Edit, Cleared, Exists
  <2>4. ASSUME NEW o \in Ops, DeleteRow(o) PROVE rows'[i] = None
    BY <2>4 DEF DeleteRow, Exists, IInv, TypeOK
  <2>5. CASE rows' = rows
    BY <2>5 DEF Exists
  <2> QED
    BY <2>1, <2>2, <2>3, <2>4, <2>5 DEF Next, Step, Adding, Lookup, CancelAdd, BeginAddNew,
       BeginUpdate, BeginSave, BeginSelect, BeginDelete, Fail, WriteTemp, ReadHeaders,
       ValidateNative, ReadStored, Convert, Clean, DeleteFile, disk
<1> QED
  BY <1>1, Invariant, ServiceInvariant, PTL DEF Spec, NothingAdded
=============================================================================
