-------------------------- MODULE SectorLocksProofs --------------------------
(***************************************************************************)
(* For any number of requests, sectors, file types and lock objects: the   *)
(* sector locks exclude, and no wakeup is lost.                            *)
(***************************************************************************)
EXTENDS SectorLocks, FiniteSetTheorems, TLAPS

(* Sets of goroutines are finite. *)
LEMMA ProcFinite ==
  ASSUME NEW S \in SUBSET Proc
  PROVE  IsFiniteSet(S) /\ Cardinality(S) \in Nat
BY FS_Subset, FS_CardinalityType, LocksAssumption, Zenon

(* The count of a set of goroutines with one more, or one less. *)
LEMMA Counting ==
  ASSUME NEW S \in SUBSET Proc, NEW p \in Proc
  PROVE  /\ p \notin S => Cardinality(S \cup {p}) = Cardinality(S) + 1
         /\ p \in S => Cardinality(S \ {p}) = Cardinality(S) - 1
         /\ Cardinality(S \ {p}) <= Cardinality(S)
         /\ Cardinality(S) = 0 <=> S = {}
<1>1. IsFiniteSet(S) /\ Cardinality(S) \in Nat
  BY ProcFinite, Zenon
<1>2. /\ Cardinality(S \cup {p}) =
           IF p \in S THEN Cardinality(S) ELSE Cardinality(S) + 1
      /\ Cardinality(S \ {p}) =
           IF p \in S THEN Cardinality(S) - 1 ELSE Cardinality(S)
  BY <1>1, FS_AddElement, FS_RemoveElement, Zenon
<1>3. Cardinality(S) = 0 <=> S = {}
  BY <1>1, FS_EmptySet, Zenon
<1> QED
  BY <1>1, <1>2, <1>3

(* A counted request that is the only one counted is alone. *)
LEMMA OnlyOne ==
  ASSUME NEW S \in SUBSET Proc, NEW p \in S, NEW q \in S,
         Cardinality(S) <= 1
  PROVE  q = p
<1>1. Cardinality(S) \in Nat /\ Cardinality(S \ {p}) \in Nat
  BY ProcFinite, Zenon
<1>2. Cardinality(S \ {p}) = Cardinality(S) - 1
  BY Counting, Zenon
<1>3. Cardinality(S \ {p}) = 0
  BY <1>1, <1>2
<1>4. S \ {p} = {}
  BY <1>3, Counting, S \ {p} \in SUBSET Proc, Zenon
<1> QED
  BY <1>4, Zenon

(* The initial state. *)
LEMMA InitIInv == Init => IInv
<1> SUFFICES ASSUME Init PROVE IInv
  BY Zenon
<1>1. TypeOK
  BY Zenon DEF Init, TypeOK
<1>2. OneObject /\ ObjectsApart /\ HoldersApart /\ SleepersBlocked
  BY Zenon DEF Init, OneObject, Using, ObjectsApart, HoldersApart, Holders,
         SleepersBlocked
<1>3. \A o \in Obj : Users(o) = {} /\ Holders(o) = {}
  BY Zenon DEF Init, Users, Using, Holders
<1>4. \A o \in Obj, t \in FileType : Readers(o, t) = {}
  BY <1>3, Zenon DEF Readers
<1>5. Counted
  <2> SUFFICES ASSUME NEW o \in Obj
               PROVE  /\ Cardinality(Users(o)) <= refs[o]
                      /\ \A t \in FileType :
                           /\ r[o][t] = Cardinality(Readers(o, t))
                           /\ t \in w[o] <=>
                                \E p \in Holders(o) : t \in write(p)
    BY Zenon DEF Counted
  <2>1. refs[o] = 0 /\ w[o] = {} /\ \A t \in FileType : r[o][t] = 0
    BY Zenon DEF Init
  <2> QED
    BY <1>3, <1>4, <2>1, FS_EmptySet, SMTT(120)
<1> QED
  BY <1>1, <1>2, <1>5, Zenon DEF IInv

(* What a request is. *)
LEMMA RequestFields ==
  ASSUME NEW q \in Request
  PROVE  /\ q.sector \in Sector /\ q.slk \in Obj /\ q.try \in BOOLEAN
         /\ q.read \in SUBSET FileType /\ q.write \in SUBSET FileType
         /\ q # NONE
BY LocksAssumption, Zenon DEF Request

LEMMA UserFields ==
  ASSUME TypeOK, NEW p \in Proc, Using(p)
  PROVE  /\ req[p] \in Request /\ req[p].sector \in Sector /\ slk(p) \in Obj
         /\ read(p) \in SUBSET FileType /\ write(p) \in SUBSET FileType
<1>1. req[p] \in Request
  BY Zenon DEF TypeOK, Using
<1> QED
  BY <1>1, RequestFields, Zenon DEF slk, read, write

----------------------------------------------------------------------------
(* A request that asks: it uses the object it found or made. *)

LEMMA AskIInv ==
  ASSUME IInv, NEW p \in Proc, NEW q \in Request, Ask(p, q)
  PROVE  IInv'
<1> DEFINE o == q.slk
           s == q.sector
<1>1. TypeOK /\ o \in Obj /\ s \in Sector /\ q # NONE /\ o # NONE
  BY RequestFields, LocksAssumption, Zenon DEF IInv
<1>2. /\ pc[p] = "idle"
      /\ pc' = [pc EXCEPT ![p] = "asked"]
      /\ req' = [req EXCEPT ![p] = q]
      /\ UNCHANGED <<parked, ctxDone>>
      /\ Referenced(s, o) \/ Created(s, o)
  BY Zenon DEF Ask, Goto
<1> HIDE DEF o, s
<1>3. pc'[p] = "asked" /\ req'[p] = q
  BY <1>1, <1>2, Zenon DEF TypeOK
<1>4. \A u \in Proc : u # p => pc'[u] = pc[u] /\ req'[u] = req[u]
  BY <1>1, <1>2, Zenon DEF TypeOK
<1>5. \A x \in Obj : Holders(x)' = Holders(x)
  BY <1>2, <1>3, <1>4, Zenon DEF Holders, slk
<1>6. \A x \in Obj, t \in FileType : Readers(x, t)' = Readers(x, t)
  <2> SUFFICES ASSUME NEW x \in Obj, NEW t \in FileType
               PROVE  Readers(x, t)' = Readers(x, t)
    BY Zenon
  <2>1. \A u \in Holders(x) : u \in Proc /\ u # p
    BY <1>2, Zenon DEF Holders
  <2> QED
    BY <1>4, <1>5, <2>1, Zenon DEF Readers, read
<1>7. \A x \in Obj : \A u \in Holders(x) :
        u \in Proc /\ u # p /\ write(u)' = write(u) /\ read(u)' = read(u)
  BY <1>2, <1>4, Zenon DEF Holders, write, read
<1>8. Users(o)' = Users(o) \cup {p} /\ p \notin Users(o)
  BY <1>2, <1>3, <1>4, Zenon DEF Users, Using, slk, o
<1>9. \A x \in Obj : x # o => Users(x)' = Users(x)
  BY <1>2, <1>3, <1>4 DEF Users, Using, slk, o
<1>10. HoldersApart'
  BY <1>5, <1>7 DEF HoldersApart, IInv
<1>11. p \notin parked /\ parked' = parked
  BY <1>2, Zenon DEF IInv, SleepersBlocked
<1>12. Users(o) \in SUBSET Proc
  BY Zenon DEF Users
<1>13. CASE Referenced(s, o)
  <2>1. /\ locks[s] = o
        /\ refs' = [refs EXCEPT ![o] = @ + 1]
        /\ UNCHANGED <<locks, r, w>>
    BY <1>13, Zenon DEF Referenced
  <2>2. TypeOK'
    BY <1>1, <1>2, <2>1 DEF TypeOK
  <2>3. OneObject'
    BY <1>2, <1>3, <1>4, <2>1 DEF OneObject, Using, slk, IInv, o, s
  <2>4. ObjectsApart'
    BY <2>1, Zenon DEF ObjectsApart, IInv
  <2>5. Counted'
    <3> SUFFICES ASSUME NEW x \in Obj
                 PROVE  Cardinality(Users(x)') <= refs'[x]
      BY <1>5, <1>6, <1>7, <2>1 DEF Counted, IInv
    <3>1. CASE x = o
      <4>1. Cardinality(Users(o)') = Cardinality(Users(o)) + 1
        BY <1>8, <1>12, Counting
      <4>2. Cardinality(Users(o)) \in Nat
        BY <1>12, ProcFinite, Zenon
      <4>3. Cardinality(Users(o)) <= refs[o] /\ refs[o] \in Nat
        BY <1>1, Zenon DEF Counted, IInv, TypeOK
      <4>4. refs'[o] = refs[o] + 1
        BY <1>1, <2>1, Zenon DEF TypeOK
      <4> QED
        BY <3>1, <4>1, <4>2, <4>3, <4>4
    <3>2. CASE x # o
      BY <1>1, <1>9, <2>1, <3>2, Zenon DEF Counted, IInv, TypeOK
    <3> QED
      BY <3>1, <3>2, Zenon
  <2>6. SleepersBlocked'
    BY <1>4, <1>11, <2>1, <1>1, SMTT(120)
       DEF SleepersBlocked, canLock, slk, read, write, IInv, TypeOK
  <2> QED
    BY <1>10, <2>2, <2>3, <2>4, <2>5, <2>6, Zenon DEF IInv
<1>14. CASE Created(s, o)
  <2>1. /\ locks[s] = NONE
        /\ Free(o)
        /\ locks' = [locks EXCEPT ![s] = o]
        /\ r' = [r EXCEPT ![o] = [t \in FileType |-> 0]]
        /\ w' = [w EXCEPT ![o] = {}]
        /\ refs' = [refs EXCEPT ![o] = 1]
    BY <1>14, Zenon DEF Created
  <2>2. TypeOK'
    BY <1>1, <1>2, <2>1, Zenon DEF TypeOK
  <2>3. OneObject'
    <3> SUFFICES ASSUME NEW u \in Proc, Using(u)'
                 PROVE  locks'[req'[u].sector] = req'[u].slk
      BY Zenon DEF OneObject, slk
    <3>1. CASE u = p
      BY <1>1, <1>3, <2>1, <3>1, Zenon DEF TypeOK, o, s
    <3>2. CASE u # p
      <4>1. Using(u) /\ req'[u] = req[u]
        BY <1>4, <3>2, Zenon DEF Using
      <4>2. locks[req[u].sector] = slk(u) /\ slk(u) \in Obj
            /\ req[u].sector \in Sector
        BY <1>1, <4>1, UserFields, Zenon DEF OneObject, IInv
      <4>3. req[u].sector # s
        BY <1>1, <2>1, <4>2, LocksAssumption, Zenon
      <4> QED
        BY <1>1, <2>1, <4>1, <4>2, <4>3, Zenon DEF TypeOK, slk
    <3> QED
      BY <3>1, <3>2, Zenon
  <2>4. ObjectsApart'
    BY <1>1, <2>1, Zenon DEF ObjectsApart, IInv, Free, TypeOK
  <2>5. Users(o) = {} /\ Holders(o) = {}
    BY <2>1, Zenon DEF Free, Users, Using, Holders
  <2>6. Counted'
    <3> SUFFICES ASSUME NEW x \in Obj
                 PROVE  /\ Cardinality(Users(x)') <= refs'[x]
                        /\ \A t \in FileType :
                             /\ r'[x][t] = Cardinality(Readers(x, t)')
                             /\ t \in w'[x] <=>
                                  \E u \in Holders(x)' : t \in write(u)'
      BY Zenon DEF Counted
    <3>1. CASE x = o
      <4>1. Cardinality(Users(o)') = 1 /\ refs'[o] = 1
        <5>1. Users(o)' = {p}
          BY <1>8, <2>5, Zenon
        <5> QED
          BY <1>1, <2>1, <5>1, FS_Singleton, Zenon DEF TypeOK
      <4>2. \A t \in FileType : Readers(o, t)' = {} /\ r'[o][t] = 0
        BY <1>1, <1>6, <2>1, <2>5, Zenon DEF Readers, TypeOK
      <4>3. w'[o] = {} /\ Holders(o)' = {}
        BY <1>1, <1>5, <2>1, <2>5, Zenon DEF TypeOK
      <4> QED
        BY <3>1, <4>1, <4>2, <4>3, FS_EmptySet
    <3>2. CASE x # o
      <4>1. refs'[x] = refs[x] /\ r'[x] = r[x] /\ w'[x] = w[x]
        BY <1>1, <2>1, <3>2, Zenon DEF TypeOK
      <4> QED
        BY <1>5, <1>6, <1>7, <1>9, <3>2, <4>1 DEF Counted, IInv
    <3> QED
      BY <3>1, <3>2, Zenon
  <2>7. SleepersBlocked'
    <3> SUFFICES ASSUME NEW u \in parked
                 PROVE  /\ pc'[u] = "waiting"
                        /\ ~canLock(slk(u), read(u), write(u))'
      BY <1>11, Zenon DEF SleepersBlocked
    <3>1. u \in Proc /\ u # p /\ pc[u] = "waiting"
          /\ ~canLock(slk(u), read(u), write(u))
      BY <1>1, <1>11, Zenon DEF SleepersBlocked, IInv, TypeOK
    <3>2. slk(u) # o /\ slk(u) \in Obj
      BY <1>1, <2>1, <3>1, UserFields, Zenon DEF Free, Using
    <3>3. r'[slk(u)] = r[slk(u)] /\ w'[slk(u)] = w[slk(u)]
      BY <1>1, <2>1, <3>2, Zenon DEF TypeOK
    <3> QED
      BY <1>4, <3>1, <3>3 DEF canLock, slk, read, write
  <2> QED
    BY <1>10, <2>2, <2>3, <2>4, <2>6, <2>7, Zenon DEF IInv
<1> QED
  BY <1>2, <1>13, <1>14, Zenon


----------------------------------------------------------------------------
(* A request that gets its locks. *)

LEMMA LockedIInv ==
  ASSUME IInv, NEW p \in Proc, Locked(p)
  PROVE  IInv'
<1>1. TypeOK /\ Using(p) /\ pc[p] # "locked"
  BY Zenon DEF IInv, Locked, Runs, Using
<1>0. PICK o \in Obj : o = slk(p)
  BY <1>1, UserFields, Zenon
<1>2. /\ o \in Obj /\ o # NONE
      /\ read(p) \in SUBSET FileType /\ write(p) \in SUBSET FileType
  BY <1>1, UserFields, LocksAssumption, Zenon
<1>3. /\ canLock(o, read(p), write(p))
      /\ r' = [r EXCEPT ![o] =
                 [t \in FileType |-> IF t \in read(p) THEN @[t] + 1 ELSE @[t]]]
      /\ w' = [w EXCEPT ![o] = @ \cup write(p)]
      /\ pc' = [pc EXCEPT ![p] = "locked"]
      /\ UNCHANGED <<locks, refs, parked, req, ctxDone>>
      /\ p \notin parked
  <2>1. p \notin parked
    BY Zenon DEF Locked, Runs, IInv, SleepersBlocked
  <2> QED
    BY <1>0, <2>1, Zenon DEF Locked, tryLock, Goto
<1>4. pc'[p] = "locked" /\ \A u \in Proc : u # p => pc'[u] = pc[u]
  BY <1>1, <1>3, Zenon DEF TypeOK
<1>5. \A u \in Proc : /\ slk(u)' = slk(u) /\ read(u)' = read(u)
                      /\ write(u)' = write(u) /\ Using(u)' = Using(u)
  BY <1>1, <1>3, <1>4, Zenon DEF slk, read, write, Using
<1>6. \A x \in Obj : Users(x)' = Users(x)
  BY <1>5, Zenon DEF Users
<1>7. Holders(o)' = Holders(o) \cup {p} /\ p \notin Holders(o)
  BY <1>0, <1>1, <1>4, <1>5 DEF Holders
<1>8. \A x \in Obj : x # o => Holders(x)' = Holders(x)
  BY <1>0, <1>1, <1>4, <1>5, Zenon DEF Holders
<1>9. \A x \in Obj : x # o => r'[x] = r[x] /\ w'[x] = w[x]
  BY <1>1, <1>2, <1>3, Zenon DEF TypeOK
<1>10. /\ w'[o] = w[o] \cup write(p)
       /\ \A t \in FileType :
            r'[o][t] = IF t \in read(p) THEN r[o][t] + 1 ELSE r[o][t]
  BY <1>1, <1>2, <1>3, Zenon DEF TypeOK
<1>11. \A x \in Obj : Holders(x) \in SUBSET Proc
  BY Zenon DEF Holders
<1>12. TypeOK'
  <2>1. r' \in [Obj -> [FileType -> Nat]]
    BY <1>1, <1>2, <1>3 DEF TypeOK
  <2>2. w' \in [Obj -> SUBSET FileType]
    BY <1>1, <1>2, <1>3, Zenon DEF TypeOK
  <2> QED
    BY <1>1, <1>3, <1>4, <2>1, <2>2, Zenon DEF TypeOK, Using
<1>13. OneObject' /\ ObjectsApart'
  BY <1>3, <1>5, Zenon DEF OneObject, ObjectsApart, IInv
<1>14. Counted'
  <2> SUFFICES ASSUME NEW x \in Obj
               PROVE  \A t \in FileType :
                        /\ r'[x][t] = Cardinality(Readers(x, t)')
                        /\ t \in w'[x] <=>
                             \E u \in Holders(x)' : t \in write(u)'
    BY <1>3, <1>6, Zenon DEF Counted, IInv
  <2>1. CASE x # o
    <3>1. \A t \in FileType : Readers(x, t)' = Readers(x, t)
      BY <1>5, <1>8, <1>11, <2>1, Zenon DEF Readers
    <3> QED
      BY <1>5, <1>8, <1>9, <1>11, <2>1, <3>1 DEF Counted, IInv
  <2>2. CASE x = o
    <3> SUFFICES ASSUME NEW t \in FileType
                 PROVE  /\ r'[o][t] = Cardinality(Readers(o, t)')
                        /\ t \in w'[o] <=>
                             \E u \in Holders(o)' : t \in write(u)'
      BY <2>2, Zenon
    <3>1. t \in w'[o] <=> \E u \in Holders(o)' : t \in write(u)'
      BY <1>2, <1>5, <1>7, <1>10, <1>11 DEF Counted, IInv
    <3>2. r[o][t] = Cardinality(Readers(o, t))
      BY <1>2, Zenon DEF Counted, IInv
    <3>3. Readers(o, t) \in SUBSET Proc /\ p \notin Readers(o, t)
      BY <1>2, <1>7, <1>11, Zenon DEF Readers
    <3>4. CASE t \in read(p)
      <4>1. Readers(o, t)' = Readers(o, t) \cup {p}
        BY <1>2, <1>5, <1>7, <1>11, <3>4, Zenon DEF Readers
      <4>2. Cardinality(Readers(o, t)') = Cardinality(Readers(o, t)) + 1
        BY <3>3, <4>1, Counting
      <4> QED
        BY <1>10, <3>1, <3>2, <3>4, <4>2, Zenon
    <3>5. CASE t \notin read(p)
      <4>1. Readers(o, t)' = Readers(o, t)
        BY <1>2, <1>5, <1>7, <1>11, <3>5, Zenon DEF Readers
      <4> QED
        BY <1>10, <3>1, <3>2, <3>5, <4>1, Zenon
    <3> QED
      BY <3>4, <3>5, Zenon
  <2> QED
    BY <2>1, <2>2, Zenon
<1>15. \A u \in Holders(o) :
         /\ write(p) \cap (read(u) \cup write(u)) = {}
         /\ write(u) \cap (read(p) \cup write(p)) = {}
  <2> SUFFICES ASSUME NEW u \in Holders(o), NEW t \in FileType
               PROVE  /\ t \in write(p) => t \notin read(u) /\ t \notin write(u)
                      /\ t \in write(u) => t \notin read(p) /\ t \notin write(p)
    BY <1>2, Zenon
  <2>1. t \in write(u) => t \in w[o]
    BY <1>2, Zenon DEF Counted, IInv
  <2>2. t \in w[o] => t \notin read(p) /\ t \notin write(p)
    BY <1>3, Zenon DEF canLock
  <2>3. t \in write(p) => t \notin read(u)
    <3> SUFFICES ASSUME t \in write(p) PROVE t \notin read(u)
      BY Zenon
    <3>1. r[o][t] = 0 /\ r[o][t] = Cardinality(Readers(o, t))
      BY <1>2, <1>3, Zenon DEF canLock, Counted, IInv
    <3>2. Readers(o, t) \in SUBSET Proc
      BY <1>2, <1>11, Zenon DEF Readers
    <3>3. Readers(o, t) = {}
      BY <3>1, <3>2, Counting, Zenon
    <3> QED
      BY <3>3, Zenon DEF Readers
  <2> QED
    BY <2>1, <2>2, <2>3, Zenon
<1>16. HoldersApart'
  <2> SUFFICES ASSUME NEW x \in Obj, NEW u \in Holders(x)', NEW v \in Holders(x)',
                      u # v
               PROVE  write(u) \cap (read(v) \cup write(v)) = {}
    BY <1>5, Zenon DEF HoldersApart, Holders
  <2>1. CASE u \in Holders(x) /\ v \in Holders(x)
    BY <2>1, Zenon DEF HoldersApart, IInv
  <2>2. CASE x = o /\ u = p
    BY <1>7, <1>15, <2>2, Zenon
  <2>3. CASE x = o /\ v = p
    BY <1>7, <1>15, <2>3, Zenon
  <2> QED
    BY <1>7, <1>8, <2>1, <2>2, <2>3, Zenon
<1>17. SleepersBlocked'
  <2> SUFFICES ASSUME NEW u \in parked
               PROVE  /\ pc'[u] = "waiting"
                      /\ ~canLock(slk(u), read(u), write(u))'
    BY <1>3, Zenon DEF SleepersBlocked
  <2>1. u \in Proc /\ u # p /\ pc[u] = "waiting"
        /\ ~canLock(slk(u), read(u), write(u))
    BY <1>1, <1>3, Zenon DEF SleepersBlocked, IInv, TypeOK
  <2>2. slk(u) \in Obj /\ write(u) \in SUBSET FileType
    BY <1>1, <2>1, UserFields, Zenon DEF Using
  <2>3. w[slk(u)] \subseteq w'[slk(u)]
    BY <1>9, <1>10, <2>2, Zenon
  <2>4. \A t \in FileType : r'[slk(u)][t] = 0 => r[slk(u)][t] = 0
    BY <1>1, <1>9, <1>10, <2>2 DEF TypeOK
  <2> QED
    BY <1>4, <1>5, <2>1, <2>2, <2>3, <2>4, Zenon DEF canLock
<1> QED
  BY <1>12, <1>13, <1>14, <1>16, <1>17, Zenon DEF IInv


----------------------------------------------------------------------------
(* A request that returns without its locks, refused or given up. *)

LEMMA ReturnIInv ==
  ASSUME IInv, NEW p \in Proc, pc[p] \in {"asked", "waiting"}, Return(p),
         UNCHANGED <<locks, object>>, parked' = parked \ {p}
  PROVE  IInv'
<1>1. TypeOK /\ UNCHANGED <<r, w, refs>>
  BY Zenon DEF IInv, object
<1>2. /\ pc'[p] = "idle" /\ req'[p] = NONE
      /\ \A u \in Proc : u # p => pc'[u] = pc[u] /\ req'[u] = req[u]
  BY <1>1, Zenon DEF Return, Goto, TypeOK
<1>3. \A x \in Obj : Holders(x)' = Holders(x) /\ Holders(x) \in SUBSET Proc
  BY <1>2, Zenon DEF Holders, slk
<1>4. \A x \in Obj : \A u \in Holders(x) :
        u # p /\ write(u)' = write(u) /\ read(u)' = read(u)
  BY <1>2, Zenon DEF Holders, write, read
<1>5. \A x \in Obj, t \in FileType : Readers(x, t)' = Readers(x, t)
  BY <1>3, <1>4, Zenon DEF Readers
<1>6. TypeOK'
  BY <1>1, <1>2, Zenon DEF TypeOK, Return, Goto
<1>7. OneObject' /\ ObjectsApart'
  BY <1>2, Zenon DEF OneObject, ObjectsApart, IInv, Using, slk
<1>8. Counted'
  <2> SUFFICES ASSUME NEW x \in Obj
               PROVE  Cardinality(Users(x)') <= refs[x]
    BY <1>1, <1>3, <1>4, <1>5 DEF Counted, IInv
  <2>1. Users(x)' = Users(x) \ {p} /\ Users(x) \in SUBSET Proc
    BY <1>2, Zenon DEF Users, Using, slk
  <2>2. Cardinality(Users(x)') <= Cardinality(Users(x))
    BY <2>1, Counting, Zenon
  <2>3. Cardinality(Users(x)) \in Nat /\ Cardinality(Users(x)') \in Nat
    BY <2>1, ProcFinite, Zenon
  <2>4. Cardinality(Users(x)) <= refs[x] /\ refs[x] \in Nat
    BY <1>1, Zenon DEF Counted, IInv, TypeOK
  <2> QED
    BY <2>2, <2>3, <2>4
<1>9. HoldersApart'
  BY <1>3, <1>4 DEF HoldersApart, IInv
<1>10. SleepersBlocked'
  BY <1>1, <1>2 DEF SleepersBlocked, IInv, TypeOK, canLock, slk, read, write
<1> QED
  BY <1>6, <1>7, <1>8, <1>9, <1>10, Zenon DEF IInv

(* A request that goes to sleep, or whose context ends. *)
LEMMA WaitIInv ==
  ASSUME IInv, NEW p \in Proc, Wait(p) \/ CtxDone(p)
  PROVE  IInv'
<1>1. TypeOK /\ UNCHANGED <<locks, r, w, refs, req>>
  BY Zenon DEF IInv, object, Wait, CtxDone
<1>2. \A u \in Proc : /\ pc'[u] = "idle" <=> pc[u] = "idle"
                      /\ pc'[u] = "locked" <=> pc[u] = "locked"
  BY <1>1, Zenon DEF TypeOK, Wait, CtxDone, Goto, Runs
<1>3. \A u \in Proc : /\ slk(u)' = slk(u) /\ read(u)' = read(u)
                      /\ write(u)' = write(u) /\ Using(u)' = Using(u)
  BY <1>1, <1>2, Zenon DEF slk, read, write, Using
<1>4. \A x \in Obj : /\ Holders(x)' = Holders(x) /\ Users(x)' = Users(x)
                     /\ Holders(x) \in SUBSET Proc
  BY <1>2, <1>3, Zenon DEF Holders, Users
<1>5. \A x \in Obj, t \in FileType : Readers(x, t)' = Readers(x, t)
  BY <1>3, <1>4, Zenon DEF Readers
<1>6. TypeOK'
  <2>1. /\ pc' \in [Proc -> {"idle", "asked", "waiting", "locked"}]
        /\ parked' \subseteq Proc
        /\ ctxDone' \in [Proc -> BOOLEAN]
    BY <1>1, Zenon DEF TypeOK, Wait, CtxDone, Goto
  <2> QED
    BY <1>1, <1>2, <2>1, Zenon DEF TypeOK
<1>7. OneObject' /\ ObjectsApart'
  BY <1>1, <1>3, Zenon DEF OneObject, ObjectsApart, IInv
<1>8. Counted'
  <2>1. r' = r /\ w' = w /\ refs' = refs
    BY <1>1, Zenon
  <2> QED
    BY <1>3, <1>4, <1>5, <2>1 DEF Counted, IInv
<1>9. HoldersApart'
  BY <1>3, <1>4 DEF HoldersApart, IInv
<1>10. SleepersBlocked'
  <2>1. \A u \in parked' : u \in Proc /\ pc'[u] = "waiting"
    BY <1>1, <1>6 DEF SleepersBlocked, IInv, TypeOK, Wait, CtxDone, Goto
  <2>2. \A u \in parked' : ~canLock(slk(u), read(u), write(u))
    BY Zenon DEF SleepersBlocked, IInv, Wait, CtxDone
  <2> QED
    BY <1>1, <2>1, <2>2, Zenon DEF SleepersBlocked, canLock, slk, read, write
<1> QED
  BY <1>6, <1>7, <1>8, <1>9, <1>10, Zenon DEF IInv

----------------------------------------------------------------------------
(* A request whose locks are released: the object is deleted only when no  *)
(* other request uses it, and its sleepers are woken.                      *)

LEMMA ReleaseIInv ==
  ASSUME IInv, NEW p \in Proc, Release(p)
  PROVE  IInv'
<1>1. TypeOK /\ Using(p) /\ pc[p] = "locked"
  BY Zenon DEF IInv, Release, Using
<1>2. PICK o \in Obj : o = slk(p)
  BY <1>1, UserFields, Zenon
<1>3. PICK s \in Sector : s = req[p].sector
  BY <1>1, UserFields, Zenon
<1>4. /\ r' = [r EXCEPT ![o] =
                 [t \in FileType |-> IF t \in read(p) THEN @[t] - 1 ELSE @[t]]]
      /\ w' = [w EXCEPT ![o] = @ \ write(p)]
      /\ parked' = {u \in parked : slk(u) # o}
      /\ refs' = [refs EXCEPT ![o] = @ - 1]
      /\ locks' = IF refs[o] = 1 THEN [locks EXCEPT ![s] = NONE] ELSE locks
      /\ pc' = [pc EXCEPT ![p] = "idle"]
      /\ req' = [req EXCEPT ![p] = NONE]
      /\ ctxDone' = [ctxDone EXCEPT ![p] = FALSE]
  BY <1>2, <1>3, Zenon DEF Release, unlock, Broadcast, Forget, Return, Goto
<1>5. /\ pc'[p] = "idle" /\ req'[p] = NONE
      /\ \A u \in Proc : u # p => pc'[u] = pc[u] /\ req'[u] = req[u]
  BY <1>1, <1>4, Zenon DEF TypeOK
<1>6. \A u \in Proc : u # p => /\ slk(u)' = slk(u) /\ read(u)' = read(u)
                               /\ write(u)' = write(u) /\ Using(u)' = Using(u)
  BY <1>5, Zenon DEF slk, read, write, Using
<1>7. /\ Users(o)' = Users(o) \ {p} /\ p \in Users(o)
      /\ Holders(o)' = Holders(o) \ {p} /\ p \in Holders(o)
  BY <1>1, <1>2, <1>5, <1>6, Zenon DEF Users, Holders, Using
<1>8. \A x \in Obj : x # o => Users(x)' = Users(x) /\ Holders(x)' = Holders(x)
  BY <1>2, <1>5, <1>6, Zenon DEF Users, Holders, Using
<1>9. \A x \in Obj : Users(x) \in SUBSET Proc /\ Holders(x) \in SUBSET Proc
  BY Zenon DEF Users, Holders
<1>10. \A x \in Obj : x # o => r'[x] = r[x] /\ w'[x] = w[x] /\ refs'[x] = refs[x]
  BY <1>1, <1>4, Zenon DEF TypeOK
<1>11. /\ w'[o] = w[o] \ write(p) /\ refs'[o] = refs[o] - 1
       /\ \A t \in FileType :
            r'[o][t] = IF t \in read(p) THEN r[o][t] - 1 ELSE r[o][t]
  BY <1>1, <1>4, Zenon DEF TypeOK
<1>12. \A x \in Obj : x # o => p \notin Holders(x)
  BY <1>2, Zenon DEF Holders
<1>13. /\ Cardinality(Users(o)) \in Nat /\ Cardinality(Users(o)) <= refs[o]
       /\ refs[o] \in Nat
       /\ Cardinality(Users(o)') = Cardinality(Users(o)) - 1
       /\ Cardinality(Users(o)') \in Nat
  <2>1. Cardinality(Users(o)) \in Nat /\ Cardinality(Users(o)') \in Nat
    BY <1>7, <1>9, ProcFinite, Zenon
  <2>2. Cardinality(Users(o)') = Cardinality(Users(o)) - 1
    BY <1>7, <1>9, Counting
  <2> QED
    BY <1>1, <2>1, <2>2, Zenon DEF Counted, IInv, TypeOK
<1>14. \A t \in FileType : t \in read(p) => r[o][t] - 1 \in Nat
  <2> SUFFICES ASSUME NEW t \in FileType, t \in read(p)
               PROVE  r[o][t] - 1 \in Nat
    BY Zenon
  <2>1. p \in Readers(o, t) /\ Readers(o, t) \in SUBSET Proc
    BY <1>7, <1>9, Zenon DEF Readers
  <2>2. Cardinality(Readers(o, t)) # 0 /\ Cardinality(Readers(o, t)) \in Nat
    BY <2>1, Counting, ProcFinite, Zenon
  <2>3. r[o][t] = Cardinality(Readers(o, t))
    BY Zenon DEF Counted, IInv
  <2> QED
    BY <2>2, <2>3
<1>15. TypeOK'
  <2>1. r' \in [Obj -> [FileType -> Nat]]
    BY <1>1, <1>4, <1>14, Zenon DEF TypeOK
  <2>2. refs' \in [Obj -> Nat]
    BY <1>1, <1>4, <1>11, <1>13 DEF TypeOK
  <2>3. locks' \in [Sector -> Obj \cup {NONE}] /\ w' \in [Obj -> SUBSET FileType]
    BY <1>1, <1>4, Zenon DEF TypeOK
  <2>4. /\ pc' \in [Proc -> {"idle", "asked", "waiting", "locked"}]
        /\ req' \in [Proc -> Request \cup {NONE}]
        /\ ctxDone' \in [Proc -> BOOLEAN]
        /\ parked' \subseteq Proc
    BY <1>1, <1>4, Zenon DEF TypeOK
  <2>5. \A u \in Proc : pc'[u] = "idle" <=> req'[u] = NONE
    BY <1>1, <1>5, Zenon DEF TypeOK
  <2> QED
    BY <2>1, <2>2, <2>3, <2>4, <2>5, Zenon DEF TypeOK
<1>16. OneObject'
  <2> SUFFICES ASSUME NEW u \in Proc, Using(u)'
               PROVE  locks'[req'[u].sector] = req'[u].slk
    BY Zenon DEF OneObject, slk
  <2>1. u # p /\ Using(u) /\ req'[u] = req[u]
    BY <1>5, <1>6, Zenon DEF Using
  <2>2. locks[req[u].sector] = slk(u) /\ req[u].sector \in Sector
    BY <1>1, <2>1, UserFields, Zenon DEF OneObject, IInv
  <2>3. CASE refs[o] = 1
    <3>1. Cardinality(Users(o)) <= 1
      BY <1>13, <2>3, Zenon
    <3>2. u \notin Users(o)
      BY <1>7, <1>9, <2>1, <3>1, OnlyOne, Zenon
    <3>3. slk(u) # o /\ locks[s] = o
      BY <1>1, <1>2, <1>3, <2>1, <3>2, Zenon DEF Users, OneObject, IInv
    <3>4. req[u].sector # s
      BY <2>2, <3>3, Zenon
    <3> QED
      BY <1>1, <1>4, <2>1, <2>2, <2>3, <3>4, Zenon DEF TypeOK, slk
  <2>4. CASE refs[o] # 1
    BY <1>4, <2>1, <2>2, <2>4, Zenon DEF slk
  <2> QED
    BY <2>3, <2>4, Zenon
<1>17. ObjectsApart'
  BY <1>1, <1>4, Zenon DEF ObjectsApart, IInv, TypeOK
<1>18. Counted'
  <2> SUFFICES ASSUME NEW x \in Obj
               PROVE  /\ Cardinality(Users(x)') <= refs'[x]
                      /\ \A t \in FileType :
                           /\ r'[x][t] = Cardinality(Readers(x, t)')
                           /\ t \in w'[x] <=>
                                \E u \in Holders(x)' : t \in write(u)'
    BY Zenon DEF Counted
  <2>1. CASE x # o
    <3>1. \A t \in FileType : Readers(x, t)' = Readers(x, t)
      BY <1>6, <1>8, <1>9, <1>12, <2>1, Zenon DEF Readers
    <3>2. \A u \in Holders(x) : write(u)' = write(u)
      BY <1>6, <1>9, <1>12, <2>1, Zenon
    <3> QED
      BY <1>8, <1>10, <2>1, <3>1, <3>2 DEF Counted, IInv
  <2>2. CASE x = o
    <3>1. Cardinality(Users(o)') <= refs'[o]
      BY <1>11, <1>13
    <3>2. ASSUME NEW t \in FileType
          PROVE  r'[o][t] = Cardinality(Readers(o, t)')
      <4>1. r[o][t] = Cardinality(Readers(o, t)) /\ Readers(o, t) \in SUBSET Proc
        BY <1>9, Zenon DEF Counted, IInv, Readers
      <4>2. CASE t \in read(p)
        <5>1. Readers(o, t)' = Readers(o, t) \ {p} /\ p \in Readers(o, t)
          BY <1>6, <1>7, <1>9, <4>2, Zenon DEF Readers
        <5>2. Cardinality(Readers(o, t)') = Cardinality(Readers(o, t)) - 1
          BY <4>1, <5>1, Counting
        <5> QED
          BY <1>11, <4>1, <4>2, <5>2, Zenon
      <4>3. CASE t \notin read(p)
        <5>1. Readers(o, t)' = Readers(o, t)
          BY <1>6, <1>7, <1>9, <4>3, Zenon DEF Readers
        <5> QED
          BY <1>11, <4>1, <4>3, <5>1, Zenon
      <4> QED
        BY <4>2, <4>3, Zenon
    <3>3. ASSUME NEW t \in FileType
          PROVE  t \in w'[o] <=> \E u \in Holders(o)' : t \in write(u)'
      <4>1. t \in w[o] <=> \E u \in Holders(o) : t \in write(u)
        BY Zenon DEF Counted, IInv
      <4>2. \A u \in Holders(o) : u # p /\ t \in write(u) => t \notin write(p)
        BY <1>7, Zenon DEF HoldersApart, IInv
      <4>3. \A u \in Holders(o) : u # p => write(u)' = write(u)
        BY <1>6, <1>9, Zenon
      <4> QED
        BY <1>7, <1>11, <4>1, <4>2, <4>3, Zenon
    <3> QED
      BY <2>2, <3>1, <3>2, <3>3, Zenon
  <2> QED
    BY <2>1, <2>2, Zenon
<1>19. HoldersApart'
  <2> SUFFICES ASSUME NEW x \in Obj, NEW u \in Holders(x)', NEW v \in Holders(x)',
                      u # v
               PROVE  (write(u) \cap (read(v) \cup write(v)) = {})'
    BY Zenon DEF HoldersApart
  <2>1. u \in Holders(x) /\ v \in Holders(x) /\ u # p /\ v # p
    BY <1>7, <1>8, <1>12, Zenon
  <2>2. u \in Proc /\ v \in Proc
    BY <1>9, <2>1, Zenon
  <2>3. write(u) \cap (read(v) \cup write(v)) = {}
    BY <2>1, Zenon DEF HoldersApart, IInv
  <2> QED
    BY <1>6, <2>1, <2>2, <2>3, Zenon
<1>20. SleepersBlocked'
  <2> SUFFICES ASSUME NEW u \in parked'
               PROVE  /\ pc'[u] = "waiting"
                      /\ ~canLock(slk(u), read(u), write(u))'
    BY Zenon DEF SleepersBlocked
  <2>1. u \in parked /\ slk(u) # o
    BY <1>4, Zenon
  <2>2. u \in Proc /\ u # p /\ pc[u] = "waiting"
        /\ ~canLock(slk(u), read(u), write(u))
    BY <1>1, <2>1, Zenon DEF SleepersBlocked, IInv, TypeOK
  <2>3. slk(u) \in Obj
    BY <1>1, <2>2, UserFields, Zenon DEF Using
  <2>4. r'[slk(u)] = r[slk(u)] /\ w'[slk(u)] = w[slk(u)]
    BY <1>10, <2>1, <2>3, Zenon
  <2> QED
    BY <1>5, <1>6, <2>2, <2>4, Zenon DEF canLock
<1> QED
  BY <1>15, <1>16, <1>17, <1>18, <1>19, <1>20, Zenon DEF IInv

----------------------------------------------------------------------------
(* Every step keeps the invariant. *)

LEMMA NextIInv == IInv /\ [Next]_vars => IInv'
<1> SUFFICES ASSUME IInv, [Next]_vars PROVE IInv'
  BY Zenon
<1>1. CASE UNCHANGED vars
  <2> USE <1>1 DEF vars, object
  <2>1. TypeOK' /\ ObjectsApart'
    BY Zenon DEF IInv, TypeOK, ObjectsApart
  <2>2. OneObject' /\ SleepersBlocked'
    BY Zenon DEF IInv, OneObject, SleepersBlocked, Using, canLock, slk, read, write
  <2>3. \A u \in Proc : /\ slk(u)' = slk(u) /\ read(u)' = read(u)
                        /\ write(u)' = write(u) /\ Using(u)' = Using(u)
    BY Zenon DEF slk, read, write, Using
  <2>4. \A x \in Obj : /\ Holders(x)' = Holders(x) /\ Users(x)' = Users(x)
                       /\ Holders(x) \in SUBSET Proc
    BY <2>3, Zenon DEF Holders, Users
  <2>5. \A x \in Obj, t \in FileType : Readers(x, t)' = Readers(x, t)
    BY <2>3, <2>4, Zenon DEF Readers
  <2>6. Counted'
    BY <2>3, <2>4, <2>5 DEF Counted, IInv
  <2>7. HoldersApart'
    BY <2>3, <2>4 DEF HoldersApart, IInv
  <2> QED
    BY <2>1, <2>2, <2>6, <2>7, Zenon DEF IInv
<1>2. ASSUME NEW p \in Proc, NEW q \in Request, Ask(p, q) PROVE IInv'
  BY <1>2, AskIInv, Zenon
<1>3. ASSUME NEW p \in Proc, Locked(p) PROVE IInv'
  BY <1>3, LockedIInv, Zenon
<1>4. ASSUME NEW p \in Proc, Refused(p) PROVE IInv'
  <2>1. pc[p] \in {"asked", "waiting"} /\ p \notin parked
    BY <1>4, Zenon DEF Refused, Runs, IInv, SleepersBlocked
  <2>2. Return(p) /\ UNCHANGED <<locks, object>> /\ parked' = parked \ {p}
    BY <1>4, <2>1, Zenon DEF Refused
  <2> QED
    BY <2>1, <2>2, ReturnIInv, Zenon
<1>5. ASSUME NEW p \in Proc, Wait(p) \/ CtxDone(p) PROVE IInv'
  BY <1>5, WaitIInv, Zenon
<1>6. ASSUME NEW p \in Proc, GiveUp(p) PROVE IInv'
  BY <1>6, ReturnIInv, Zenon DEF GiveUp
<1>7. ASSUME NEW p \in Proc, Release(p) PROVE IInv'
  BY <1>7, ReleaseIInv, Zenon
<1> QED
  BY <1>1, <1>2, <1>3, <1>4, <1>5, <1>6, <1>7, Zenon DEF Next, Attempt

(* The variables keep their types, and the uint counters r and refs of a   *)
(* lock object never go below zero.                                        *)
THEOREM TypeCorrect == Spec => []TypeOK
<1>1. IInv => TypeOK
  BY Zenon DEF IInv
<1> QED
  BY <1>1, InitIInv, NextIInv, PTL DEF Spec

(* A lock object is in the index as long as some request uses it.  *)
THEOREM ObjectsStay == Spec => []OneObject
<1>1. IInv => OneObject
  BY Zenon DEF IInv
<1> QED
  BY <1>1, InitIInv, NextIInv, PTL DEF Spec

(* A file type of a sector that one request holds for writing is held by   *)
(* no other, although lock objects come and go.                            *)
THEOREM LocksExclude == Spec => []Exclusion
<1>1. IInv => Exclusion
  <2> SUFFICES ASSUME IInv, NEW p \in Proc, NEW q \in Proc, p # q,
                      pc[p] = "locked", pc[q] = "locked",
                      req[p].sector = req[q].sector
               PROVE  write(p) \cap (read(q) \cup write(q)) = {}
    BY Zenon DEF Exclusion
  <2>1. slk(p) = slk(q)
    BY Zenon DEF IInv, OneObject, Using
  <2>2. slk(p) \in Obj
    BY UserFields, Zenon DEF IInv, Using
  <2>3. p \in Holders(slk(p)) /\ q \in Holders(slk(p))
    BY <2>1, Zenon DEF Holders
  <2> QED
    BY <2>2, <2>3, Zenon DEF IInv, HoldersApart
<1> QED
  BY <1>1, InitIInv, NextIInv, PTL DEF Spec

(* Nobody sleeps whose locks are free: each release wakes all sleepers. *)
THEOREM NoLostWakeup == Spec => []SleepersBlocked
<1>1. IInv => SleepersBlocked
  BY Zenon DEF IInv
<1> QED
  BY <1>1, InitIInv, NextIInv, PTL DEF Spec

=============================================================================
