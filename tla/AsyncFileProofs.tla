-------------------------- MODULE AsyncFileProofs ---------------------------
(***************************************************************************)
(* Theorems about AsyncFile, for any number of calls, files, descriptors   *)
(* and any environment: a request works on a descriptor of its own file    *)
(* until it ends.                                                          *)
(***************************************************************************)
EXTENDS AsyncFile, FiniteSetTheorems, TLAPS

(* The types and the inductive invariant.                                  *)
Inv == TypeOK /\ IInv

-----------------------------------------------------------------------------
(* Minima and maxima.                                                      *)

LEMMA MinInSet ==
    ASSUME NEW S \in SUBSET Nat, S # {}
    PROVE  Min(S) \in S
<1>1. PICK x \in S : \A y \in S : ~ (<<y, x>> \in OpToRel(<, Nat))
  BY NatLessThanWellFounded, WFMin
<1>2. ASSUME NEW y \in S PROVE x =< y
  <2>1. x \in Nat /\ y \in Nat
    OBVIOUS
  <2>2. ASSUME y < x PROVE <<y, x>> \in OpToRel(<, Nat)
    <3>1. <<y, x>> \in Nat \X Nat
      BY <2>1
    <3>2. <<y, x>>[1] < <<y, x>>[2]
      BY <2>2
    <3>3. QED
      BY <3>1, <3>2, Zenon DEF OpToRel
  <2>3. ~ (y < x)
    BY <1>1, <2>2, Zenon
  <2>4. QED
    BY <2>1, <2>3
<1>3. QED
  BY <1>2 DEF Min

LEMMA MaxOfTwo ==
    ASSUME NEW a \in Int, NEW b \in Int
    PROVE  Max({a, b}) \in {a, b} /\ Max({a, b}) >= a /\ Max({a, b}) >= b
<1>1. \E x \in {a, b} : \A y \in {a, b} : x >= y
  <2>1. CASE a >= b
    BY <2>1
  <2>2. CASE b >= a
    BY <2>2
  <2>3. QED
    BY <2>1, <2>2
<1>2. QED
  BY <1>1 DEF Max

LEMMA MinOfTwo ==
    ASSUME NEW a \in Int, NEW b \in Int
    PROVE  Min({a, b}) \in {a, b}
<1>1. \E x \in {a, b} : \A y \in {a, b} : x =< y
  <2>1. CASE a =< b
    BY <2>1
  <2>2. CASE b =< a
    BY <2>2
  <2>3. QED
    BY <2>1, <2>2
<1>2. QED
  BY <1>1 DEF Min

LEMMA AvailableType ==
    ASSUME NEW size \in Nat, NEW offset \in Nat, NEW nbytes \in Nat
    PROVE  Available(size, offset, nbytes) \in Int
BY MinOfTwo DEF Available

LEMMA SizeAfterType ==
    ASSUME NEW size \in Nat, NEW append \in BOOLEAN, NEW offset \in Nat
    PROVE  SizeAfter(size, append, offset) \in Nat
<1> DEFINE next == offset + 1
<1>1. next \in Int
  OBVIOUS
<1>2. Max({size, next}) \in {size, next}
  <2> HIDE DEF next
  <2> QED
    BY <1>1, MaxOfTwo
<1>3. QED
  BY <1>2 DEF SizeAfter

(* The kernel gives a number that was closed.                              *)
LEMMA NewFdIsFree ==
    ASSUME FreeFds # {}
    PROVE  NewFd \in Fds /\ fds[NewFd] = Closed
<1>1. FreeFds \in SUBSET Nat
  BY FileAssumption DEF FreeFds, Fds
<1>2. NewFd \in FreeFds
  BY <1>1, MinInSet DEF NewFd
<1>3. QED
  BY <1>2 DEF FreeFds

-----------------------------------------------------------------------------
(* Counting writers.                                                       *)

LEMMA RequestsAreFinite ==
    ASSUME NEW S \in SUBSET Requests
    PROVE  IsFiniteSet(S) /\ Cardinality(S) \in Nat
<1>1. IsFiniteSet(Requests)
  BY FS_Interval, FileAssumption DEF Requests
<1>2. QED
  BY <1>1, FS_Subset, FS_CardinalityType

LEMMA CountOfSubset ==
    ASSUME NEW S \in SUBSET Requests, NEW T \in SUBSET S
    PROVE  Cardinality(T) <= Cardinality(S)
BY RequestsAreFinite, FS_Subset

LEMMA CountOfOneMore ==
    ASSUME NEW S \in SUBSET Requests, NEW r \in Requests,
           NEW T \in SUBSET (S \cup {r})
    PROVE  Cardinality(T) <= Cardinality(S) + 1
<1>1. IsFiniteSet(S) /\ Cardinality(S) \in Nat
  BY RequestsAreFinite
<1>2. /\ IsFiniteSet(S \cup {r})
      /\ Cardinality(S \cup {r}) =
            IF r \in S THEN Cardinality(S) ELSE Cardinality(S) + 1
  BY <1>1, FS_AddElement
<1>3. Cardinality(T) <= Cardinality(S \cup {r})
  <2>1. S \cup {r} \in SUBSET Requests
    OBVIOUS
  <2>2. QED
    BY <2>1, CountOfSubset
<1>4. Cardinality(T) \in Nat
  BY RequestsAreFinite
<1>5. QED
  BY <1>1, <1>2, <1>3, <1>4

LEMMA CountOfOneLess ==
    ASSUME NEW S \in SUBSET Requests, NEW r \in S,
           NEW T \in SUBSET (S \ {r})
    PROVE  Cardinality(T) <= Cardinality(S) - 1
<1>1. IsFiniteSet(S) /\ Cardinality(S) \in Nat
  BY RequestsAreFinite
<1>2. /\ IsFiniteSet(S \ {r})
      /\ Cardinality(S \ {r}) = Cardinality(S) - 1
  BY <1>1, FS_RemoveElement
<1>3. QED
  BY <1>2, CountOfSubset

LEMMA CountOfNone ==
    ASSUME NEW S \in SUBSET Requests
    PROVE  Cardinality(S) = 0 <=> S = {}
BY RequestsAreFinite, FS_EmptySet

-----------------------------------------------------------------------------
(* What the invariant says of one request.                                 *)

LEMMA WriterIsCounted ==
    ASSUME Inv, NEW r \in Requests, Outstanding(r),
           request[r].call = "write"
    PROVE  /\ request[r].file \in Files
           /\ openWriteFiles[request[r].file].refcount > 0
           /\ request[r].fd = openWriteFiles[request[r].file].fd
           /\ IsOpenOn(request[r].fd, request[r].file)
<1> DEFINE f == request[r].file
<1>1. f \in Files /\ request[r].fd = openWriteFiles[f].fd
  BY DEF Inv, IInv, WritersShare
<1>2. r \in Writers(f) /\ Writers(f) \in SUBSET Requests
  BY DEF Writers
<1>3. Cardinality(Writers(f)) \in Nat /\ Cardinality(Writers(f)) # 0
  <2> HIDE DEF f
  <2> QED
    BY <1>2, RequestsAreFinite, CountOfNone
<1>4. openWriteFiles[f].refcount \in Nat
  BY <1>1 DEF Inv, TypeOK
<1>5. Cardinality(Writers(f)) <= openWriteFiles[f].refcount
  BY <1>1 DEF Inv, IInv, WritesAreCounted
<1>6. openWriteFiles[f].refcount > 0
  BY <1>3, <1>4, <1>5
<1>7. QED
  BY <1>1, <1>6 DEF Inv, IInv, WritesAreCounted

LEMMA RequestHasFile ==
    ASSUME Inv, NEW r \in Requests, Outstanding(r)
    PROVE  /\ request[r].file \in Files
           /\ IsOpenOn(request[r].fd, request[r].file)
<1>1. CASE request[r].call = "write"
  BY <1>1, WriterIsCounted
<1>2. CASE request[r].call # "write"
  <2>1. IsOpenOn(request[r].fd, request[r].file)
    BY <1>2 DEF Inv, IInv, OthersAreAlone
  <2>2. fds[request[r].fd] \in [file : Files, append : BOOLEAN]
    BY <2>1 DEF Inv, TypeOK, IsOpenOn
  <2>3. QED
    BY <2>1, <2>2 DEF IsOpenOn
<1>3. QED
  BY <1>1, <1>2

-----------------------------------------------------------------------------
(* What the steps do to the descriptors.                                   *)

(* A step that opens and closes nothing, and that no request enters.       *)
LEMMA NothingOpens ==
    ASSUME Inv, UNCHANGED <<fds, openWriteFiles>>,
           \A r \in Requests : Outstanding(r)' =>
              /\ Outstanding(r)
              /\ request'[r].call = request[r].call
              /\ request'[r].file = request[r].file
              /\ request'[r].fd = request[r].fd
    PROVE  (WritesAreCounted /\ WritersShare /\ OthersAreAlone)'
<1>1. ASSUME NEW f \in Files
      PROVE  /\ Cardinality(Writers(f)') <= openWriteFiles'[f].refcount
             /\ openWriteFiles'[f].refcount > 0 =>
                   IsOpenOn(openWriteFiles[f].fd, f)'
  <2>1. Writers(f)' \in SUBSET Writers(f) /\ Writers(f) \in SUBSET Requests
    BY DEF Writers
  <2>2. /\ Cardinality(Writers(f)') \in Nat
        /\ Cardinality(Writers(f)) \in Nat
        /\ Cardinality(Writers(f)') <= Cardinality(Writers(f))
    BY <2>1, CountOfSubset, RequestsAreFinite
  <2>3. /\ Cardinality(Writers(f)) <= openWriteFiles[f].refcount
        /\ openWriteFiles[f].refcount > 0 =>
              IsOpenOn(openWriteFiles[f].fd, f)
    BY DEF Inv, IInv, WritesAreCounted
  <2>4. openWriteFiles[f].refcount \in Nat
    BY DEF Inv, TypeOK
  <2>5. Cardinality(Writers(f)') <= openWriteFiles'[f].refcount
    BY <2>2, <2>3, <2>4
  <2>6. QED
    BY <2>3, <2>5 DEF IsOpenOn
<1>2. WritesAreCounted'
  BY <1>1 DEF WritesAreCounted
<1>3. WritersShare'
  BY DEF Inv, IInv, WritersShare
<1>4. OthersAreAlone'
  BY DEF Inv, IInv, OthersAreAlone, IsOpenOn
<1>5. QED
  BY <1>2, <1>3, <1>4

(* A call that opens a descriptor for itself: nobody refers to a number    *)
(* that was closed.                                                        *)
LEMMA DescriptorOpens ==
    ASSUME Inv, NEW r \in Requests, NEW f \in Files, NEW append \in BOOLEAN,
           FreeFds # {},
           fds' = [fds EXCEPT ![NewFd] = [file |-> f, append |-> append]],
           UNCHANGED openWriteFiles,
           \A s \in Requests \ {r} : request'[s] = request[s],
           Outstanding(r)' => /\ request'[r].call # "write"
                              /\ request'[r].file = f
                              /\ request'[r].fd = NewFd
    PROVE  (WritesAreCounted /\ WritersShare /\ OthersAreAlone)'
<1> DEFINE n == NewFd
<1>1. n \in Fds /\ fds[n] = Closed
  BY NewFdIsFree
<1>2. /\ fds'[n] = [file |-> f, append |-> append]
      /\ fds'[n] # Closed
      /\ \A d \in Fds \ {n} : fds'[d] = fds[d]
  BY <1>1, FileAssumption DEF Inv, TypeOK, Closed
<1> HIDE DEF n
<1>3. ASSUME NEW d, NEW g, IsOpenOn(d, g) PROVE IsOpenOn(d, g)' /\ d # n
  BY <1>1, <1>2, <1>3 DEF IsOpenOn
<1>4. ASSUME NEW s \in Requests \ {r}
      PROVE  /\ request'[s] = request[s]
             /\ Outstanding(s)' <=> Outstanding(s)
             /\ Outstanding(s) => request[s].fd # n
  <2>1. request'[s] = request[s] /\ (Outstanding(s)' <=> Outstanding(s))
    BY DEF Outstanding
  <2>2. QED
    BY <2>1, <1>3, RequestHasFile
<1>5. Outstanding(r)' => /\ request'[r].call # "write"
                         /\ request'[r].file = f
                         /\ request'[r].fd = n
  BY DEF n
<1>6. ASSUME NEW g \in Files
      PROVE  /\ Cardinality(Writers(g)') <= openWriteFiles'[g].refcount
             /\ openWriteFiles'[g].refcount > 0 =>
                   IsOpenOn(openWriteFiles[g].fd, g)'
  <2>1. Writers(g)' \in SUBSET Writers(g) /\ Writers(g) \in SUBSET Requests
    BY <1>4, <1>5 DEF Writers
  <2>2. /\ Cardinality(Writers(g)') \in Nat
        /\ Cardinality(Writers(g)) \in Nat
        /\ Cardinality(Writers(g)') <= Cardinality(Writers(g))
    BY <2>1, CountOfSubset, RequestsAreFinite
  <2>3. /\ Cardinality(Writers(g)) <= openWriteFiles[g].refcount
        /\ openWriteFiles[g].refcount > 0 =>
              IsOpenOn(openWriteFiles[g].fd, g)
    BY DEF Inv, IInv, WritesAreCounted
  <2>4. openWriteFiles[g].refcount \in Nat
    BY DEF Inv, TypeOK
  <2>5. Cardinality(Writers(g)') <= openWriteFiles'[g].refcount
    BY <2>2, <2>3, <2>4
  <2>6. openWriteFiles[g].refcount > 0 => IsOpenOn(openWriteFiles[g].fd, g)'
    BY <2>3, <1>3 DEF IsOpenOn
  <2>7. QED
    BY <2>5, <2>6
<1>7. WritesAreCounted'
  BY <1>6 DEF WritesAreCounted
<1>8. WritersShare'
  BY <1>4, <1>5 DEF Inv, IInv, WritersShare
<1>9. ASSUME NEW s \in Requests, Outstanding(s)', request'[s].call # "write"
      PROVE  /\ IsOpenOn(request[s].fd, request[s].file)'
             /\ \A q \in Requests \ {s} :
                   Outstanding(q)' => request'[q].fd # request'[s].fd
             /\ \A g \in Files : openWriteFiles'[g].refcount > 0 =>
                   openWriteFiles'[g].fd # request'[s].fd
  <2>1. CASE s = r
    <3>1. IsOpenOn(request[s].fd, request[s].file)'
      BY <2>1, <1>1, <1>2, <1>5, <1>9 DEF IsOpenOn
    <3>2. \A q \in Requests \ {s} :
             Outstanding(q)' => request'[q].fd # request'[s].fd
      BY <2>1, <1>4, <1>5, <1>9
    <3>3. ASSUME NEW g \in Files, openWriteFiles'[g].refcount > 0
          PROVE  openWriteFiles'[g].fd # request'[s].fd
      <4>1. IsOpenOn(openWriteFiles[g].fd, g)
        BY <3>3 DEF Inv, IInv, WritesAreCounted
      <4>2. QED
        BY <4>1, <1>3, <1>5, <1>9, <2>1
    <3>4. QED
      BY <3>1, <3>2, <3>3
  <2>2. CASE s # r
    <3>1. /\ request'[s] = request[s] /\ Outstanding(s)
          /\ request[s].fd # n
      BY <2>2, <1>4, <1>9
    <3>2. /\ IsOpenOn(request[s].fd, request[s].file)
          /\ \A q \in Requests \ {s} :
                Outstanding(q) => request[q].fd # request[s].fd
          /\ \A g \in Files : openWriteFiles[g].refcount > 0 =>
                openWriteFiles[g].fd # request[s].fd
      BY <3>1, <1>9 DEF Inv, IInv, OthersAreAlone
    <3>3. IsOpenOn(request[s].fd, request[s].file)'
      BY <3>1, <3>2, <1>3 DEF IsOpenOn
    <3>4. \A q \in Requests \ {s} :
             Outstanding(q)' => request'[q].fd # request'[s].fd
      BY <3>1, <3>2, <1>4, <1>5
    <3>5. QED
      BY <3>1, <3>2, <3>3, <3>4
  <2>3. QED
    BY <2>1, <2>2
<1>10. OthersAreAlone'
  BY <1>9 DEF OthersAreAlone
<1>11. QED
  BY <1>7, <1>8, <1>10

(* A write that opens the descriptor of its file.                          *)
LEMMA WriterOpens ==
    ASSUME Inv, NEW r \in Requests, NEW f \in Files, NEW append \in BOOLEAN,
           openWriteFiles[f].refcount = 0, FreeFds # {},
           fds' = [fds EXCEPT ![NewFd] = [file |-> f, append |-> append]],
           openWriteFiles' = [openWriteFiles EXCEPT ![f] =
                                  [fd |-> NewFd, refcount |-> 1]],
           \A s \in Requests \ {r} : request'[s] = request[s],
           Outstanding(r)' => /\ request'[r].call = "write"
                              /\ request'[r].file = f
                              /\ request'[r].fd = NewFd
    PROVE  (WritesAreCounted /\ WritersShare /\ OthersAreAlone)'
<1> DEFINE n == NewFd
<1>1. n \in Fds /\ fds[n] = Closed
  BY NewFdIsFree
<1>2. /\ fds'[n] = [file |-> f, append |-> append]
      /\ fds'[n] # Closed
      /\ \A d \in Fds \ {n} : fds'[d] = fds[d]
  BY <1>1, FileAssumption DEF Inv, TypeOK, Closed
<1>3. /\ openWriteFiles'[f] = [fd |-> n, refcount |-> 1]
      /\ \A g \in Files \ {f} : openWriteFiles'[g] = openWriteFiles[g]
  BY DEF Inv, TypeOK
<1>4. Outstanding(r)' => /\ request'[r].call = "write"
                         /\ request'[r].file = f
                         /\ request'[r].fd = n
  OBVIOUS
<1> HIDE DEF n
<1>5. ASSUME NEW d, NEW g, IsOpenOn(d, g) PROVE IsOpenOn(d, g)' /\ d # n
  BY <1>1, <1>2, <1>5 DEF IsOpenOn
<1>6. ASSUME NEW s \in Requests \ {r}
      PROVE  /\ request'[s] = request[s]
             /\ Outstanding(s)' <=> Outstanding(s)
             /\ Outstanding(s) => request[s].fd # n
  <2>1. request'[s] = request[s] /\ (Outstanding(s)' <=> Outstanding(s))
    BY DEF Outstanding
  <2>2. QED
    BY <2>1, <1>5, RequestHasFile
<1>7. ASSUME NEW s \in Requests, Outstanding(s), request[s].call = "write"
      PROVE  request[s].file # f
  BY <1>7, WriterIsCounted
<1>8. ASSUME NEW g \in Files
      PROVE  /\ Cardinality(Writers(g)') <= openWriteFiles'[g].refcount
             /\ openWriteFiles'[g].refcount > 0 =>
                   IsOpenOn(openWriteFiles[g].fd, g)'
  <2>1. CASE g = f
    <3>1. Writers(g)' \in SUBSET ({} \cup {r})
      BY <2>1, <1>6, <1>7 DEF Writers
    <3>2. Cardinality(Writers(g)') <= Cardinality({}) + 1
      BY <3>1, CountOfOneMore
    <3>3. Cardinality(Writers(g)') <= 1
      BY <3>2, FS_EmptySet
    <3>4. IsOpenOn(openWriteFiles[g].fd, g)'
      BY <2>1, <1>1, <1>2, <1>3 DEF IsOpenOn
    <3>5. QED
      BY <2>1, <1>3, <3>3, <3>4
  <2>2. CASE g # f
    <3>1. Writers(g)' \in SUBSET Writers(g) /\ Writers(g) \in SUBSET Requests
      BY <2>2, <1>4, <1>6 DEF Writers
    <3>2. /\ Cardinality(Writers(g)') \in Nat
          /\ Cardinality(Writers(g)) \in Nat
          /\ Cardinality(Writers(g)') <= Cardinality(Writers(g))
      BY <3>1, CountOfSubset, RequestsAreFinite
    <3>3. /\ Cardinality(Writers(g)) <= openWriteFiles[g].refcount
          /\ openWriteFiles[g].refcount > 0 =>
                IsOpenOn(openWriteFiles[g].fd, g)
      BY DEF Inv, IInv, WritesAreCounted
    <3>4. openWriteFiles[g].refcount \in Nat
      BY DEF Inv, TypeOK
    <3>5. Cardinality(Writers(g)') <= openWriteFiles'[g].refcount
      BY <2>2, <3>2, <3>3, <3>4, <1>3
    <3>6. openWriteFiles'[g].refcount > 0 => IsOpenOn(openWriteFiles[g].fd, g)'
      BY <2>2, <3>3, <1>3, <1>5 DEF IsOpenOn
    <3>7. QED
      BY <3>5, <3>6
  <2>3. QED
    BY <2>1, <2>2
<1>9. WritesAreCounted'
  BY <1>8 DEF WritesAreCounted
<1>10. WritersShare'
  BY <1>3, <1>4, <1>6, <1>7 DEF Inv, IInv, WritersShare
<1>11. ASSUME NEW s \in Requests, Outstanding(s)', request'[s].call # "write"
      PROVE  /\ IsOpenOn(request[s].fd, request[s].file)'
             /\ \A q \in Requests \ {s} :
                   Outstanding(q)' => request'[q].fd # request'[s].fd
             /\ \A g \in Files : openWriteFiles'[g].refcount > 0 =>
                   openWriteFiles'[g].fd # request'[s].fd
  <2>1. /\ s # r /\ request'[s] = request[s] /\ Outstanding(s)
        /\ request[s].fd # n
    BY <1>4, <1>6, <1>11
  <2>2. /\ IsOpenOn(request[s].fd, request[s].file)
        /\ \A q \in Requests \ {s} :
              Outstanding(q) => request[q].fd # request[s].fd
        /\ \A g \in Files : openWriteFiles[g].refcount > 0 =>
              openWriteFiles[g].fd # request[s].fd
    BY <2>1, <1>11 DEF Inv, IInv, OthersAreAlone
  <2>3. IsOpenOn(request[s].fd, request[s].file)'
    BY <2>1, <2>2, <1>5 DEF IsOpenOn
  <2>4. \A q \in Requests \ {s} :
           Outstanding(q)' => request'[q].fd # request'[s].fd
    BY <2>1, <2>2, <1>4, <1>6
  <2>5. \A g \in Files : openWriteFiles'[g].refcount > 0 =>
           openWriteFiles'[g].fd # request'[s].fd
    BY <2>1, <2>2, <1>3
  <2>6. QED
    BY <2>3, <2>4, <2>5
<1>12. OthersAreAlone'
  BY <1>11 DEF OthersAreAlone
<1>13. QED
  BY <1>9, <1>10, <1>12

(* A write that joins the descriptor of its file.                          *)
LEMMA WriterJoins ==
    ASSUME Inv, NEW r \in Requests, NEW f \in Files,
           openWriteFiles[f].refcount > 0,
           UNCHANGED fds,
           openWriteFiles' = [openWriteFiles EXCEPT ![f] = Counted(f)],
           \A s \in Requests \ {r} : request'[s] = request[s],
           Outstanding(r)' => /\ request'[r].call = "write"
                              /\ request'[r].file = f
                              /\ request'[r].fd = openWriteFiles[f].fd
    PROVE  (WritesAreCounted /\ WritersShare /\ OthersAreAlone)'
<1>1. /\ openWriteFiles'[f].fd = openWriteFiles[f].fd
      /\ openWriteFiles'[f].refcount = openWriteFiles[f].refcount + 1
      /\ \A g \in Files \ {f} : openWriteFiles'[g] = openWriteFiles[g]
  BY DEF Inv, TypeOK, Counted
<1>2. ASSUME NEW s \in Requests \ {r}
      PROVE  /\ request'[s] = request[s]
             /\ Outstanding(s)' <=> Outstanding(s)
  BY DEF Outstanding
<1>3. ASSUME NEW g \in Files
      PROVE  /\ Cardinality(Writers(g)') <= openWriteFiles'[g].refcount
             /\ openWriteFiles'[g].refcount > 0 =>
                   IsOpenOn(openWriteFiles[g].fd, g)'
  <2>1. /\ Cardinality(Writers(g)) <= openWriteFiles[g].refcount
        /\ openWriteFiles[g].refcount > 0 =>
              IsOpenOn(openWriteFiles[g].fd, g)
    BY DEF Inv, IInv, WritesAreCounted
  <2>2. openWriteFiles[g].refcount \in Nat
    BY DEF Inv, TypeOK
  <2>3. /\ Writers(g) \in SUBSET Requests
        /\ Writers(g)' \in SUBSET (Writers(g) \cup {r})
        /\ g # f => Writers(g)' \in SUBSET Writers(g)
    BY <1>2 DEF Writers
  <2>4. /\ Cardinality(Writers(g)') \in Nat
        /\ Cardinality(Writers(g)) \in Nat
    <3>1. Writers(g)' \in SUBSET Requests
      BY DEF Writers
    <3>2. QED
      BY <2>3, <3>1, RequestsAreFinite
  <2>5. /\ Cardinality(Writers(g)') <= Cardinality(Writers(g)) + 1
        /\ g # f => Cardinality(Writers(g)') <= Cardinality(Writers(g))
    BY <2>3, CountOfOneMore, CountOfSubset
  <2>6. Cardinality(Writers(g)') <= openWriteFiles'[g].refcount
    <3>1. openWriteFiles'[g].refcount =
            IF g = f THEN openWriteFiles[g].refcount + 1
                     ELSE openWriteFiles[g].refcount
      BY <1>1
    <3>2. QED
      BY <2>1, <2>2, <2>4, <2>5, <3>1
  <2>7. openWriteFiles'[g].refcount > 0 => IsOpenOn(openWriteFiles[g].fd, g)'
    BY <2>1, <1>1 DEF IsOpenOn
  <2>8. QED
    BY <2>6, <2>7
<1>4. WritesAreCounted'
  BY <1>3 DEF WritesAreCounted
<1>5. WritersShare'
  BY <1>1, <1>2 DEF Inv, IInv, WritersShare
<1>6. ASSUME NEW s \in Requests, Outstanding(s)', request'[s].call # "write"
      PROVE  /\ IsOpenOn(request[s].fd, request[s].file)'
             /\ \A q \in Requests \ {s} :
                   Outstanding(q)' => request'[q].fd # request'[s].fd
             /\ \A g \in Files : openWriteFiles'[g].refcount > 0 =>
                   openWriteFiles'[g].fd # request'[s].fd
  <2>1. s # r /\ request'[s] = request[s] /\ Outstanding(s)
    BY <1>2, <1>6
  <2>2. /\ IsOpenOn(request[s].fd, request[s].file)
        /\ \A q \in Requests \ {s} :
              Outstanding(q) => request[q].fd # request[s].fd
        /\ \A g \in Files : openWriteFiles[g].refcount > 0 =>
              openWriteFiles[g].fd # request[s].fd
    BY <2>1, <1>6 DEF Inv, IInv, OthersAreAlone
  <2>3. IsOpenOn(request[s].fd, request[s].file)'
    BY <2>1, <2>2 DEF IsOpenOn
  <2>4. \A q \in Requests \ {s} :
           Outstanding(q)' => request'[q].fd # request'[s].fd
    BY <2>1, <2>2, <1>2
  <2>5. \A g \in Files : openWriteFiles'[g].refcount > 0 =>
           openWriteFiles'[g].fd # request'[s].fd
    BY <2>1, <2>2, <1>1
  <2>6. QED
    BY <2>3, <2>4, <2>5
<1>7. OthersAreAlone'
  BY <1>6 DEF OthersAreAlone
<1>8. QED
  BY <1>4, <1>5, <1>7

(* A request that ends and closes the descriptor it had for itself.        *)
LEMMA OwnerCloses ==
    ASSUME Inv, NEW r \in Requests, Outstanding(r),
           request[r].call # "write",
           fds' = [fds EXCEPT ![request[r].fd] = Closed],
           UNCHANGED openWriteFiles,
           \A s \in Requests \ {r} : request'[s] = request[s],
           ~ Outstanding(r)'
    PROVE  (WritesAreCounted /\ WritersShare /\ OthersAreAlone)'
<1> DEFINE n == request[r].fd
<1>1. /\ n \in Fds
      /\ \A s \in Requests \ {r} : Outstanding(s) => request[s].fd # n
      /\ \A f \in Files : openWriteFiles[f].refcount > 0 =>
            openWriteFiles[f].fd # n
  BY DEF Inv, IInv, OthersAreAlone, IsOpenOn
<1> HIDE DEF n
<1>2. ASSUME NEW d, NEW g, d # n, IsOpenOn(d, g) PROVE IsOpenOn(d, g)'
  BY <1>1, <1>2 DEF IsOpenOn, Inv, TypeOK, n
<1>3. ASSUME NEW s \in Requests, Outstanding(s)'
      PROVE  s # r /\ request'[s] = request[s] /\ Outstanding(s)
  BY <1>3 DEF Outstanding
<1>4. ASSUME NEW g \in Files
      PROVE  /\ Cardinality(Writers(g)') <= openWriteFiles'[g].refcount
             /\ openWriteFiles'[g].refcount > 0 =>
                   IsOpenOn(openWriteFiles[g].fd, g)'
  <2>1. Writers(g)' \in SUBSET Writers(g) /\ Writers(g) \in SUBSET Requests
    BY <1>3 DEF Writers
  <2>2. /\ Cardinality(Writers(g)') \in Nat
        /\ Cardinality(Writers(g)) \in Nat
        /\ Cardinality(Writers(g)') <= Cardinality(Writers(g))
    BY <2>1, CountOfSubset, RequestsAreFinite
  <2>3. /\ Cardinality(Writers(g)) <= openWriteFiles[g].refcount
        /\ openWriteFiles[g].refcount > 0 =>
              IsOpenOn(openWriteFiles[g].fd, g)
    BY DEF Inv, IInv, WritesAreCounted
  <2>4. openWriteFiles[g].refcount \in Nat
    BY DEF Inv, TypeOK
  <2>5. Cardinality(Writers(g)') <= openWriteFiles'[g].refcount
    BY <2>2, <2>3, <2>4
  <2>6. openWriteFiles'[g].refcount > 0 => IsOpenOn(openWriteFiles[g].fd, g)'
    BY <2>3, <1>1, <1>2 DEF IsOpenOn
  <2>7. QED
    BY <2>5, <2>6
<1>5. WritesAreCounted'
  BY <1>4 DEF WritesAreCounted
<1>6. WritersShare'
  BY <1>3 DEF Inv, IInv, WritersShare
<1>7. ASSUME NEW s \in Requests, Outstanding(s)', request'[s].call # "write"
      PROVE  /\ IsOpenOn(request[s].fd, request[s].file)'
             /\ \A q \in Requests \ {s} :
                   Outstanding(q)' => request'[q].fd # request'[s].fd
             /\ \A g \in Files : openWriteFiles'[g].refcount > 0 =>
                   openWriteFiles'[g].fd # request'[s].fd
  <2>1. s # r /\ request'[s] = request[s] /\ Outstanding(s)
    BY <1>3, <1>7
  <2>2. /\ IsOpenOn(request[s].fd, request[s].file)
        /\ \A q \in Requests \ {s} :
              Outstanding(q) => request[q].fd # request[s].fd
        /\ \A g \in Files : openWriteFiles[g].refcount > 0 =>
              openWriteFiles[g].fd # request[s].fd
    BY <2>1, <1>7 DEF Inv, IInv, OthersAreAlone
  <2>3. IsOpenOn(request[s].fd, request[s].file)'
    BY <2>1, <2>2, <1>1, <1>2 DEF IsOpenOn
  <2>4. \A q \in Requests \ {s} :
           Outstanding(q)' => request'[q].fd # request'[s].fd
    BY <2>1, <2>2, <1>3
  <2>5. QED
    BY <2>1, <2>2, <2>3, <2>4
<1>8. OthersAreAlone'
  BY <1>7 DEF OthersAreAlone
<1>9. QED
  BY <1>5, <1>6, <1>8

(* A write that ends while others use the descriptor of the file.          *)
LEMMA WriterLeaves ==
    ASSUME Inv, NEW r \in Requests, Outstanding(r),
           request[r].call = "write",
           openWriteFiles[request[r].file].refcount # 1,
           UNCHANGED fds,
           openWriteFiles' = [openWriteFiles EXCEPT ![request[r].file] =
                                  Released(@)],
           \A s \in Requests \ {r} : request'[s] = request[s],
           ~ Outstanding(r)'
    PROVE  (WritesAreCounted /\ WritersShare /\ OthersAreAlone)'
<1> DEFINE f == request[r].file
<1>1. f \in Files /\ openWriteFiles[f].refcount > 0
  BY WriterIsCounted
<1>2. /\ openWriteFiles'[f].fd = openWriteFiles[f].fd
      /\ openWriteFiles'[f].refcount = openWriteFiles[f].refcount - 1
      /\ \A g \in Files \ {f} : openWriteFiles'[g] = openWriteFiles[g]
  BY <1>1 DEF Inv, TypeOK, Released
<1>3. r \in Writers(f)
  BY DEF Writers
<1> HIDE DEF f
<1>4. ASSUME NEW s \in Requests, Outstanding(s)'
      PROVE  s # r /\ request'[s] = request[s] /\ Outstanding(s)
  BY <1>4 DEF Outstanding
<1>5. ASSUME NEW g \in Files
      PROVE  /\ Cardinality(Writers(g)') <= openWriteFiles'[g].refcount
             /\ openWriteFiles'[g].refcount > 0 =>
                   IsOpenOn(openWriteFiles[g].fd, g)'
  <2>1. /\ Cardinality(Writers(g)) <= openWriteFiles[g].refcount
        /\ openWriteFiles[g].refcount > 0 =>
              IsOpenOn(openWriteFiles[g].fd, g)
    BY DEF Inv, IInv, WritesAreCounted
  <2>2. openWriteFiles[g].refcount \in Nat
    BY DEF Inv, TypeOK
  <2>3. /\ Writers(g) \in SUBSET Requests
        /\ Writers(g)' \in SUBSET (Writers(g) \ {r})
        /\ Writers(g)' \in SUBSET Writers(g)
        /\ Writers(g)' \in SUBSET Requests
    BY <1>4 DEF Writers
  <2>4. /\ Cardinality(Writers(g)') \in Nat
        /\ Cardinality(Writers(g)) \in Nat
    BY <2>3, RequestsAreFinite
  <2>5. /\ Cardinality(Writers(g)') <= Cardinality(Writers(g))
        /\ g = f => Cardinality(Writers(g)') <= Cardinality(Writers(g)) - 1
    BY <1>3, <2>3, CountOfOneLess, CountOfSubset
  <2>6. Cardinality(Writers(g)') <= openWriteFiles'[g].refcount
    <3>1. openWriteFiles'[g].refcount =
            IF g = f THEN openWriteFiles[g].refcount - 1
                     ELSE openWriteFiles[g].refcount
      BY <1>2
    <3>2. QED
      BY <2>1, <2>2, <2>4, <2>5, <3>1
  <2>7. openWriteFiles'[g].refcount > 0 => IsOpenOn(openWriteFiles[g].fd, g)'
    BY <2>1, <1>1, <1>2 DEF IsOpenOn
  <2>8. QED
    BY <2>6, <2>7
<1>6. WritesAreCounted'
  BY <1>5 DEF WritesAreCounted
<1>7. WritersShare'
  BY <1>2, <1>4 DEF Inv, IInv, WritersShare
<1>8. ASSUME NEW s \in Requests, Outstanding(s)', request'[s].call # "write"
      PROVE  /\ IsOpenOn(request[s].fd, request[s].file)'
             /\ \A q \in Requests \ {s} :
                   Outstanding(q)' => request'[q].fd # request'[s].fd
             /\ \A g \in Files : openWriteFiles'[g].refcount > 0 =>
                   openWriteFiles'[g].fd # request'[s].fd
  <2>1. s # r /\ request'[s] = request[s] /\ Outstanding(s)
    BY <1>4, <1>8
  <2>2. /\ IsOpenOn(request[s].fd, request[s].file)
        /\ \A q \in Requests \ {s} :
              Outstanding(q) => request[q].fd # request[s].fd
        /\ \A g \in Files : openWriteFiles[g].refcount > 0 =>
              openWriteFiles[g].fd # request[s].fd
    BY <2>1, <1>8 DEF Inv, IInv, OthersAreAlone
  <2>3. IsOpenOn(request[s].fd, request[s].file)'
    BY <2>1, <2>2 DEF IsOpenOn
  <2>4. \A q \in Requests \ {s} :
           Outstanding(q)' => request'[q].fd # request'[s].fd
    BY <2>1, <2>2, <1>4
  <2>5. \A g \in Files : openWriteFiles'[g].refcount > 0 =>
           openWriteFiles'[g].fd # request'[s].fd
    BY <2>1, <2>2, <1>1, <1>2
  <2>6. QED
    BY <2>3, <2>4, <2>5
<1>9. OthersAreAlone'
  BY <1>8 DEF OthersAreAlone
<1>10. QED
  BY <1>6, <1>7, <1>9

(* The last write of a file, which closes the descriptor: no other write   *)
(* of this file is under way, and the other files have descriptors of      *)
(* their own.                                                              *)
LEMMA LastWriterCloses ==
    ASSUME Inv, NEW r \in Requests, Outstanding(r),
           request[r].call = "write",
           openWriteFiles[request[r].file].refcount = 1,
           fds' = [fds EXCEPT ![request[r].fd] = Closed],
           openWriteFiles' = [openWriteFiles EXCEPT ![request[r].file] =
                                  Released(@)],
           \A s \in Requests \ {r} : request'[s] = request[s],
           ~ Outstanding(r)'
    PROVE  (WritesAreCounted /\ WritersShare /\ OthersAreAlone)'
<1> DEFINE f == request[r].file
           n == request[r].fd
<1>1. /\ f \in Files /\ openWriteFiles[f].refcount = 1
      /\ openWriteFiles[f].fd = n /\ IsOpenOn(n, f)
  BY WriterIsCounted
<1>2. /\ openWriteFiles'[f].refcount = 0
      /\ \A g \in Files \ {f} : openWriteFiles'[g] = openWriteFiles[g]
  BY <1>1 DEF Inv, TypeOK, Released
<1>3. r \in Writers(f)
  BY DEF Writers
<1>4. /\ fds' = [fds EXCEPT ![n] = Closed]
      /\ request[r].fd = n
  OBVIOUS
<1> HIDE DEF f, n
<1>5. ASSUME NEW d, NEW g, d # n, IsOpenOn(d, g) PROVE IsOpenOn(d, g)'
  BY <1>1, <1>4, <1>5 DEF IsOpenOn, Inv, TypeOK
<1>6. ASSUME NEW s \in Requests, Outstanding(s)'
      PROVE  s # r /\ request'[s] = request[s] /\ Outstanding(s)
  BY <1>6 DEF Outstanding
<1>7. Writers(f) = {r}
  <2>1. Writers(f) \in SUBSET Requests /\ Cardinality(Writers(f)) <= 1
    BY <1>1 DEF Writers, Inv, IInv, WritesAreCounted
  <2>2. Cardinality(Writers(f) \ {r}) <= Cardinality(Writers(f)) - 1
    BY <1>3, <2>1, CountOfOneLess
  <2>3. /\ Cardinality(Writers(f)) \in Nat
        /\ Cardinality(Writers(f) \ {r}) \in Nat
    <3>1. Writers(f) \ {r} \in SUBSET Requests
      BY <2>1
    <3>2. QED
      BY <2>1, <3>1, RequestsAreFinite
  <2>4. Cardinality(Writers(f) \ {r}) = 0
    BY <2>1, <2>2, <2>3
  <2>5. Writers(f) \ {r} = {}
    BY <2>1, <2>4, CountOfNone
  <2>6. QED
    BY <1>3, <2>5
<1>8. ASSUME NEW s \in Requests, Outstanding(s)', request[s].call = "write"
      PROVE  request[s].file # f
  BY <1>6, <1>7, <1>8 DEF Writers
<1>9. ASSUME NEW g \in Files \ {f}, openWriteFiles[g].refcount > 0
      PROVE  IsOpenOn(openWriteFiles[g].fd, g) /\ openWriteFiles[g].fd # n
  <2>1. IsOpenOn(openWriteFiles[g].fd, g)
    BY <1>9 DEF Inv, IInv, WritesAreCounted
  <2>2. QED
    BY <2>1, <1>1 DEF IsOpenOn
<1>10. ASSUME NEW g \in Files
      PROVE  /\ Cardinality(Writers(g)') <= openWriteFiles'[g].refcount
             /\ openWriteFiles'[g].refcount > 0 =>
                   IsOpenOn(openWriteFiles[g].fd, g)'
  <2>1. CASE g = f
    <3>1. Writers(g)' \in SUBSET Requests /\ Writers(g)' = {}
      BY <2>1, <1>6, <1>8 DEF Writers
    <3>2. Cardinality(Writers(g)') = 0
      BY <3>1, CountOfNone
    <3>3. QED
      BY <2>1, <3>2, <1>2
  <2>2. CASE g # f
    <3>1. Writers(g)' \in SUBSET Writers(g) /\ Writers(g) \in SUBSET Requests
      BY <1>6 DEF Writers
    <3>2. /\ Cardinality(Writers(g)') \in Nat
          /\ Cardinality(Writers(g)) \in Nat
          /\ Cardinality(Writers(g)') <= Cardinality(Writers(g))
      BY <3>1, CountOfSubset, RequestsAreFinite
    <3>3. Cardinality(Writers(g)) <= openWriteFiles[g].refcount
      BY DEF Inv, IInv, WritesAreCounted
    <3>4. openWriteFiles[g].refcount \in Nat
      BY DEF Inv, TypeOK
    <3>5. Cardinality(Writers(g)') <= openWriteFiles'[g].refcount
      BY <2>2, <3>2, <3>3, <3>4, <1>2
    <3>6. openWriteFiles'[g].refcount > 0 => IsOpenOn(openWriteFiles[g].fd, g)'
      BY <2>2, <1>2, <1>5, <1>9 DEF IsOpenOn
    <3>7. QED
      BY <3>5, <3>6
  <2>3. QED
    BY <2>1, <2>2
<1>11. WritesAreCounted'
  BY <1>10 DEF WritesAreCounted
<1>12. WritersShare'
  BY <1>2, <1>6, <1>8 DEF Inv, IInv, WritersShare
<1>13. ASSUME NEW s \in Requests, Outstanding(s)', request'[s].call # "write"
      PROVE  /\ IsOpenOn(request[s].fd, request[s].file)'
             /\ \A q \in Requests \ {s} :
                   Outstanding(q)' => request'[q].fd # request'[s].fd
             /\ \A g \in Files : openWriteFiles'[g].refcount > 0 =>
                   openWriteFiles'[g].fd # request'[s].fd
  <2>1. s # r /\ request'[s] = request[s] /\ Outstanding(s)
    BY <1>6, <1>13
  <2>2. /\ IsOpenOn(request[s].fd, request[s].file)
        /\ \A q \in Requests \ {s} :
              Outstanding(q) => request[q].fd # request[s].fd
        /\ \A g \in Files : openWriteFiles[g].refcount > 0 =>
              openWriteFiles[g].fd # request[s].fd
    BY <2>1, <1>13 DEF Inv, IInv, OthersAreAlone
  <2>3. request[s].fd # n
    BY <2>1, <2>2, <1>4
  <2>4. IsOpenOn(request[s].fd, request[s].file)'
    BY <2>1, <2>2, <2>3, <1>5 DEF IsOpenOn
  <2>5. \A q \in Requests \ {s} :
           Outstanding(q)' => request'[q].fd # request'[s].fd
    BY <2>1, <2>2, <1>6
  <2>6. \A g \in Files : openWriteFiles'[g].refcount > 0 =>
           openWriteFiles'[g].fd # request'[s].fd
    BY <2>1, <2>2, <1>2
  <2>7. QED
    BY <2>4, <2>5, <2>6
<1>14. OthersAreAlone'
  BY <1>13 DEF OthersAreAlone
<1>15. QED
  BY <1>11, <1>12, <1>14

-----------------------------------------------------------------------------
(* What the steps do to the requests.                                      *)

LEMMA OverIsOver ==
    ASSUME Inv, NEW r \in Requests, NEW phase \in {"ended", "lost"},
           Over(r, phase)
    PROVE  /\ request' \in [Requests -> RequestType]
           /\ \A s \in Requests \ {r} : request'[s] = request[s]
           /\ ~ Outstanding(r)'
<1>1. request \in [Requests -> RequestType]
  BY DEF Inv, TypeOK
<1>2. [NoRequest EXCEPT !.phase = phase] \in RequestType
  <2>1. NoRequest \in RequestType
    <3>1. <<>> \in Seq(Chunks)
      OBVIOUS
    <3>2. QED
      BY <3>1 DEF NoRequest, RequestType, Phases
  <2>2. phase \in Phases
    BY DEF Phases
  <2>3. QED
    BY <2>1, <2>2 DEF RequestType
<1>3. /\ request' \in [Requests -> RequestType]
      /\ request'[r] = [NoRequest EXCEPT !.phase = phase]
      /\ \A s \in Requests \ {r} : request'[s] = request[s]
  BY <1>1, <1>2 DEF Over
<1>4. request'[r].phase = phase
  BY <1>3 DEF NoRequest
<1>5. QED
  BY <1>3, <1>4 DEF Outstanding

LEMMA DispatchEnters ==
    ASSUME Inv, NEW r \in Requests, NEW call \in Functions, NEW f \in Files,
           NEW fd \in Fds, NEW offset \in Nat, NEW nbytes \in Nat,
           Dispatch(r, call, f, fd, offset, nbytes)
    PROVE  /\ request' \in [Requests -> RequestType]
           /\ \A s \in Requests \ {r} : request'[s] = request[s]
           /\ Outstanding(r)' => /\ request'[r].call = call
                                 /\ request'[r].file = f
                                 /\ request'[r].fd = fd
<1> DEFINE new == [call |-> call, file |-> f, fd |-> fd, start |-> offset,
                   offset |-> offset, nbytes |-> nbytes, phase |-> "queued",
                   ret |-> 0, heard |-> <<>>]
<1>1. CASE request' = [request EXCEPT ![r] = new]
  <2>1. new \in RequestType
    BY DEF RequestType, Phases
  <2>2. /\ request' \in [Requests -> RequestType]
        /\ request'[r] = new
        /\ \A s \in Requests \ {r} : request'[s] = request[s]
    <3> HIDE DEF new
    <3> QED
      BY <1>1, <2>1 DEF Inv, TypeOK
  <2>3. QED
    BY <2>2
<1>2. CASE Over(r, "lost")
  BY <1>2, OverIsOver
<1>3. QED
  BY <1>1, <1>2 DEF Dispatch

(* A step of a request under way that keeps its call, file and descriptor. *)
LEMMA RequestMoves ==
    ASSUME Inv, NEW r \in Requests, Outstanding(r),
           NEW phase \in Phases, NEW ret \in Int, NEW offset \in Nat,
           NEW heard \in Seq(Chunks),
           request' = [request EXCEPT ![r] =
                          [@ EXCEPT !.phase = phase, !.ret = ret,
                                    !.offset = offset, !.heard = heard]],
           UNCHANGED <<fds, openWriteFiles>>
    PROVE  /\ request' \in [Requests -> RequestType]
           /\ request'[r].phase = phase
           /\ \A s \in Requests \ {r} : request'[s] = request[s]
           /\ (WritesAreCounted /\ WritersShare /\ OthersAreAlone)'
<1>1. request \in [Requests -> RequestType]
  BY DEF Inv, TypeOK
<1>2. request[r] \in RequestType
  BY <1>1
<1>3. [request[r] EXCEPT !.phase = phase, !.ret = ret,
                         !.offset = offset, !.heard = heard] \in RequestType
  BY <1>2 DEF RequestType
<1>4. /\ request' \in [Requests -> RequestType]
      /\ \A s \in Requests \ {r} : request'[s] = request[s]
  BY <1>1, <1>3
<1>5. /\ request'[r].call = request[r].call
      /\ request'[r].file = request[r].file
      /\ request'[r].fd = request[r].fd
      /\ request'[r].phase = phase
  BY <1>1, <1>2 DEF RequestType
<1>6. (WritesAreCounted /\ WritersShare /\ OthersAreAlone)'
  <2>1. \A s \in Requests : Outstanding(s)' =>
           /\ Outstanding(s)
           /\ request'[s].call = request[s].call
           /\ request'[s].file = request[s].file
           /\ request'[s].fd = request[s].fd
    BY <1>4, <1>5 DEF Outstanding
  <2>2. QED
    BY <2>1, NothingOpens
<1>7. QED
  BY <1>4, <1>5, <1>6

(* close_file.                                                             *)
LEMMA CloseFileIsSafe ==
    ASSUME Inv, NEW r \in Requests, Outstanding(r), CloseFile(r)
    PROVE  /\ request' \in [Requests -> RequestType]
           /\ fds' \in [Fds -> {Closed} \cup [file : Files, append : BOOLEAN]]
           /\ openWriteFiles' \in [Files -> [fd : {0} \cup Fds, refcount : Nat]]
           /\ \A s \in Requests \ {r} : request'[s] = request[s]
           /\ ~ Outstanding(r)'
           /\ (WritesAreCounted /\ WritersShare /\ OthersAreAlone)'
<1>1. /\ request' \in [Requests -> RequestType]
      /\ \A s \in Requests \ {r} : request'[s] = request[s]
      /\ ~ Outstanding(r)'
  BY OverIsOver DEF CloseFile
<1>2. fds' \in [Fds -> {Closed} \cup [file : Files, append : BOOLEAN]]
  BY DEF CloseFile, Inv, TypeOK
<1>3. CASE request[r].call = "write"
  <2> DEFINE f == request[r].file
  <2>1. /\ f \in Files /\ openWriteFiles[f].refcount > 0
        /\ openWriteFiles[f] \in [fd : {0} \cup Fds, refcount : Nat]
    BY <1>3, WriterIsCounted DEF Inv, TypeOK
  <2>2. Released(openWriteFiles[f]) \in [fd : {0} \cup Fds, refcount : Nat]
    BY <2>1 DEF Released
  <2>3. openWriteFiles' = [openWriteFiles EXCEPT ![f] = Released(@)]
    BY <1>3 DEF CloseFile
  <2>4. openWriteFiles' \in [Files -> [fd : {0} \cup Fds, refcount : Nat]]
    <3> HIDE DEF f
    <3> QED
      BY <2>2, <2>3 DEF Inv, TypeOK
  <2>5. (WritesAreCounted /\ WritersShare /\ OthersAreAlone)'
    <3>1. CASE openWriteFiles[f].refcount = 1
      <4>1. fds' = [fds EXCEPT ![request[r].fd] = Closed]
        BY <3>1 DEF CloseFile, LastUser
      <4>2. QED
        BY <4>1, <3>1, <2>3, <1>1, <1>3, LastWriterCloses
    <3>2. CASE openWriteFiles[f].refcount # 1
      <4>1. UNCHANGED fds
        BY <3>2, <1>3 DEF CloseFile, LastUser
      <4>2. QED
        BY <4>1, <3>2, <2>3, <1>1, <1>3, WriterLeaves
    <3>3. QED
      BY <3>1, <3>2
  <2>6. QED
    BY <1>1, <1>2, <2>4, <2>5
<1>4. CASE request[r].call # "write"
  <2>1. /\ UNCHANGED openWriteFiles
        /\ fds' = [fds EXCEPT ![request[r].fd] = Closed]
    BY <1>4 DEF CloseFile, LastUser
  <2>2. (WritesAreCounted /\ WritersShare /\ OthersAreAlone)'
    BY <2>1, <1>1, <1>4, OwnerCloses
  <2>3. QED
    BY <1>1, <1>2, <2>1, <2>2 DEF Inv, TypeOK
<1>5. QED
  BY <1>3, <1>4

-----------------------------------------------------------------------------
(* The steps.                                                              *)

LEMMA RequestFields ==
    ASSUME Inv, NEW r \in Requests
    PROVE  /\ request[r] \in RequestType
           /\ request[r].offset \in Nat
           /\ request[r].nbytes \in Nat
           /\ request[r].ret \in Int
           /\ request[r].heard \in Seq(Chunks)
           /\ request[r].phase \in Phases
<1>1. request[r] \in RequestType
  BY DEF Inv, TypeOK
<1>2. QED
  BY <1>1 DEF RequestType

LEMMA HearsType ==
    ASSUME Inv, NEW r \in Requests, NEW length \in Nat
    PROVE  Hears(r, length) \in Seq(Chunks)
<1> DEFINE chunk == [from |-> request[r].offset, length |-> length]
<1>1. chunk \in Chunks /\ request[r].heard \in Seq(Chunks)
  BY RequestFields DEF Chunks
<1> HIDE DEF chunk
<1>2. Append(request[r].heard, chunk) \in Seq(Chunks)
  BY <1>1
<1>3. QED
  BY <1>2 DEF Hears, chunk

(* The four functions share their entry and the requests of others.        *)
LEMMA CallIsIssued ==
    ASSUME Inv, NEW r \in Requests, NEW call \in Functions, Accept(r, call),
           \A s \in Requests \ {r} : request'[s] = request[s]
    PROVE  /\ issued' \in 0..MaxRequests
           /\ running' \in {0} \cup Requests
           /\ RunningIsOutstanding'
<1>1. /\ issued \in 0..MaxRequests /\ MaxRequests \in Nat
      /\ r = issued + 1 /\ issued' = r /\ r \in 0..MaxRequests
      /\ running' = running
  BY FileAssumption DEF Accept, Inv, TypeOK, Requests
<1>2. \A s \in Requests : Outstanding(s) => s <= issued /\ s # r
  BY <1>1 DEF Inv, IInv, RunningIsOutstanding, Requests
<1>3. \A s \in Requests \ {r} : Outstanding(s)' <=> Outstanding(s)
  BY DEF Outstanding
<1>4. ASSUME NEW s \in Requests, Outstanding(s)' PROVE s <= issued'
  BY <1>1, <1>2, <1>3, <1>4 DEF Requests
<1>5. running \in {0} \cup Requests
  BY DEF Inv, TypeOK
<1>6. running # 0 => Outstanding(running)
  BY DEF Inv, IInv, RunningIsOutstanding
<1>7. running' # 0 => Outstanding(running)'
  BY <1>1, <1>2, <1>3, <1>5, <1>6 DEF Outstanding
<1>8. QED
  BY <1>1, <1>4, <1>5, <1>7 DEF RunningIsOutstanding

LEMMA AsyncWriteIsSafe ==
    ASSUME Inv, NEW r \in Requests, NEW f \in Files, NEW asked \in Offsets,
           AsyncWrite(r, f, asked)
    PROVE  Inv'
<1> DEFINE offset == Clamped(asked)
           joined == openWriteFiles'[f].fd
<1>1. offset \in Nat
  BY FileAssumption DEF Clamped
<1>2. Accept(r, "write") /\ "write" \in Functions
  BY DEF AsyncWrite, Functions
<1>3. /\ Dispatch(r, "write", f, joined, offset, 1)
      /\ UNCHANGED disk
  BY DEF AsyncWrite
<1>4. CASE /\ openWriteFiles[f].refcount = 0
           /\ FreeFds # {}
           /\ fds' = [fds EXCEPT ![NewFd] =
                         [file |-> f, append |-> offset < 0]]
           /\ openWriteFiles' = [openWriteFiles EXCEPT ![f] =
                                     [fd |-> NewFd, refcount |-> 1]]
  <2>1. joined = NewFd /\ NewFd \in Fds
    BY <1>4, NewFdIsFree DEF Inv, TypeOK
  <2>2. (offset < 0) \in BOOLEAN
    BY <1>1
  <2>3. /\ fds' \in [Fds -> {Closed} \cup [file : Files, append : BOOLEAN]]
        /\ openWriteFiles' \in [Files -> [fd : {0} \cup Fds, refcount : Nat]]
    BY <1>4, <2>1, <2>2 DEF Inv, TypeOK
  <2>4. /\ request' \in [Requests -> RequestType]
        /\ \A s \in Requests \ {r} : request'[s] = request[s]
        /\ Outstanding(r)' => /\ request'[r].call = "write"
                              /\ request'[r].file = f
                              /\ request'[r].fd = NewFd
    <3> HIDE DEF offset, joined
    <3> QED
      BY <1>1, <1>2, <1>3, <2>1, DispatchEnters
  <2>5. (WritesAreCounted /\ WritersShare /\ OthersAreAlone)'
    <3> DEFINE append == offset < 0
    <3>1. fds' = [fds EXCEPT ![NewFd] = [file |-> f, append |-> append]]
      BY <1>4
    <3>2. append \in BOOLEAN
      BY <2>2
    <3> HIDE DEF append
    <3> QED
      BY <1>4, <3>1, <3>2, <2>4, WriterOpens
  <2>6. QED
    BY <1>2, <1>3, <2>3, <2>4, <2>5, CallIsIssued DEF Inv, IInv, TypeOK
<1>5. CASE /\ openWriteFiles[f].refcount > 0
           /\ openWriteFiles' = [openWriteFiles EXCEPT ![f] = Counted(f)]
           /\ UNCHANGED fds
  <2>1. openWriteFiles[f] \in [fd : {0} \cup Fds, refcount : Nat]
    BY DEF Inv, TypeOK
  <2>2. Counted(f) \in [fd : {0} \cup Fds, refcount : Nat]
    BY <2>1 DEF Counted
  <2>3. openWriteFiles' \in [Files -> [fd : {0} \cup Fds, refcount : Nat]]
    BY <1>5, <2>2 DEF Inv, TypeOK
  <2>4. joined = openWriteFiles[f].fd /\ joined \in Fds
    <3>1. openWriteFiles[f].fd \in Fds
      BY <1>5 DEF Inv, IInv, WritesAreCounted, IsOpenOn
    <3>2. openWriteFiles'[f].fd = openWriteFiles[f].fd
      BY <1>5, <2>1 DEF Inv, TypeOK, Counted
    <3>3. QED
      BY <3>1, <3>2
  <2>5. /\ request' \in [Requests -> RequestType]
        /\ \A s \in Requests \ {r} : request'[s] = request[s]
        /\ Outstanding(r)' => /\ request'[r].call = "write"
                              /\ request'[r].file = f
                              /\ request'[r].fd = openWriteFiles[f].fd
    <3> HIDE DEF offset, joined
    <3> QED
      BY <1>1, <1>2, <1>3, <2>4, DispatchEnters
  <2>6. (WritesAreCounted /\ WritersShare /\ OthersAreAlone)'
    BY <1>5, <2>5, WriterJoins
  <2>7. QED
    BY <1>2, <1>3, <1>5, <2>3, <2>5, <2>6, CallIsIssued DEF Inv, IInv, TypeOK
<1>6. QED
  BY <1>4, <1>5 DEF AsyncWrite

(* The other three open a descriptor of their own.                         *)
LEMMA OwnerIsSafe ==
    ASSUME Inv, NEW r \in Requests, NEW call \in Functions \ {"write"},
           NEW f \in Files, NEW append \in BOOLEAN, NEW offset \in Nat,
           NEW nbytes \in Nat,
           Accept(r, call), FreeFds # {},
           fds' = [fds EXCEPT ![NewFd] = [file |-> f, append |-> append]],
           Dispatch(r, call, f, NewFd, offset, nbytes),
           disk' \in [Files -> Nat],
           UNCHANGED openWriteFiles
    PROVE  Inv'
<1>1. NewFd \in Fds
  BY NewFdIsFree
<1>2. fds' \in [Fds -> {Closed} \cup [file : Files, append : BOOLEAN]]
  BY <1>1 DEF Inv, TypeOK
<1>3. /\ request' \in [Requests -> RequestType]
      /\ \A s \in Requests \ {r} : request'[s] = request[s]
      /\ Outstanding(r)' => /\ request'[r].call = call
                            /\ request'[r].file = f
                            /\ request'[r].fd = NewFd
  <2> DEFINE n == NewFd
  <2>1. n \in Fds /\ Dispatch(r, call, f, n, offset, nbytes)
    BY <1>1
  <2> HIDE DEF n
  <2>2. /\ request' \in [Requests -> RequestType]
        /\ \A s \in Requests \ {r} : request'[s] = request[s]
        /\ Outstanding(r)' => /\ request'[r].call = call
                              /\ request'[r].file = f
                              /\ request'[r].fd = n
    BY <2>1, DispatchEnters
  <2>3. QED
    BY <2>2 DEF n
<1>4. (WritesAreCounted /\ WritersShare /\ OthersAreAlone)'
  BY <1>3, DescriptorOpens
<1>5. QED
  BY <1>2, <1>3, <1>4, CallIsIssued DEF Inv, IInv, TypeOK

LEMMA CallIsSafe == Inv /\ Call => Inv'
<1> SUFFICES ASSUME Inv, Call PROVE Inv'
  OBVIOUS
<1>1. PICK r \in Requests, f \in Files :
         \/ \E asked \in Offsets : AsyncWrite(r, f, asked)
         \/ \E append \in BOOLEAN : AsyncWriteFile(r, f, append)
         \/ \E offset \in Offsets : AsyncRead(r, f, offset)
         \/ AsyncReadFile(r, f)
  BY DEF Call
<1>2. ASSUME NEW asked \in Offsets, AsyncWrite(r, f, asked) PROVE Inv'
  BY <1>2, AsyncWriteIsSafe
<1>3. ASSUME NEW append \in BOOLEAN, AsyncWriteFile(r, f, append) PROVE Inv'
  <2>1. disk' \in [Files -> Nat]
    BY <1>3 DEF AsyncWriteFile, Inv, TypeOK
  <2>2. "writefile" \in Functions \ {"write"}
    BY DEF Functions
  <2>3. QED
    BY <1>3, <2>1, <2>2, OwnerIsSafe DEF AsyncWriteFile
<1>4. ASSUME NEW offset \in Offsets, AsyncRead(r, f, offset) PROVE Inv'
  <2>1. offset \in Nat /\ Chunk \in Nat /\ FALSE \in BOOLEAN
    BY <1>4, FileAssumption DEF AsyncRead
  <2>2. "read" \in Functions \ {"write"}
    BY DEF Functions
  <2>3. disk' \in [Files -> Nat]
    BY <1>4 DEF AsyncRead, Inv, TypeOK
  <2>4. QED
    BY <1>4, <2>1, <2>2, <2>3, OwnerIsSafe DEF AsyncRead
<1>5. CASE AsyncReadFile(r, f)
  <2> DEFINE nbytes == disk[f]
  <2>1. nbytes \in Nat /\ FALSE \in BOOLEAN
    BY DEF Inv, TypeOK
  <2>2. "readfile" \in Functions \ {"write"}
    BY DEF Functions
  <2>3. disk' \in [Files -> Nat]
    BY <1>5 DEF AsyncReadFile, Inv, TypeOK
  <2>4. /\ Accept(r, "readfile") /\ FreeFds # {}
        /\ fds' = [fds EXCEPT ![NewFd] = [file |-> f, append |-> FALSE]]
        /\ Dispatch(r, "readfile", f, NewFd, 0, nbytes)
        /\ UNCHANGED openWriteFiles
    BY <1>5 DEF AsyncReadFile
  <2> HIDE DEF nbytes
  <2>5. QED
    BY <2>1, <2>2, <2>3, <2>4, OwnerIsSafe
<1>6. QED
  BY <1>1, <1>2, <1>3, <1>4, <1>5

(* Steps after which no request is under way that was not before.          *)
LEMMA NothingEnters ==
    ASSUME Inv, UNCHANGED issued,
           \A s \in Requests : Outstanding(s)' => Outstanding(s),
           running' # 0 => Outstanding(running)'
    PROVE  RunningIsOutstanding'
BY DEF Inv, IInv, RunningIsOutstanding

LEMMA WorkerPerforms ==
    ASSUME Inv, NEW r \in Requests, request[r].phase = "queued",
           NEW ret \in Int, Performed(r, ret),
           UNCHANGED <<fds, openWriteFiles, running, issued>>,
           disk' \in [Files -> Nat]
    PROVE  Inv'
<1> DEFINE offset == request[r].offset
           heard == request[r].heard
<1>1. /\ request[r] \in RequestType /\ offset \in Nat /\ heard \in Seq(Chunks)
      /\ "done" \in Phases /\ Outstanding(r)
  BY RequestFields DEF Phases, Outstanding
<1>2. request' = [request EXCEPT ![r] =
                     [@ EXCEPT !.phase = "done", !.ret = ret,
                               !.offset = offset, !.heard = heard]]
  BY <1>1 DEF Performed, RequestType, Inv, TypeOK
<1>3. /\ request' \in [Requests -> RequestType]
      /\ request'[r].phase = "done"
      /\ \A s \in Requests \ {r} : request'[s] = request[s]
      /\ (WritesAreCounted /\ WritersShare /\ OthersAreAlone)'
  <2> HIDE DEF offset, heard
  <2> QED
    BY <1>1, <1>2, RequestMoves
<1>4. /\ Outstanding(r)'
      /\ \A s \in Requests : Outstanding(s)' <=> Outstanding(s)
  BY <1>1, <1>3 DEF Outstanding
<1>5. running \in {0} \cup Requests /\ (running # 0 => Outstanding(running))
  BY DEF Inv, TypeOK, IInv, RunningIsOutstanding
<1>6. running' # 0 => Outstanding(running)'
  BY <1>4, <1>5 DEF Outstanding
<1>7. RunningIsOutstanding'
  BY <1>4, <1>6, NothingEnters
<1>8. QED
  BY <1>3, <1>7 DEF Inv, IInv, TypeOK

LEMMA WorkerIsSafe == Inv /\ Worker => Inv'
<1> SUFFICES ASSUME Inv, NEW r \in Requests, HandlerRead(r) \/ HandlerWrite(r)
             PROVE  Inv'
  BY DEF Worker
<1> DEFINE d == fds[request[r].fd]
<1>1. request[r].phase = "queued" /\ Outstanding(r)
  BY DEF HandlerRead, HandlerWrite, Outstanding
<1>2. /\ d \in [file : Files, append : BOOLEAN]
      /\ disk[d.file] \in Nat
  <2>1. d \in [file : Files, append : BOOLEAN]
    BY <1>1, RequestHasFile DEF IsOpenOn, Inv, TypeOK
  <2>2. QED
    BY <2>1 DEF Inv, TypeOK
<1>3. disk \in [Files -> Nat]
  BY DEF Inv, TypeOK
<1>4. CASE HandlerRead(r)
  <2>1. \E ret \in Int : Performed(r, ret)
    <3>1. Available(disk[d.file], request[r].offset, request[r].nbytes) \in Int
      BY <1>2, RequestFields, AvailableType
    <3>2. QED
      BY <1>4, <3>1 DEF HandlerRead
  <2>2. UNCHANGED <<disk, fds, openWriteFiles, running, issued>>
    BY <1>4 DEF HandlerRead
  <2>3. QED
    BY <1>1, <1>3, <2>1, <2>2, WorkerPerforms
<1>5. CASE HandlerWrite(r)
  <2>1. /\ \E ret \in Int : Performed(r, ret)
        /\ UNCHANGED <<fds, openWriteFiles, running, issued>>
    BY <1>5 DEF HandlerWrite
  <2>2. disk' \in [Files -> Nat]
    <3>1. SizeAfter(disk[d.file], d.append, request[r].offset) \in Nat
      BY <1>2, RequestFields, SizeAfterType
    <3>2. CASE UNCHANGED disk
      BY <1>3, <3>2
    <3>3. CASE disk' = [disk EXCEPT ![d.file] =
                           SizeAfter(@, d.append, request[r].offset)]
      BY <1>3, <3>1, <3>3
    <3>4. QED
      BY <1>5, <3>2, <3>3 DEF HandlerWrite
  <2>3. QED
    BY <1>1, <2>1, <2>2, WorkerPerforms
<1>6. QED
  BY <1>4, <1>5

LEMMA AdvancedType ==
    ASSUME Inv, NEW r \in Requests
    PROVE  Advanced(r) \in Nat
BY RequestFields DEF Advanced

(* A request that is over, and whose callback, if any, is too.             *)
LEMMA EndIsSafe ==
    ASSUME Inv, NEW r \in Requests, Outstanding(r),
           request' \in [Requests -> RequestType],
           fds' \in [Fds -> {Closed} \cup [file : Files, append : BOOLEAN]],
           openWriteFiles' \in [Files -> [fd : {0} \cup Fds, refcount : Nat]],
           \A s \in Requests \ {r} : request'[s] = request[s],
           (WritesAreCounted /\ WritersShare /\ OthersAreAlone)',
           running' = 0,
           UNCHANGED <<disk, issued>>
    PROVE  Inv'
<1>1. \A s \in Requests : Outstanding(s)' => Outstanding(s)
  BY DEF Outstanding
<1>2. RunningIsOutstanding'
  BY <1>1, NothingEnters
<1>3. QED
  BY <1>2 DEF Inv, IInv, TypeOK

(* A request that is freed while its descriptor stays open.                *)
LEMMA OverIsSafe ==
    ASSUME Inv, NEW r \in Requests, Outstanding(r),
           NEW phase \in {"ended", "lost"}, Over(r, phase),
           running' = 0,
           UNCHANGED <<disk, fds, openWriteFiles, issued>>
    PROVE  Inv'
<1>1. /\ request' \in [Requests -> RequestType]
      /\ \A s \in Requests \ {r} : request'[s] = request[s]
      /\ ~ Outstanding(r)'
  BY OverIsOver
<1>2. \A s \in Requests : Outstanding(s)' =>
         Outstanding(s) /\ request'[s] = request[s]
  BY <1>1 DEF Outstanding
<1>3. (WritesAreCounted /\ WritersShare /\ OthersAreAlone)'
  BY <1>2, NothingOpens
<1>4. /\ fds' \in [Fds -> {Closed} \cup [file : Files, append : BOOLEAN]]
      /\ openWriteFiles' \in [Files -> [fd : {0} \cup Fds, refcount : Nat]]
  BY DEF Inv, TypeOK
<1>5. QED
  BY <1>1, <1>3, <1>4, EndIsSafe

LEMMA CompleteIsSafe ==
    ASSUME Inv, NEW r \in Requests, Complete(r)
    PROVE  Inv'
<1>1. /\ Outstanding(r) /\ running = 0
      /\ UNCHANGED <<disk, fds, openWriteFiles, issued>>
  BY DEF Complete, Outstanding
<1>2. CASE Over(r, "lost") /\ UNCHANGED running
  BY <1>1, <1>2, OverIsSafe
<1>3. CASE /\ request' = [request EXCEPT
                  ![r].phase = "callback",
                  ![r].offset = Advanced(r),
                  ![r].heard = Hears(r, Max({0, request[r].ret}))]
           /\ running' = r
  <2> DEFINE ret == request[r].ret
             offset == Advanced(r)
             length == Max({0, ret})
             heard == Hears(r, length)
  <2>1. /\ request[r] \in RequestType /\ ret \in Int
        /\ request[r].heard \in Seq(Chunks)
    BY RequestFields
  <2>2. length \in Nat
    <3> HIDE DEF ret
    <3>1. ret \in Int /\ 0 \in Int
      BY <2>1
    <3>2. Max({0, ret}) \in {0, ret} /\ Max({0, ret}) >= 0
      BY <3>1, MaxOfTwo
    <3>3. QED
      BY <3>1, <3>2
  <2>3. heard \in Seq(Chunks) /\ offset \in Nat /\ "callback" \in Phases
    <3> HIDE DEF length
    <3> QED
      BY <2>1, <2>2, HearsType, AdvancedType DEF Phases
  <2>4. request' = [request EXCEPT ![r] =
                       [@ EXCEPT !.phase = "callback", !.ret = ret,
                                 !.offset = offset, !.heard = heard]]
    BY <1>3, <2>1 DEF RequestType, Inv, TypeOK
  <2>5. /\ request' \in [Requests -> RequestType]
        /\ request'[r].phase = "callback"
        /\ \A s \in Requests \ {r} : request'[s] = request[s]
        /\ (WritesAreCounted /\ WritersShare /\ OthersAreAlone)'
    <3> HIDE DEF ret, offset, heard
    <3> QED
      BY <1>1, <2>1, <2>3, <2>4, RequestMoves
  <2>6. \A s \in Requests : Outstanding(s)' => Outstanding(s)
    BY <1>1, <2>5 DEF Outstanding
  <2>7. running' # 0 => Outstanding(running)'
    BY <1>3, <2>5 DEF Outstanding
  <2>8. RunningIsOutstanding'
    BY <1>1, <2>6, <2>7, NothingEnters
  <2>9. QED
    BY <1>1, <1>3, <2>5, <2>8 DEF Inv, IInv, TypeOK
<1>4. QED
  BY <1>2, <1>3 DEF Complete

LEMMA ReturnIsSafe == Inv /\ Return => Inv'
<1> SUFFICES ASSUME Inv, NEW r \in Requests,
                    \/ \E stop \in BOOLEAN : ReturnAndClose(r, stop)
                    \/ ReturnAndKeep(r)
                    \/ ReturnAndRepeat(r)
                    \/ ReturnAndContinue(r)
             PROVE  Inv'
  BY DEF Return
<1>1. running = r /\ UNCHANGED <<disk, issued>>
  BY DEF ReturnAndClose, ReturnAndKeep, ReturnAndRepeat, ReturnAndContinue
<1>2. Outstanding(r)
  <2>1. r # 0
    BY DEF Requests
  <2>2. QED
    BY <1>1, <2>1 DEF Inv, IInv, RunningIsOutstanding
<1>3. ASSUME CloseFile(r), running' = 0 PROVE Inv'
  BY <1>1, <1>2, <1>3, CloseFileIsSafe, EndIsSafe
<1>4. CASE \E stop \in BOOLEAN : ReturnAndClose(r, stop)
  BY <1>3, <1>4 DEF ReturnAndClose
<1>5. CASE ReturnAndKeep(r)
  BY <1>2, <1>5, OverIsSafe DEF ReturnAndKeep
<1> DEFINE ret == request[r].ret
           offset == request[r].offset
<1>6. CASE ReturnAndRepeat(r)
  <2> DEFINE heard == Hears(r, 0)
             phase == request[r].phase
  <2>1. /\ request[r] \in RequestType /\ offset \in Nat /\ phase \in Phases
        /\ heard \in Seq(Chunks) /\ 0 \in Int
    BY RequestFields, HearsType
  <2>2. request' = [request EXCEPT ![r] =
                       [@ EXCEPT !.phase = phase, !.ret = 0,
                                 !.offset = offset, !.heard = heard]]
    BY <1>6, <2>1 DEF ReturnAndRepeat, RequestType, Inv, TypeOK
  <2>3. UNCHANGED <<fds, openWriteFiles, running>>
    BY <1>6 DEF ReturnAndRepeat
  <2>4. /\ request' \in [Requests -> RequestType]
        /\ request'[r].phase = request[r].phase
        /\ \A s \in Requests \ {r} : request'[s] = request[s]
        /\ (WritesAreCounted /\ WritersShare /\ OthersAreAlone)'
    <3>1. /\ request' \in [Requests -> RequestType]
          /\ request'[r].phase = phase
          /\ \A s \in Requests \ {r} : request'[s] = request[s]
          /\ (WritesAreCounted /\ WritersShare /\ OthersAreAlone)'
      <4> HIDE DEF offset, heard, phase
      <4> QED
        BY <1>2, <2>1, <2>2, <2>3, RequestMoves
    <3>2. QED
      BY <3>1
  <2>5. /\ \A s \in Requests : Outstanding(s)' => Outstanding(s)
        /\ Outstanding(r)'
    BY <1>2, <2>4 DEF Outstanding
  <2>6. running' # 0 => Outstanding(running)'
    BY <1>1, <2>3, <2>5 DEF Outstanding
  <2>7. RunningIsOutstanding'
    BY <1>1, <2>5, <2>6, NothingEnters
  <2>8. QED
    BY <1>1, <2>3, <2>4, <2>7 DEF Inv, IInv, TypeOK
<1>7. CASE ReturnAndContinue(r)
  <2>1. CASE /\ request' = [request EXCEPT ![r].phase = "queued"]
             /\ UNCHANGED <<fds, openWriteFiles>>
    <3> DEFINE heard == request[r].heard
    <3>1. /\ request[r] \in RequestType /\ offset \in Nat /\ ret \in Int
          /\ heard \in Seq(Chunks) /\ "queued" \in Phases
      BY RequestFields DEF Phases
    <3>2. request' = [request EXCEPT ![r] =
                         [@ EXCEPT !.phase = "queued", !.ret = ret,
                                   !.offset = offset, !.heard = heard]]
      BY <2>1, <3>1 DEF RequestType, Inv, TypeOK
    <3>3. /\ request' \in [Requests -> RequestType]
          /\ request'[r].phase = "queued"
          /\ \A s \in Requests \ {r} : request'[s] = request[s]
          /\ (WritesAreCounted /\ WritersShare /\ OthersAreAlone)'
      <4>1. UNCHANGED <<fds, openWriteFiles>>
        BY <2>1
      <4> HIDE DEF offset, heard, ret
      <4>2. QED
        BY <1>2, <3>1, <3>2, <4>1, RequestMoves
    <3>4. running' = 0
      BY <1>7 DEF ReturnAndContinue
    <3>5. /\ fds' \in [Fds -> {Closed} \cup [file : Files, append : BOOLEAN]]
          /\ openWriteFiles' \in [Files -> [fd : {0} \cup Fds, refcount : Nat]]
      BY <2>1 DEF Inv, TypeOK
    <3>6. QED
      BY <1>1, <1>2, <3>3, <3>4, <3>5, EndIsSafe
  <2>2. CASE CloseFile(r)
    BY <1>3, <1>7, <2>2 DEF ReturnAndContinue
  <2>3. QED
    BY <1>7, <2>1, <2>2 DEF ReturnAndContinue
<1>8. QED
  BY <1>4, <1>5, <1>6, <1>7

-----------------------------------------------------------------------------
(* The theorems.                                                           *)

LEMMA InitIsSafe == Init => Inv
<1> SUFFICES ASSUME Init PROVE Inv
  OBVIOUS
<1>1. TypeOK
  <2>1. NoRequest \in RequestType
    <3>1. <<>> \in Seq(Chunks)
      OBVIOUS
    <3>2. QED
      BY <3>1 DEF NoRequest, RequestType, Phases
  <2>2. request \in [Requests -> RequestType]
    BY <2>1 DEF Init
  <2>3. disk \in [Files -> Nat]
    BY FileAssumption DEF Init
  <2>4. issued \in 0..MaxRequests
    BY FileAssumption DEF Init
  <2>5. QED
    BY <2>2, <2>3, <2>4 DEF Init, TypeOK
<1>2. \A r \in Requests : ~ Outstanding(r)
  BY DEF Init, NoRequest, Outstanding
<1>3. WritesAreCounted
  <2>1. \A f \in Files : openWriteFiles[f].refcount = 0
    BY DEF Init
  <2>2. ASSUME NEW f \in Files PROVE Cardinality(Writers(f)) = 0
    BY <1>2, CountOfNone DEF Writers
  <2>3. QED
    BY <2>1, <2>2 DEF WritesAreCounted
<1>4. QED
  BY <1>1, <1>2, <1>3
     DEF Inv, IInv, WritersShare, OthersAreAlone, RunningIsOutstanding, Init

LEMMA StutterIsSafe == Inv /\ UNCHANGED vars => Inv'
<1> SUFFICES ASSUME Inv, UNCHANGED vars PROVE Inv'
  OBVIOUS
<1>1. UNCHANGED <<fds, openWriteFiles>> /\ UNCHANGED <<request, running>>
      /\ UNCHANGED <<disk, issued>>
  BY DEF vars
<1>2. \A s \in Requests : Outstanding(s)' <=> Outstanding(s)
  BY <1>1 DEF Outstanding
<1>3. (WritesAreCounted /\ WritersShare /\ OthersAreAlone)'
  BY <1>1, <1>2, NothingOpens
<1>4. running' # 0 => Outstanding(running)'
  BY <1>1 DEF Inv, IInv, RunningIsOutstanding, Outstanding
<1>5. RunningIsOutstanding'
  BY <1>1, <1>2, <1>4, NothingEnters
<1>6. QED
  BY <1>1, <1>3, <1>5 DEF Inv, IInv, TypeOK

(* The inductive invariant: open_write_files counts the writes under way,  *)
(* which share its descriptor; every other request is alone on its own.    *)
THEOREM InductiveInvariant == Spec => []Inv
<1>1. Init => Inv
  BY InitIsSafe
<1>2. Inv /\ [Next]_vars => Inv'
  BY CallIsSafe, WorkerIsSafe, CompleteIsSafe, ReturnIsSafe, StutterIsSafe
     DEF Next
<1>3. QED
  BY <1>1, <1>2, PTL DEF Spec

(* Every variable keeps its type; offsets and counts never go below zero.  *)
THEOREM TypeCorrect == Spec => []TypeOK
<1>1. Inv => TypeOK
  BY DEF Inv
<1>2. QED
  BY <1>1, InductiveInvariant, PTL

(* open_write_files counts every write under way.                          *)
THEOREM CountsAreRight == Spec => []WritesAreCounted
<1>1. Inv => WritesAreCounted
  BY DEF Inv, IInv
<1>2. QED
  BY <1>1, InductiveInvariant, PTL

(* No worker touches a descriptor that was closed or given to another file *)
(* since its request was made.                                             *)
THEOREM DescriptorsAreTheirs == Spec => []DescriptorIsTheirs
<1>1. Inv => DescriptorIsTheirs
  BY RequestHasFile DEF DescriptorIsTheirs
<1>2. QED
  BY <1>1, InductiveInvariant, PTL

(* Only writes on one file share a descriptor, and they are counted.       *)
THEOREM SharingIsCounted == Spec => []DescriptorIsShared
<1>1. Inv => DescriptorIsShared
  <2> SUFFICES ASSUME Inv, NEW r \in Requests, NEW s \in Requests, r # s,
                      Outstanding(r), Outstanding(s),
                      request[r].fd = request[s].fd
               PROVE  /\ request[r].call = "write" /\ request[s].call = "write"
                      /\ openWriteFiles[request[r].file].refcount >= 2
    BY DEF DescriptorIsShared
  <2>1. request[r].call = "write" /\ request[s].call = "write"
    BY DEF Inv, IInv, OthersAreAlone
  <2> DEFINE f == request[r].file
  <2>2. /\ f \in Files /\ IsOpenOn(request[r].fd, f)
        /\ IsOpenOn(request[s].fd, request[s].file)
    BY RequestHasFile
  <2>3. request[s].file = f
    BY <2>2 DEF IsOpenOn
  <2>4. r \in Writers(f) /\ s \in Writers(f) \ {r} /\ s \in Writers(f)
    BY <2>1, <2>3 DEF Writers
  <2> HIDE DEF f
  <2>5. /\ Writers(f) \in SUBSET Requests
        /\ Writers(f) \ {r} \in SUBSET Requests
    BY DEF Writers
  <2>6. /\ Cardinality(Writers(f)) \in Nat
        /\ Cardinality(Writers(f) \ {r}) \in Nat
        /\ Cardinality(Writers(f) \ {r}) # 0
        /\ Cardinality(Writers(f) \ {r}) <= Cardinality(Writers(f)) - 1
    BY <2>4, <2>5, RequestsAreFinite, CountOfNone, CountOfOneLess
  <2>7. /\ openWriteFiles[f].refcount \in Nat
        /\ Cardinality(Writers(f)) <= openWriteFiles[f].refcount
    BY <2>2 DEF Inv, TypeOK, IInv, WritesAreCounted
  <2>8. openWriteFiles[f].refcount >= 2
    BY <2>6, <2>7
  <2>9. QED
    BY <2>1, <2>8 DEF f
<1>2. QED
  BY <1>1, InductiveInvariant, PTL
-----------------------------------------------------------------------------
(* What a read hears.                                                      *)

LEMMA AvailableIsNat ==
    ASSUME NEW size \in Nat, NEW offset \in Nat, NEW nbytes \in Nat
    PROVE  Available(size, offset, nbytes) \in Nat
<1> DEFINE left == size - offset
<1>1. CASE offset >= size
  BY <1>1 DEF Available
<1>2. CASE ~ (offset >= size)
  <2>1. left \in Nat /\ nbytes \in Int /\ left \in Int
    BY <1>2
  <2>2. Min({nbytes, left}) \in {nbytes, left}
    <3> HIDE DEF left
    <3> QED
      BY <2>1, MinOfTwo
  <2>3. QED
    BY <1>2, <2>1, <2>2 DEF Available
<1>3. QED
  BY <1>1, <1>2

(* Reading fails in no other way than those of the environment.            *)
ReadsSucceed == Env \cap {"ioFails", "flockFails"} = {}

(* What the steps do to one request.                                       *)
Enters(r) ==
    /\ request'[r].offset = request'[r].start
    /\ request'[r].heard = <<>>
    /\ request'[r].ret = 0

Answers(r) ==
    /\ request[r].phase = "queued"
    /\ \E ret \in Int :
          /\ request'[r] = [request[r] EXCEPT !.phase = "done", !.ret = ret]
          /\ ReadsSucceed => ret >= 0

Speaks(r) ==
    /\ running = 0
    /\ request[r].phase = "done"
    /\ request'[r] = [request[r] EXCEPT
                         !.phase = "callback", !.offset = Advanced(r),
                         !.heard = Hears(r, Max({0, request[r].ret}))]

Repeats(r) ==
    /\ running = r
    /\ request[r].ret # 0
    /\ request'[r] = [request[r] EXCEPT !.ret = 0, !.heard = Hears(r, 0)]

Continues(r) ==
    /\ running = r
    /\ request[r].ret # 0
    /\ request'[r] = [request[r] EXCEPT !.phase = "queued"]

LEMMA OverIsNoRead ==
    ASSUME Inv, NEW r \in Requests, NEW phase, Over(r, phase),
           NEW q \in Requests, request'[q].call = "read"
    PROVE  request'[q] = request[q]
<1>1. request' = [request EXCEPT ![r] = [NoRequest EXCEPT !.phase = phase]]
  BY DEF Over
<1>2. q # r
  BY <1>1 DEF NoRequest, Inv, TypeOK
<1>3. QED
  BY <1>1, <1>2 DEF Inv, TypeOK

LEMMA DispatchOfRead ==
    ASSUME Inv, NEW r \in Requests, NEW call, NEW f, NEW fd, NEW offset,
           NEW nbytes, Dispatch(r, call, f, fd, offset, nbytes),
           NEW q \in Requests, request'[q].call = "read"
    PROVE  request'[q] = request[q] \/ Enters(q)
<1>1. CASE Over(r, "lost")
  BY <1>1, OverIsNoRead
<1>2. CASE request' = [request EXCEPT ![r] =
           [call |-> call, file |-> f, fd |-> fd, start |-> offset,
            offset |-> offset, nbytes |-> nbytes, phase |-> "queued",
            ret |-> 0, heard |-> <<>>]]
  <2>1. CASE q = r
    BY <1>2, <2>1 DEF Enters, Inv, TypeOK
  <2>2. CASE q # r
    BY <1>2, <2>2 DEF Inv, TypeOK
  <2>3. QED
    BY <2>1, <2>2
<1>3. QED
  BY <1>1, <1>2 DEF Dispatch

LEMMA ReadSteps ==
    ASSUME Inv, [Next]_vars, NEW q \in Requests, request'[q].call = "read"
    PROVE  \/ request'[q] = request[q]
           \/ Enters(q)
           \/ Answers(q)
           \/ Speaks(q)
           \/ Repeats(q)
           \/ Continues(q)
<1>1. request \in [Requests -> RequestType]
  BY DEF Inv, TypeOK
<1>2. CASE Call
  <2>1. PICK r \in Requests : \E call, f, fd, offset, nbytes :
           Dispatch(r, call, f, fd, offset, nbytes)
    BY <1>2 DEF Call, AsyncWrite, AsyncWriteFile, AsyncRead, AsyncReadFile
  <2>2. QED
    BY <2>1, DispatchOfRead
<1>3. ASSUME NEW r \in Requests, HandlerRead(r) \/ HandlerWrite(r)
      PROVE  request'[q] = request[q] \/ Answers(q)
  <2>1. /\ request[r].phase = "queued"
        /\ \E ret \in Int : /\ Performed(r, ret)
                            /\ ReadsSucceed => ret >= 0 \/ IsWrite(r)
    <3>1. Outstanding(r)
      BY <1>3 DEF HandlerRead, HandlerWrite, Outstanding
    <3> DEFINE d == fds[request[r].fd]
               n == Available(disk[d.file], request[r].offset,
                              request[r].nbytes)
    <3>2. d # Closed /\ d \in [file : Files, append : BOOLEAN]
      BY <3>1, RequestHasFile DEF IsOpenOn, Inv, TypeOK
    <3>3. disk[d.file] \in Nat
      BY <3>2 DEF Inv, TypeOK
    <3>4. n \in Nat
      <4> HIDE DEF d
      <4> QED
        BY <3>3, RequestFields, AvailableIsNat
    <3>5. CASE HandlerRead(r)
      <4>1. CASE Performed(r, n)
        BY <1>3, <3>4, <3>5, <4>1 DEF HandlerRead
      <4>2. CASE ~ReadsSucceed /\ Performed(r, -1)
        BY <3>5, <4>2 DEF HandlerRead
      <4>3. QED
        BY <3>2, <3>5, <4>1, <4>2 DEF HandlerRead, ReadsSucceed
    <3>6. CASE HandlerWrite(r)
      BY <3>6 DEF HandlerWrite
    <3>7. QED
      BY <1>3, <3>5, <3>6
  <2>2. PICK ret \in Int : /\ Performed(r, ret)
                           /\ ReadsSucceed => ret >= 0 \/ IsWrite(r)
    BY <2>1
  <2>3. request' = [request EXCEPT ![r] =
                       [@ EXCEPT !.phase = "done", !.ret = ret]]
    BY <1>1, <2>2 DEF Performed
  <2>4. CASE q # r
    BY <1>1, <2>3, <2>4
  <2>5. CASE q = r
    <3>1. request'[q] = [request[q] EXCEPT !.phase = "done", !.ret = ret]
      BY <1>1, <2>3, <2>5
    <3>2. request[q] \in RequestType
      BY <1>1
    <3>3. request'[q].call = request[q].call
      BY <3>1, <3>2 DEF RequestType
    <3>4. ~IsWrite(r)
      BY <2>5, <3>3 DEF IsWrite
    <3>5. QED
      BY <2>1, <2>2, <2>5, <3>1, <3>4 DEF Answers
  <2>6. QED
    BY <2>4, <2>5
<1>4. ASSUME NEW r \in Requests, Complete(r)
      PROVE  request'[q] = request[q] \/ Speaks(q)
  <2>1. CASE Over(r, "lost")
    BY <2>1, OverIsNoRead
  <2>2. CASE request' = [request EXCEPT
                 ![r].phase = "callback",
                 ![r].offset = Advanced(r),
                 ![r].heard = Hears(r, Max({0, request[r].ret}))]
    <3>1. CASE q # r
      BY <1>1, <2>2, <3>1
    <3>2. CASE q = r
      BY <1>1, <1>4, <2>2, <3>2 DEF Complete, Speaks
    <3>3. QED
      BY <3>1, <3>2
  <2>3. QED
    BY <1>4, <2>1, <2>2 DEF Complete
<1>5. ASSUME NEW r \in Requests,
             \/ \E stop \in BOOLEAN : ReturnAndClose(r, stop)
             \/ ReturnAndKeep(r)
      PROVE  request'[q] = request[q]
  BY <1>5, OverIsNoRead DEF ReturnAndClose, ReturnAndKeep, CloseFile
<1>6. ASSUME NEW r \in Requests, ReturnAndRepeat(r)
      PROVE  request'[q] = request[q] \/ Repeats(q)
  <2>1. CASE q # r
    BY <1>1, <1>6, <2>1 DEF ReturnAndRepeat
  <2>2. CASE q = r
    BY <1>1, <1>6, <2>2 DEF ReturnAndRepeat, Repeats, ReadsOn
  <2>3. QED
    BY <2>1, <2>2
<1>7. ASSUME NEW r \in Requests, ReturnAndContinue(r)
      PROVE  request'[q] = request[q] \/ Continues(q)
  <2>1. CASE CloseFile(r)
    BY <2>1, OverIsNoRead DEF CloseFile
  <2>2. CASE request' = [request EXCEPT ![r].phase = "queued"]
    <3>1. CASE q # r
      BY <1>1, <2>2, <3>1
    <3>2. CASE q = r
      BY <1>1, <1>7, <2>2, <3>2 DEF ReturnAndContinue, Continues, ReadsOn
    <3>3. QED
      BY <3>1, <3>2
  <2>3. QED
    BY <1>7, <2>1, <2>2 DEF ReturnAndContinue
<1>8. CASE UNCHANGED vars
  BY <1>8 DEF vars
<1>9. QED
  BY <1>2, <1>3, <1>4, <1>5, <1>6, <1>7, <1>8 DEF Next, Worker, Return
(* One chunk more.                                                         *)
LEMMA OneMoreChunk ==
    ASSUME Inv, NEW r \in Requests, NEW length \in Nat
    PROVE  LET heard == Hears(r, length)
               n == Len(request[r].heard)
           IN  /\ n \in Nat /\ Len(heard) = n + 1
               /\ \A i \in 1..n : heard[i] = request[r].heard[i]
               /\ heard[n + 1].from = request[r].offset
               /\ heard[n + 1].length = length
<1> DEFINE chunk == [from |-> request[r].offset, length |-> length]
           old == request[r].heard
<1>1. old \in Seq(Chunks) /\ chunk \in Chunks
  BY RequestFields DEF Chunks
<1>2. chunk.from = request[r].offset /\ chunk.length = length
  OBVIOUS
<1> HIDE DEF chunk, old
<1>3. /\ Len(Append(old, chunk)) = Len(old) + 1 /\ Len(old) \in Nat
      /\ \A i \in 1..Len(old) : Append(old, chunk)[i] = old[i]
      /\ Append(old, chunk)[Len(old) + 1] = chunk
  BY <1>1
<1>4. Hears(r, length) = Append(old, chunk)
  BY DEF Hears, chunk, old
<1>5. QED
  BY <1>2, <1>3, <1>4 DEF old

LEMMA ChunkIsContiguous ==
    ASSUME Inv, NEW r \in Requests, NEW length \in Nat, Contiguous(r),
           request'[r].heard = Hears(r, length),
           request'[r].start = request[r].start,
           request'[r].offset = request[r].offset + length
    PROVE  Contiguous(r)'
<1> DEFINE n == Len(request[r].heard)
           heard == request[r].heard
           heard2 == request'[r].heard
<1>1. /\ n \in Nat /\ Len(heard2) = n + 1
      /\ \A i \in 1..n : heard2[i] = heard[i]
      /\ heard2[n + 1].from = request[r].offset
      /\ heard2[n + 1].length = length
  BY OneMoreChunk
<1>2. \A i \in 0..n : Reached(r, i)' = Reached(r, i)
  <2> SUFFICES ASSUME NEW i \in 0..n PROVE Reached(r, i)' = Reached(r, i)
    OBVIOUS
  <2>1. CASE i = 0
    BY <2>1 DEF Reached
  <2>2. CASE i # 0
    <3>1. i \in 1..n
      BY <1>1, <2>2
    <3>2. heard2[i] = heard[i]
      BY <1>1, <3>1
    <3>3. QED
      BY <2>2, <3>2 DEF Reached
  <2>3. QED
    BY <2>1, <2>2
<1>3. /\ \A i \in 1..n : heard[i].from = Reached(r, i - 1)
      /\ request[r].offset = Reached(r, n)
  BY DEF Contiguous
<1> HIDE DEF n, heard, heard2
<1>4. ASSUME NEW i \in 1..(n + 1)
      PROVE  heard2[i].from = Reached(r, i - 1)'
  <2>1. CASE i = n + 1
    <3>1. i - 1 = n /\ n \in 0..n
      BY <1>1, <2>1
    <3>2. QED
      BY <1>1, <1>2, <1>3, <2>1, <3>1
  <2>2. CASE i # n + 1
    <3>1. i \in 1..n /\ i - 1 \in 0..n
      BY <1>1, <2>2
    <3>2. QED
      BY <1>1, <1>2, <1>3, <3>1
  <2>3. QED
    BY <2>1, <2>2
<1>5. ASSUME NEW k \in Nat, k = n + 1 PROVE request'[r].offset = Reached(r, k)'
  <2>1. Reached(r, k)' = heard2[k].from + heard2[k].length
    BY <1>1, <1>5 DEF Reached, heard2
  <2>2. QED
    BY <1>1, <1>5, <2>1
<1>6. request'[r].offset = Reached(r, Len(request[r].heard))'
  BY <1>1, <1>5 DEF heard2
<1>7. QED
  BY <1>1, <1>4, <1>6 DEF Contiguous, heard2

(* A step that leaves the chunks and the offset of a request alone.        *)
LEMMA StaysContiguous ==
    ASSUME NEW r \in Requests, Contiguous(r),
           request'[r].heard = request[r].heard,
           request'[r].start = request[r].start,
           request'[r].offset = request[r].offset
    PROVE  Contiguous(r)'
BY DEF Contiguous, Reached

LEMMA MaxIsNat ==
    ASSUME NEW n \in Int
    PROVE  /\ Max({0, n}) \in Nat
           /\ n > 0 => Max({0, n}) = n
           /\ n <= 0 => Max({0, n}) = 0
<1>1. /\ Max({0, n}) \in {0, n}
      /\ Max({0, n}) >= 0 /\ Max({0, n}) >= n
  BY MaxOfTwo
<1>2. QED
  BY <1>1

LEMMA ContiguousStep ==
    ASSUME Inv, ChunksAreContiguous, [Next]_vars
    PROVE  ChunksAreContiguous'
<1> SUFFICES ASSUME NEW r \in Requests, request'[r].call = "read"
             PROVE  Contiguous(r)'
  BY DEF ChunksAreContiguous
<1>1. request[r] \in RequestType
  BY DEF Inv, TypeOK
<1>2. request[r].call = "read" => Contiguous(r)
  BY DEF ChunksAreContiguous
<1>3. CASE Enters(r)
  <2>1. Len(request'[r].heard) = 0
    BY <1>3 DEF Enters
  <2>2. QED
    BY <1>3, <2>1 DEF Enters, Contiguous, Reached
<1>4. CASE request'[r] = request[r]
  BY <1>2, <1>4, StaysContiguous
<1>5. CASE Answers(r) \/ Continues(r)
  <2>1. /\ request'[r].call = request[r].call
        /\ request'[r].heard = request[r].heard
        /\ request'[r].start = request[r].start
        /\ request'[r].offset = request[r].offset
    BY <1>1, <1>5 DEF Answers, Continues, RequestType
  <2>2. QED
    BY <1>2, <2>1, StaysContiguous
<1>6. CASE Speaks(r)
  <2> DEFINE ret == request[r].ret
             length == Max({0, ret})
  <2>1. /\ request'[r].call = request[r].call
        /\ request'[r].heard = Hears(r, length)
        /\ request'[r].start = request[r].start
        /\ request'[r].offset = Advanced(r)
    BY <1>1, <1>6 DEF Speaks, RequestType
  <2>2. ret \in Int /\ request[r].offset \in Nat
    BY <1>1 DEF RequestType
  <2>3. /\ length \in Nat
        /\ ret > 0 => length = ret
        /\ ret <= 0 => length = 0
    <3> HIDE DEF ret
    <3> QED
      BY <2>2, MaxIsNat
  <2>4. Advanced(r) = request[r].offset + length
    <3>1. request[r].call = "read"
      BY <2>1
    <3>2. QED
      BY <2>2, <2>3, <3>1 DEF Advanced, IsWrite
  <2> HIDE DEF length
  <2>5. QED
    BY <1>2, <2>1, <2>3, <2>4, ChunkIsContiguous
<1>7. CASE Repeats(r)
  <2>1. /\ request'[r].call = request[r].call
        /\ request'[r].heard = Hears(r, 0)
        /\ request'[r].start = request[r].start
        /\ request'[r].offset = request[r].offset + 0
    BY <1>1, <1>7 DEF Repeats, RequestType
  <2>2. QED
    BY <1>2, <2>1, ChunkIsContiguous
<1>8. QED
  BY <1>3, <1>4, <1>5, <1>6, <1>7, ReadSteps

(* The chunks of a read follow each other in the file, for any number of   *)
(* calls and whatever fails: none is left out and none is delivered twice. *)
THEOREM ReadsAreContiguous == Spec => []ChunksAreContiguous
<1>1. Init => ChunksAreContiguous
  BY DEF Init, NoRequest, ChunksAreContiguous
<1>2. Spec => []Inv
  BY InductiveInvariant
<1>3. QED
  BY <1>1, <1>2, ContiguousStep, PTL DEF Spec

-----------------------------------------------------------------------------
(* The end of the file.                                                    *)

(* The request whose callback runs waits for it.                           *)
RunningIsInCallback == running # 0 => request[running].phase = "callback"

LEMMA CallbackStep ==
    ASSUME Inv, RunningIsInCallback, [Next]_vars
    PROVE  RunningIsInCallback'
<1>1. request \in [Requests -> RequestType] /\ running \in {0} \cup Requests
  BY DEF Inv, TypeOK
<1>2. CASE running' = running /\ running # 0
  <2> DEFINE q == running
  <2>1. q \in Requests /\ request[q].phase = "callback" /\ q <= issued
    BY <1>1, <1>2 DEF RunningIsInCallback, Inv, IInv, RunningIsOutstanding
  <2>2. ASSUME NEW r \in Requests, NEW new, r # q,
               request' = [request EXCEPT ![r] = new]
        PROVE  request'[q] = request[q]
    BY <1>1, <2>1, <2>2
  <2>3. CASE Call
    <3>1. PICK r \in Requests : \E call, f, fd, offset, nbytes :
             Accept(r, call) /\ Dispatch(r, call, f, fd, offset, nbytes)
      BY <2>3 DEF Call, AsyncWrite, AsyncWriteFile, AsyncRead, AsyncReadFile
    <3>2. r # q
      BY <2>1, <3>1 DEF Accept, Inv, TypeOK, Requests
    <3>3. \E new : request' = [request EXCEPT ![r] = new]
      BY <3>1 DEF Dispatch, Over
    <3>4. QED
      BY <1>2, <2>1, <2>2, <3>2, <3>3 DEF RunningIsInCallback
  <2>4. CASE Worker
    <3>1. PICK r \in Requests : /\ request[r].phase = "queued"
                                /\ \E ret : Performed(r, ret)
      BY <2>4 DEF Worker, HandlerRead, HandlerWrite
    <3>2. PICK ret : request' = [request EXCEPT ![r] =
                           [@ EXCEPT !.phase = "done", !.ret = ret]]
      BY <1>1, <3>1 DEF Performed
    <3>3. QED
      BY <1>2, <2>1, <2>2, <3>1, <3>2 DEF RunningIsInCallback
  <2>5. CASE \E r \in Requests : Complete(r)
    BY <1>2, <2>5 DEF Complete
  <2>6. CASE Return
    <3>1. PICK r \in Requests : ReturnAndRepeat(r)
      BY <1>2, <2>6
         DEF Return, ReturnAndClose, ReturnAndKeep, ReturnAndContinue, Requests
    <3>2. /\ r = q
          /\ request' = [request EXCEPT ![q].ret = 0, ![q].heard = Hears(q, 0)]
      BY <3>1 DEF ReturnAndRepeat
    <3>3. request'[q].phase = request[q].phase
      BY <1>1, <2>1, <3>2 DEF RequestType
    <3>4. QED
      BY <1>2, <2>1, <3>3 DEF RunningIsInCallback
  <2>7. CASE UNCHANGED vars
    BY <2>7 DEF vars, RunningIsInCallback
  <2>8. QED
    BY <2>3, <2>4, <2>5, <2>6, <2>7 DEF Next
<1>3. CASE running' = 0
  BY <1>3 DEF RunningIsInCallback
<1>4. CASE running' # running /\ running' # 0
  <2>1. PICK r \in Requests : Complete(r) /\ running' = r
    BY <1>4 DEF Next, Call, AsyncWrite, AsyncWriteFile, AsyncRead,
                AsyncReadFile, Accept, Worker, HandlerRead, HandlerWrite,
                Complete, Return, ReturnAndClose, ReturnAndKeep,
                ReturnAndRepeat, ReturnAndContinue, vars
  <2>2. request' = [request EXCEPT
                 ![r].phase = "callback",
                 ![r].offset = Advanced(r),
                 ![r].heard = Hears(r, Max({0, request[r].ret}))]
    BY <1>4, <2>1 DEF Complete
  <2>3. request'[r].phase = "callback"
    BY <1>1, <2>2 DEF RequestType
  <2>4. QED
    BY <2>1, <2>3 DEF RunningIsInCallback
<1>5. QED
  BY <1>2, <1>3, <1>4

LEMMA EndStep ==
    ASSUME ReadsSucceed, Inv, RunningIsInCallback, EndIsLast, [Next]_vars
    PROVE  EndIsLast'
<1> SUFFICES ASSUME NEW r \in Requests, request'[r].call = "read"
             PROVE  EndsOnce(r)'
  BY DEF EndIsLast
<1>1. request[r] \in RequestType
  BY DEF Inv, TypeOK
<1>2. request[r].call = "read" => EndsOnce(r)
  BY DEF EndIsLast
<1>3. CASE Enters(r)
  BY <1>3 DEF Enters, EndsOnce
<1>4. CASE request'[r] = request[r]
  BY <1>2, <1>4 DEF EndsOnce
<1>5. CASE Answers(r)
  <2>1. PICK ret \in Int :
          /\ request'[r] = [request[r] EXCEPT !.phase = "done", !.ret = ret]
          /\ ret >= 0
    BY <1>5 DEF Answers
  <2>2. /\ request'[r].call = request[r].call
        /\ request'[r].heard = request[r].heard
        /\ request'[r].ret = ret
        /\ request[r].phase = "queued"
    BY <1>1, <1>5, <2>1 DEF Answers, RequestType
  <2>3. QED
    BY <1>2, <2>1, <2>2 DEF EndsOnce
<1>6. CASE Speaks(r)
  <2> DEFINE ret == request[r].ret
             length == Max({0, ret})
             n == Len(request[r].heard)
             heard2 == request'[r].heard
  <2>1. /\ request'[r].call = request[r].call
        /\ heard2 = Hears(r, length)
        /\ request'[r].ret = ret
        /\ request'[r].phase = "callback"
        /\ request[r].phase = "done"
    BY <1>1, <1>6 DEF Speaks, RequestType
  <2>2. /\ ret >= 0 /\ ret \in Int
        /\ \A i \in 1..n : request[r].heard[i].length # 0
    BY <1>1, <1>2, <2>1 DEF EndsOnce, RequestType
  <2>3. length \in Nat /\ length = ret
    <3> HIDE DEF ret
    <3> QED
      BY <2>2, MaxIsNat
  <2> HIDE DEF length
  <2>4. /\ n \in Nat /\ Len(heard2) = n + 1
        /\ \A i \in 1..n : heard2[i] = request[r].heard[i]
        /\ heard2[n + 1].length = length
    BY <2>1, <2>3, OneMoreChunk
  <2>5. ASSUME NEW i \in 1..Len(heard2), heard2[i].length = 0
        PROVE  i = Len(heard2) /\ ret = 0
    <3> HIDE DEF n, heard2, ret
    <3>1. i = n + 1
      BY <2>2, <2>4, <2>5
    <3>2. QED
      BY <2>3, <2>4, <2>5, <3>1
  <2>6. QED
    BY <2>1, <2>2, <2>5 DEF EndsOnce
<1>7. CASE Repeats(r)
  <2> DEFINE n == Len(request[r].heard)
             heard2 == request'[r].heard
  <2>1. /\ request'[r].call = request[r].call
        /\ heard2 = Hears(r, 0)
        /\ request'[r].ret = 0
        /\ request'[r].phase = request[r].phase
    BY <1>1, <1>7 DEF Repeats, RequestType
  <2>2. request[r].phase = "callback"
    BY <1>7 DEF Repeats, RunningIsInCallback, Requests
  <2>3. \A i \in 1..n : request[r].heard[i].length # 0
    BY <1>2, <1>7, <2>1, <2>2 DEF EndsOnce, Repeats
  <2>4. /\ n \in Nat /\ Len(heard2) = n + 1
        /\ \A i \in 1..n : heard2[i] = request[r].heard[i]
    BY <2>1, OneMoreChunk
  <2>5. ASSUME NEW i \in 1..Len(heard2), heard2[i].length = 0
        PROVE  i = Len(heard2)
    <3> HIDE DEF n, heard2
    <3> QED
      BY <2>3, <2>4, <2>5
  <2>6. QED
    BY <2>1, <2>2, <2>5 DEF EndsOnce
<1>8. CASE Continues(r)
  <2>1. /\ request'[r].call = request[r].call
        /\ request'[r].heard = request[r].heard
        /\ request'[r].ret = request[r].ret
        /\ request[r].ret # 0
    BY <1>1, <1>8 DEF Continues, RequestType
  <2>2. QED
    BY <1>2, <2>1 DEF EndsOnce
<1>9. QED
  BY <1>3, <1>4, <1>5, <1>6, <1>7, <1>8, ReadSteps

(* Where reading does not fail, a read hears the end of its file as its    *)
(* last chunk and once, for any number of calls and sizes: an empty chunk  *)
(* is never followed by another one.                                       *)
THEOREM EndIsHeardOnce ==
    ASSUME ReadsSucceed
    PROVE  Spec => []NothingFollowsTheEnd
<1>1. Init => RunningIsInCallback /\ EndIsLast
  BY DEF Init, NoRequest, RunningIsInCallback, EndIsLast
<1>2. Spec => []Inv
  BY InductiveInvariant
<1>3. Inv /\ RunningIsInCallback /\ EndIsLast /\ [Next]_vars
         => (RunningIsInCallback /\ EndIsLast)'
  BY CallbackStep, EndStep
<1>4. Inv /\ EndIsLast => NothingFollowsTheEnd
  <2> SUFFICES ASSUME Inv, EndIsLast, NEW r \in Requests,
                      request[r].call = "read",
                      NEW i \in 1..(Len(request[r].heard) - 1)
               PROVE  request[r].heard[i].length # 0
    BY DEF NothingFollowsTheEnd
  <2> DEFINE n == Len(request[r].heard)
  <2>1. n \in Nat
    BY RequestFields
  <2>2. i \in 1..n /\ i # n
    <3> HIDE DEF n
    <3> QED
      BY <2>1 DEF n
  <2>3. QED
    BY <2>2 DEF EndIsLast, EndsOnce
<1>5. QED
  BY <1>1, <1>2, <1>3, <1>4, PTL DEF Spec
-----------------------------------------------------------------------------
(* Descriptors and counts are given back.                                  *)

(* No request gets lost, and callbacks of writes return false.             *)
RequestsEnd == Env \cap {"dispatchFails", "callbackFails", "keepsOpen"} = {}

(* Who uses a descriptor, and how many writes a file has, stay the same.   *)
LEMMA UsersStay ==
    ASSUME Inv, DescriptorsAreUsed, UNCHANGED <<fds, openWriteFiles>>,
           \A s \in Requests :
              /\ Outstanding(s)' <=> Outstanding(s)
              /\ Outstanding(s) => /\ request'[s].call = request[s].call
                                   /\ request'[s].file = request[s].file
                                   /\ request'[s].fd = request[s].fd
    PROVE  DescriptorsAreUsed'
<1>1. \A f \in Files : Writers(f)' = Writers(f)
  BY DEF Writers
<1>2. \A f \in Files :
         openWriteFiles'[f].refcount <= Cardinality(Writers(f)')
  BY <1>1 DEF DescriptorsAreUsed
<1>3. \A d \in Fds : fds'[d] # Closed =>
         \E s \in Requests : Outstanding(s)' /\ request'[s].fd = d
  BY DEF DescriptorsAreUsed
<1>4. QED
  BY <1>2, <1>3 DEF DescriptorsAreUsed

(* A call of the script, whose request is queued.                          *)
LEMMA UsersEnter ==
    ASSUME Inv, DescriptorsAreUsed, NEW r \in Requests, ~ Outstanding(r),
           NEW f \in Files, NEW fd \in Fds,
           \A s \in Requests \ {r} : request'[s] = request[s],
           Outstanding(r)', request'[r].file = f, request'[r].fd = fd,
           \A d \in Fds \ {fd} : fds'[d] = fds[d],
           \A g \in Files :
              openWriteFiles'[g].refcount =
                 IF g = f /\ request'[r].call = "write"
                 THEN openWriteFiles[g].refcount + 1
                 ELSE openWriteFiles[g].refcount
    PROVE  DescriptorsAreUsed'
<1>1. \A s \in Requests \ {r} : Outstanding(s)' <=> Outstanding(s)
  BY DEF Outstanding
<1>2. ASSUME NEW d \in Fds, fds'[d] # Closed
      PROVE  \E s \in Requests : Outstanding(s)' /\ request'[s].fd = d
  <2>1. CASE d = fd
    BY <2>1
  <2>2. CASE d # fd
    BY <1>1, <1>2, <2>2 DEF DescriptorsAreUsed
  <2>3. QED
    BY <2>1, <2>2
<1>3. ASSUME NEW g \in Files
      PROVE  openWriteFiles'[g].refcount <= Cardinality(Writers(g)')
  <2>1. /\ openWriteFiles[g].refcount <= Cardinality(Writers(g))
        /\ openWriteFiles[g].refcount \in Nat
    BY DEF DescriptorsAreUsed, Inv, TypeOK
  <2>2. /\ Writers(g) \in SUBSET Requests /\ Writers(g)' \in SUBSET Requests
        /\ r \notin Writers(g)
    BY DEF Writers
  <2>3. IsFiniteSet(Writers(g)) /\ Cardinality(Writers(g)) \in Nat
    BY <2>2, RequestsAreFinite
  <2>4. CASE g = f /\ request'[r].call = "write"
    <3>1. Writers(g)' = Writers(g) \cup {r}
      BY <1>1, <2>4 DEF Writers
    <3>2. Cardinality(Writers(g) \cup {r}) = Cardinality(Writers(g)) + 1
      BY <2>2, <2>3, FS_AddElement
    <3>3. QED
      BY <2>1, <2>3, <2>4, <3>1, <3>2
  <2>5. CASE ~ (g = f /\ request'[r].call = "write")
    <3>1. Writers(g)' = Writers(g)
      BY <1>1, <2>2, <2>5 DEF Writers
    <3>2. QED
      BY <2>1, <2>5, <3>1
  <2>6. QED
    BY <2>4, <2>5
<1>4. QED
  BY <1>2, <1>3 DEF DescriptorsAreUsed

(* close_file: the request leaves; its descriptor is closed unless another *)
(* write of the file is under way, which then still uses it.               *)
LEMMA UserLeaves ==
    ASSUME Inv, DescriptorsAreUsed, NEW r \in Requests, Outstanding(r),
           CloseFile(r)
    PROVE  DescriptorsAreUsed'
<1> DEFINE f == request[r].file
           fd == request[r].fd
<1>1. /\ \A s \in Requests \ {r} : request'[s] = request[s]
      /\ ~ Outstanding(r)'
  BY CloseFileIsSafe
<1>2. \A s \in Requests \ {r} : Outstanding(s)' <=> Outstanding(s)
  BY <1>1 DEF Outstanding
<1>3. /\ f \in Files /\ fd \in Fds
  BY RequestHasFile DEF IsOpenOn
<1>4. fds \in [Fds -> {Closed} \cup [file : Files, append : BOOLEAN]]
  BY DEF Inv, TypeOK
<1> DEFINE stays == /\ request[r].call = "write"
                    /\ openWriteFiles[f].refcount # 1
<1>5. fds' = IF stays THEN fds ELSE [fds EXCEPT ![fd] = Closed]
  BY DEF CloseFile, LastUser
<1> HIDE DEF fd
<1>6. ASSUME stays
      PROVE  \E s \in Requests \ {r} : Outstanding(s) /\ request[s].fd = fd
  <2>1. /\ openWriteFiles[f].refcount > 0 /\ fd = openWriteFiles[f].fd
    BY <1>6, WriterIsCounted DEF fd
  <2>2. /\ openWriteFiles[f].refcount \in Nat
        /\ openWriteFiles[f].refcount <= Cardinality(Writers(f))
    BY <1>3 DEF DescriptorsAreUsed, Inv, TypeOK
  <2>3. r \in Writers(f) /\ Writers(f) \in SUBSET Requests
    BY <1>6 DEF Writers
  <2> HIDE DEF f
  <2>4. IsFiniteSet(Writers(f)) /\ Cardinality(Writers(f)) \in Nat
    BY <2>3, RequestsAreFinite
  <2>5. Cardinality(Writers(f)) > 1
    BY <1>6, <2>1, <2>2, <2>4
  <2>6. Writers(f) # {r}
    <3>1. Cardinality({r}) = 1
      BY FS_Singleton
    <3>2. QED
      BY <2>5, <3>1
  <2>7. PICK s \in Writers(f) : s # r
    BY <2>3, <2>6
  <2>8. /\ s \in Requests \ {r} /\ Outstanding(s)
        /\ request[s].call = "write" /\ request[s].file = f
    BY <2>7 DEF Writers
  <2>9. request[s].fd = fd
    BY <2>1, <2>8, WriterIsCounted
  <2>10. QED
    BY <2>8, <2>9
<1>7. ASSUME NEW d \in Fds, fds'[d] # Closed
      PROVE  \E s \in Requests : Outstanding(s)' /\ request'[s].fd = d
  <2>1. PICK s \in Requests : Outstanding(s) /\ request[s].fd = d
    BY <1>3, <1>4, <1>5, <1>7 DEF DescriptorsAreUsed
  <2>2. CASE s # r
    BY <1>1, <1>2, <2>1, <2>2
  <2>3. CASE s = r
    <3>1. d = fd /\ stays
      BY <1>3, <1>4, <1>5, <1>7, <2>1, <2>3 DEF fd
    <3>2. QED
      BY <1>1, <1>2, <1>6, <3>1
  <2>4. QED
    BY <2>2, <2>3
<1>8. ASSUME NEW g \in Files
      PROVE  openWriteFiles'[g].refcount <= Cardinality(Writers(g)')
  <2>1. /\ openWriteFiles[g].refcount <= Cardinality(Writers(g))
        /\ openWriteFiles[g] \in [fd : {0} \cup Fds, refcount : Nat]
        /\ openWriteFiles \in [Files -> [fd : {0} \cup Fds, refcount : Nat]]
    BY DEF DescriptorsAreUsed, Inv, TypeOK
  <2>2. Writers(g) \in SUBSET Requests /\ Writers(g)' \in SUBSET Requests
    BY DEF Writers
  <2>3. /\ IsFiniteSet(Writers(g)) /\ Cardinality(Writers(g)) \in Nat
        /\ Cardinality(Writers(g)') \in Nat
    BY <2>2, RequestsAreFinite
  <2>4. CASE g = f /\ request[r].call = "write"
    <3>1. /\ Writers(g)' = Writers(g) \ {r} /\ r \in Writers(g)
      BY <1>1, <1>2, <2>4 DEF Writers
    <3>2. Cardinality(Writers(g) \ {r}) = Cardinality(Writers(g)) - 1
      BY <2>3, <3>1, FS_RemoveElement
    <3>3. openWriteFiles'[g] = Released(openWriteFiles[g])
      BY <2>1, <2>4 DEF CloseFile
    <3>4. openWriteFiles[g].refcount > 0
      BY <2>4, WriterIsCounted
    <3>5. openWriteFiles'[g].refcount = openWriteFiles[g].refcount - 1
      BY <2>1, <3>3, <3>4 DEF Released
    <3>6. QED
      BY <2>1, <2>3, <3>1, <3>2, <3>5
  <2>5. CASE ~ (g = f /\ request[r].call = "write")
    <3>1. Writers(g)' = Writers(g)
      BY <1>1, <1>2, <2>5 DEF Writers
    <3>2. openWriteFiles'[g] = openWriteFiles[g]
      BY <2>1, <2>5 DEF CloseFile
    <3>3. QED
      BY <2>1, <3>1, <3>2
  <2>6. QED
    BY <2>4, <2>5
<1>9. QED
  BY <1>7, <1>8 DEF DescriptorsAreUsed

(* Calls, when the pool takes every request.                               *)
LEMMA CallIsUsed ==
    ASSUME RequestsEnd, Inv, DescriptorsAreUsed, Call
    PROVE  DescriptorsAreUsed'
<1>1. PICK r \in Requests, f \in Files :
         \/ \E asked \in Offsets : AsyncWrite(r, f, asked)
         \/ \E append \in BOOLEAN : AsyncWriteFile(r, f, append)
         \/ \E offset \in Offsets : AsyncRead(r, f, offset)
         \/ AsyncReadFile(r, f)
  BY DEF Call
<1>2. ~ Outstanding(r)
  <2>1. r = issued + 1 /\ issued \in Nat
    BY <1>1, FileAssumption
       DEF AsyncWrite, AsyncWriteFile, AsyncRead, AsyncReadFile, Accept,
           Inv, TypeOK
  <2>2. QED
    BY <2>1 DEF Inv, IInv, RunningIsOutstanding, Requests
<1>3. ASSUME NEW call, NEW fd, NEW offset, NEW nbytes,
             Dispatch(r, call, f, fd, offset, nbytes)
      PROVE  /\ \A s \in Requests \ {r} : request'[s] = request[s]
             /\ Outstanding(r)' /\ request'[r].call = call
             /\ request'[r].file = f /\ request'[r].fd = fd
  <2>1. request' = [request EXCEPT ![r] =
           [call |-> call, file |-> f, fd |-> fd, start |-> offset,
            offset |-> offset, nbytes |-> nbytes, phase |-> "queued",
            ret |-> 0, heard |-> <<>>]]
    BY <1>3 DEF Dispatch, RequestsEnd
  <2>2. QED
    BY <2>1 DEF Inv, TypeOK, Outstanding
<1>4. ASSUME NEW asked \in Offsets, AsyncWrite(r, f, asked)
      PROVE  DescriptorsAreUsed'
  <2> DEFINE fd == openWriteFiles'[f].fd
             old == openWriteFiles[f]
  <2>1. /\ \A s \in Requests \ {r} : request'[s] = request[s]
        /\ Outstanding(r)' /\ request'[r].call = "write"
        /\ request'[r].file = f /\ request'[r].fd = fd
    BY <1>3, <1>4 DEF AsyncWrite
  <2>2. /\ openWriteFiles \in [Files -> [fd : {0} \cup Fds, refcount : Nat]]
        /\ fds \in [Fds -> {Closed} \cup [file : Files, append : BOOLEAN]]
    BY DEF Inv, TypeOK
  <2>3. /\ fd \in Fds
        /\ \A d \in Fds \ {fd} : fds'[d] = fds[d]
        /\ openWriteFiles'[f].refcount = old.refcount + 1
        /\ \A g \in Files \ {f} : openWriteFiles'[g] = openWriteFiles[g]
    <3>1. CASE /\ old.refcount = 0 /\ FreeFds # {}
               /\ \E append : fds' = [fds EXCEPT ![NewFd] =
                                         [file |-> f, append |-> append]]
               /\ openWriteFiles' = [openWriteFiles EXCEPT ![f] =
                                         [fd |-> NewFd, refcount |-> 1]]
      <4>1. fd = NewFd /\ NewFd \in Fds
        BY <2>2, <3>1, NewFdIsFree
      <4>2. QED
        BY <2>2, <3>1, <4>1
    <3>2. CASE /\ old.refcount > 0 /\ UNCHANGED fds
               /\ openWriteFiles' = [openWriteFiles EXCEPT ![f] = Counted(f)]
      <4>1. old.fd \in Fds
        BY <3>2 DEF Inv, IInv, WritesAreCounted, IsOpenOn
      <4>2. openWriteFiles'[f] = [old EXCEPT !.refcount = @ + 1]
        BY <2>2, <3>2 DEF Counted
      <4>3. QED
        BY <2>2, <3>2, <4>1, <4>2
    <3>3. QED
      BY <1>4, <3>1, <3>2 DEF AsyncWrite
  <2> HIDE DEF fd
  <2>4. \A g \in Files :
           openWriteFiles'[g].refcount =
              IF g = f /\ request'[r].call = "write"
              THEN openWriteFiles[g].refcount + 1
              ELSE openWriteFiles[g].refcount
    BY <2>1, <2>3
  <2>5. QED
    BY <1>2, <2>1, <2>3, <2>4, UsersEnter
<1>5. ASSUME NEW call \in Functions \ {"write"}, NEW append, NEW offset,
             NEW nbytes, FreeFds # {},
             fds' = [fds EXCEPT ![NewFd] = [file |-> f, append |-> append]],
             Dispatch(r, call, f, NewFd, offset, nbytes),
             UNCHANGED openWriteFiles
      PROVE  DescriptorsAreUsed'
  <2> DEFINE fd == NewFd
  <2>1. fd \in Fds /\ \A d \in Fds \ {fd} : fds'[d] = fds[d]
    BY <1>5, NewFdIsFree DEF Inv, TypeOK
  <2>2. /\ \A s \in Requests \ {r} : request'[s] = request[s]
        /\ Outstanding(r)' /\ request'[r].call = call
        /\ request'[r].file = f /\ request'[r].fd = fd
    BY <1>3, <1>5
  <2> HIDE DEF fd
  <2>3. QED
    BY <1>2, <1>5, <2>1, <2>2, UsersEnter
<1>6. ASSUME NEW append \in BOOLEAN, AsyncWriteFile(r, f, append)
      PROVE  DescriptorsAreUsed'
  BY <1>5, <1>6 DEF AsyncWriteFile, Functions
<1>7. ASSUME NEW offset \in Offsets, AsyncRead(r, f, offset)
      PROVE  DescriptorsAreUsed'
  BY <1>5, <1>7 DEF AsyncRead, Functions
<1>8. CASE AsyncReadFile(r, f)
  BY <1>5, <1>8 DEF AsyncReadFile, Functions
<1>9. QED
  BY <1>1, <1>4, <1>6, <1>7, <1>8

(* A step of one request that only its phase and its progress change by.   *)
LEMMA UserMoves ==
    ASSUME Inv, DescriptorsAreUsed, UNCHANGED <<fds, openWriteFiles>>,
           NEW r \in Requests, Outstanding(r), Outstanding(r)',
           \A s \in Requests \ {r} : request'[s] = request[s],
           request'[r].call = request[r].call,
           request'[r].file = request[r].file,
           request'[r].fd = request[r].fd
    PROVE  DescriptorsAreUsed'
<1>1. \A s \in Requests \ {r} : Outstanding(s)' <=> Outstanding(s)
  BY DEF Outstanding
<1>2. \A s \in Requests :
              /\ Outstanding(s)' <=> Outstanding(s)
              /\ Outstanding(s) => /\ request'[s].call = request[s].call
                                   /\ request'[s].file = request[s].file
                                   /\ request'[s].fd = request[s].fd
  BY <1>1
<1>3. QED
  BY <1>2, UsersStay

LEMMA UsedStep ==
    ASSUME RequestsEnd, Inv, DescriptorsAreUsed, [Next]_vars
    PROVE  DescriptorsAreUsed'
<1>1. request \in [Requests -> RequestType]
  BY DEF Inv, TypeOK
<1>2. CASE Call
  BY <1>2, CallIsUsed
<1>3. ASSUME NEW r \in Requests, HandlerRead(r) \/ HandlerWrite(r)
      PROVE  DescriptorsAreUsed'
  <2>1. PICK ret : Performed(r, ret)
    BY <1>3 DEF HandlerRead, HandlerWrite
  <2>2. /\ Outstanding(r) /\ Outstanding(r)'
        /\ \A s \in Requests \ {r} : request'[s] = request[s]
        /\ request'[r].call = request[r].call
        /\ request'[r].file = request[r].file
        /\ request'[r].fd = request[r].fd
    BY <1>1, <1>3, <2>1
       DEF HandlerRead, HandlerWrite, Performed, RequestType, Outstanding
  <2>3. UNCHANGED <<fds, openWriteFiles>>
    BY <1>3 DEF HandlerRead, HandlerWrite
  <2>4. QED
    BY <2>2, <2>3, UserMoves
<1>4. ASSUME NEW r \in Requests, Complete(r)
      PROVE  DescriptorsAreUsed'
  <2>1. request' = [request EXCEPT
                 ![r].phase = "callback",
                 ![r].offset = Advanced(r),
                 ![r].heard = Hears(r, Max({0, request[r].ret}))]
    BY <1>4 DEF Complete, RequestsEnd
  <2>2. /\ Outstanding(r) /\ Outstanding(r)'
        /\ \A s \in Requests \ {r} : request'[s] = request[s]
        /\ request'[r].call = request[r].call
        /\ request'[r].file = request[r].file
        /\ request'[r].fd = request[r].fd
    BY <1>1, <1>4, <2>1 DEF Complete, RequestType, Outstanding
  <2>3. UNCHANGED <<fds, openWriteFiles>>
    BY <1>4 DEF Complete
  <2>4. QED
    BY <2>2, <2>3, UserMoves
<1>5. ASSUME NEW r \in Requests, running = r
      PROVE  Outstanding(r)
  BY <1>5 DEF Inv, IInv, RunningIsOutstanding, Requests
<1>6. ASSUME NEW r \in Requests, NEW stop \in BOOLEAN, ReturnAndClose(r, stop)
      PROVE  DescriptorsAreUsed'
  BY <1>5, <1>6, UserLeaves DEF ReturnAndClose
<1>7. ASSUME NEW r \in Requests, ReturnAndKeep(r)
      PROVE  DescriptorsAreUsed'
  BY <1>7 DEF ReturnAndKeep, RequestsEnd
<1>8. ASSUME NEW r \in Requests, ReturnAndRepeat(r)
      PROVE  DescriptorsAreUsed'
  <2>1. /\ Outstanding(r) /\ Outstanding(r)'
        /\ \A s \in Requests \ {r} : request'[s] = request[s]
        /\ request'[r].call = request[r].call
        /\ request'[r].file = request[r].file
        /\ request'[r].fd = request[r].fd
    BY <1>1, <1>5, <1>8 DEF ReturnAndRepeat, RequestType, Outstanding
  <2>2. UNCHANGED <<fds, openWriteFiles>>
    BY <1>8 DEF ReturnAndRepeat
  <2>3. QED
    BY <2>1, <2>2, UserMoves
<1>9. ASSUME NEW r \in Requests, ReturnAndContinue(r)
      PROVE  DescriptorsAreUsed'
  <2>1. /\ request' = [request EXCEPT ![r].phase = "queued"]
        /\ UNCHANGED <<fds, openWriteFiles>>
    BY <1>9 DEF ReturnAndContinue, RequestsEnd
  <2>2. /\ Outstanding(r) /\ Outstanding(r)'
        /\ \A s \in Requests \ {r} : request'[s] = request[s]
        /\ request'[r].call = request[r].call
        /\ request'[r].file = request[r].file
        /\ request'[r].fd = request[r].fd
    BY <1>1, <1>5, <1>9, <2>1 DEF ReturnAndContinue, RequestType, Outstanding
  <2>3. QED
    BY <2>1, <2>2, UserMoves
<1>10. CASE UNCHANGED vars
  <2>1. UNCHANGED <<fds, openWriteFiles, request>>
    BY <1>10 DEF vars
  <2>2. \A s \in Requests :
              /\ Outstanding(s)' <=> Outstanding(s)
              /\ Outstanding(s) => /\ request'[s].call = request[s].call
                                   /\ request'[s].file = request[s].file
                                   /\ request'[s].fd = request[s].fd
    BY <2>1 DEF Outstanding
  <2>3. QED
    BY <2>1, <2>2, UsersStay
<1>11. QED
  BY <1>2, <1>3, <1>4, <1>6, <1>7, <1>8, <1>9, <1>10 DEF Next, Worker, Return

(* Where no request gets lost and callbacks of writes return false, the    *)
(* descriptors of any number of calls on any files, which may share them,  *)
(* are closed again when the last request ended, and so are the entries of *)
(* open_write_files.                                                       *)
THEOREM NothingStaysOpen ==
    ASSUME RequestsEnd
    PROVE  Spec => []DescriptorsAreReleased
<1>1. Init => DescriptorsAreUsed
  <2> SUFFICES ASSUME Init PROVE DescriptorsAreUsed
    OBVIOUS
  <2>1. \A d \in Fds : fds[d] = Closed
    BY DEF Init
  <2>2. ASSUME NEW f \in Files
        PROVE  openWriteFiles[f].refcount <= Cardinality(Writers(f))
    <3>1. Writers(f) \in SUBSET Requests
      BY DEF Writers
    <3>2. Cardinality(Writers(f)) \in Nat /\ openWriteFiles[f].refcount = 0
      BY <3>1, RequestsAreFinite DEF Init
    <3>3. QED
      BY <3>2
  <2>3. QED
    BY <2>1, <2>2 DEF DescriptorsAreUsed
<1>2. Spec => []Inv
  BY InductiveInvariant
<1>3. Inv /\ DescriptorsAreUsed => DescriptorsAreReleased
  <2> SUFFICES ASSUME Inv, DescriptorsAreUsed,
                      \A r \in Requests : ~ Outstanding(r)
               PROVE  /\ FreeFds = Fds
                      /\ \A f \in Files : openWriteFiles[f].refcount = 0
    BY DEF DescriptorsAreReleased
  <2>1. FreeFds = Fds
    BY DEF FreeFds, DescriptorsAreUsed
  <2>2. ASSUME NEW f \in Files PROVE openWriteFiles[f].refcount = 0
    <3>1. Writers(f) \in SUBSET Requests /\ Writers(f) = {}
      BY DEF Writers
    <3>2. Cardinality(Writers(f)) = 0
      BY <3>1, CountOfNone
    <3>3. /\ openWriteFiles[f].refcount \in Nat
          /\ openWriteFiles[f].refcount <= Cardinality(Writers(f))
      BY DEF DescriptorsAreUsed, Inv, TypeOK
    <3>4. QED
      BY <3>2, <3>3
  <2>3. QED
    BY <2>1, <2>2
<1>4. QED
  BY <1>1, <1>2, <1>3, UsedStep, PTL DEF Spec
=============================================================================
