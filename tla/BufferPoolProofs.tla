-------------------------- MODULE BufferPoolProofs --------------------------
(***************************************************************************)
(* Proofs about BufferPool, for any number of threads and any finite       *)
(* numbers of references, buffers and blocks.                              *)
(*                                                                         *)
(* First the references: a count is the number of AVBufferRefs, and a      *)
(* thread that has dropped the last one, or holds a fresh buffer, is alone *)
(* with it (RefsInv).  Then the blocks: who owns each, and why the pool's  *)
(* count is right although it is changed outside of the mutex (PoolInv).   *)
(***************************************************************************)
EXTENDS BufferPool, FiniteSetTheorems, SequenceTheorems, TLAPS

NoRefTo(b) == \A r \in Refs : ref[r] # b
OnlyRefTo(b, x) == \A r \in Refs : ref[r] = b <=> r = x
Copied(b) == \E t \in Threads : pc[t] = "copy" /\ holding[t] = b

\* What a thread may rely on at each of its program points.
Role(t) ==
    /\ pc[t] = "out" => using[t] = Null /\ holding[t] = Null
    /\ pc[t] = "got" => using[t] # Null /\ holding[t] # Null /\ OnlyRefTo(holding[t], using[t])
    /\ pc[t] \in {"free", "pushed"} =>
          using[t] = Null /\ holding[t] # Null /\ NoRefTo(holding[t])
    /\ pc[t] = "copy" =>
          /\ using[t] # Null /\ holding[t] # Null /\ NoRefTo(holding[t])
          /\ ref[using[t]] # Null
    /\ pc[t] = "write" =>
          using[t] # Null /\ holding[t] = Null /\ OnlyRefTo(ref[using[t]], using[t])
          /\ ref[using[t]] # Null
    /\ holding[t] # Null => data[holding[t]] # Null

\* Two threads never work on the same AVBufferRef or hold the same AVBuffer.
Apart ==
    \A t, u \in Threads : t # u =>
        /\ using[t] = using[u] => using[t] = Null
        /\ holding[t] = holding[u] => holding[t] = Null

Types ==
    /\ ref \in [Refs -> Bufs \cup {Null}] /\ refcount \in [Bufs -> Nat]
    /\ data \in [Bufs -> Blocks \cup {Null}]
    /\ list \in Seq(Blocks)
    /\ pc \in [Threads -> {"out", "got", "free", "pushed", "write", "copy"}]
    /\ using \in [Threads -> Refs \cup {Null}] /\ holding \in [Threads -> Bufs \cup {Null}]

\* Every count is the number of references, and every buffer that is referred
\* to is there.
Counts ==
    /\ \A b \in Bufs : refcount[b] = IF Copied(b) THEN 1 ELSE Cardinality(RefsTo(b))
    /\ \A r \in Refs : ref[r] # Null => data[ref[r]] # Null

RefsInv == Types /\ (\A t \in Threads : Role(t)) /\ Apart /\ Counts

\* One AVBufferRef is set to another buffer, or is created or freed.
LEMMA RefMoved ==
  ASSUME Types, NEW r \in Refs, NEW new \in Bufs \cup {Null}, new # ref[r],
         ref' = [ref EXCEPT ![r] = new], NEW b \in Bufs
  PROVE  /\ Cardinality(RefsTo(b)) \in Nat
         /\ Cardinality(RefsTo(b)') =
               Cardinality(RefsTo(b)) + (IF new = b THEN 1 ELSE IF ref[r] = b THEN -1 ELSE 0)
<1>1. IsFiniteSet(RefsTo(b))
  <2>1. RefsTo(b) \in SUBSET Refs
    BY DEF RefsTo
  <2> QED
    BY <2>1, FiniteAssumption, FS_Subset
<1>2. Cardinality(RefsTo(b)) \in Nat
  BY <1>1, FS_CardinalityType
<1>3. \A q \in Refs : ref'[q] = IF q = r THEN new ELSE ref[q]
  BY DEF Types
<1>4. CASE new = b
  <2>1. RefsTo(b)' = RefsTo(b) \cup {r} /\ r \notin RefsTo(b)
    BY <1>3, <1>4 DEF RefsTo
  <2> QED
    BY <1>1, <1>2, <1>4, <2>1, FS_AddElement
<1>5. CASE new # b /\ ref[r] = b
  <2>1. RefsTo(b)' = RefsTo(b) \ {r} /\ r \in RefsTo(b)
    BY <1>3, <1>5 DEF RefsTo
  <2>2. Cardinality(RefsTo(b) \ {r}) = Cardinality(RefsTo(b)) - 1
    BY <1>1, <2>1, FS_RemoveElement
  <2> QED
    BY <1>2, <1>5, <2>1, <2>2
<1>6. CASE new # b /\ ref[r] # b
  <2>1. RefsTo(b)' = RefsTo(b)
    BY <1>3, <1>6 DEF RefsTo
  <2> QED
    BY <1>2, <1>6, <2>1
<1> QED
  BY <1>4, <1>5, <1>6

\* What a count of zero, of one, or of more says.
LEMMA CountMeans ==
  ASSUME RefsInv, NEW b \in Bufs
  PROVE  /\ refcount[b] > 0 <=> Copied(b) \/ ~NoRefTo(b)
         /\ \A r \in Refs : ref[r] = b => ~Copied(b) /\ refcount[b] = Cardinality(RefsTo(b))
         /\ \A r \in Refs : ref[r] = b /\ refcount[b] = 1 => OnlyRefTo(b, r)
         /\ Cardinality(RefsTo(b)) \in Nat /\ refcount[b] \in Nat
         /\ NoRefTo(b) <=> Cardinality(RefsTo(b)) = 0
         /\ Copied(b) => NoRefTo(b) /\ refcount[b] = 1
         /\ data[b] = Null => NoRefTo(b) /\ ~Copied(b)
<1>1. IsFiniteSet(RefsTo(b))
  <2>1. RefsTo(b) \in SUBSET Refs
    BY DEF RefsTo
  <2> QED
    BY <2>1, FiniteAssumption, FS_Subset
<1>2. Cardinality(RefsTo(b)) \in Nat /\ refcount[b] \in Nat
  BY <1>1, FS_CardinalityType DEF RefsInv, Types
<1>3. NoRefTo(b) <=> Cardinality(RefsTo(b)) = 0
  <2>1. NoRefTo(b) <=> RefsTo(b) = {}
    BY DEF NoRefTo, RefsTo
  <2> QED
    BY <1>1, <2>1, FS_EmptySet
<1>4. refcount[b] = IF Copied(b) THEN 1 ELSE Cardinality(RefsTo(b))
  BY DEF RefsInv, Counts
<1>5. Copied(b) => NoRefTo(b)
  BY DEF Copied, RefsInv, Role
<1>6. ASSUME NEW r \in Refs, ref[r] = b
      PROVE  ~Copied(b) /\ refcount[b] = Cardinality(RefsTo(b))
  BY <1>4, <1>5, <1>6 DEF NoRefTo
<1>7. ASSUME NEW r \in Refs, ref[r] = b, refcount[b] = 1
      PROVE  OnlyRefTo(b, r)
  <2>1. Cardinality(RefsTo(b)) = 1
    BY <1>6, <1>7
  <2>2. PICK x : RefsTo(b) = {x}
    BY <1>1, <2>1, FS_Singleton
  <2> QED
    BY <1>7, <2>2 DEF RefsTo, OnlyRefTo
<1>8. data[b] = Null => NoRefTo(b)
  BY NullAssumption DEF RefsInv, Counts, NoRefTo
<1>9. data[b] = Null => ~Copied(b)
  BY NullAssumption DEF RefsInv, Role, Copied
<1> QED
  BY <1>2, <1>3, <1>4, <1>5, <1>6, <1>7, <1>8, <1>9

\* A thread alone goes on: what it may rely on at its new point, the others keep.
LEMMA ThreadStep ==
  ASSUME RefsInv, NEW t \in Threads, NEW label \in {"out", "got", "free", "pushed", "write",
         "copy"}, NEW r \in Refs \cup {Null}, NEW b \in Bufs \cup {Null}, Goto(t, label, r, b)
  PROVE  /\ pc' \in [Threads -> {"out", "got", "free", "pushed", "write", "copy"}]
         /\ using' \in [Threads -> Refs \cup {Null}]
         /\ holding' \in [Threads -> Bufs \cup {Null}]
         /\ \A u \in Threads : u # t => /\ pc'[u] = pc[u] /\ using'[u] = using[u]
                                        /\ holding'[u] = holding[u]
         /\ pc'[t] = label /\ using'[t] = r /\ holding'[t] = b
BY DEF Goto, RefsInv, Types

-----------------------------------------------------------------------------
\* av_buffer_alloc and av_buffer_pool_get: a new AVBuffer with its AVBufferRef.
LEMMA NewBufferStep ==
  ASSUME RefsInv, NEW t \in Threads, pc[t] = "out", NEW r \in NewRef, NEW b \in NewBuf,
         NEW d \in Blocks,
         Create(b, d), ref' = [ref EXCEPT ![r] = b], list' \in Seq(Blocks),
         UNCHANGED <<pc, using, holding>> \/ Goto(t, "got", r, b)
  PROVE  RefsInv'
<1>1. /\ r \in Refs /\ ref[r] = Null /\ b \in Bufs /\ data[b] = Null /\ b # Null /\ d # Null
      /\ using[t] = Null /\ holding[t] = Null /\ r # Null
  BY NullAssumption DEF NewRef, NewBuf, RefsInv, Role
<1>2. NoRefTo(b) /\ ~Copied(b) /\ Cardinality(RefsTo(b)) = 0
  BY <1>1, CountMeans
<1>3. /\ \A u \in Threads : holding[u] # b
      /\ \A u \in Threads : using[u] # Null /\ pc[u] # "got" => using[u] # r
  <2>1. \A u \in Threads : holding[u] # b
    BY <1>1 DEF RefsInv, Role
  <2> QED
    BY <1>1, <2>1 DEF RefsInv, Role, Types
<1>4. /\ ref' \in [Refs -> Bufs \cup {Null}]
      /\ \A q \in Refs : ref'[q] = IF q = r THEN b ELSE ref[q]
      /\ refcount' \in [Bufs -> Nat] /\ data' \in [Bufs -> Blocks \cup {Null}]
      /\ \A c \in Bufs : /\ refcount'[c] = IF c = b THEN 1 ELSE refcount[c]
                         /\ data'[c] = IF c = b THEN d ELSE data[c]
  BY <1>1 DEF RefsInv, Types, Create
<1>5. \A u \in Threads : using[u] # r
  <2> SUFFICES ASSUME NEW u \in Threads, using[u] = r PROVE FALSE
    OBVIOUS
  <2>1. pc[u] = "got" /\ ref[r] = holding[u] /\ holding[u] # Null
    BY <1>1, <1>3 DEF RefsInv, Role, Types, OnlyRefTo
  <2> QED
    BY <1>1, <2>1
<1>6. /\ pc' \in [Threads -> {"out", "got", "free", "pushed", "write", "copy"}]
      /\ using' \in [Threads -> Refs \cup {Null}] /\ holding' \in [Threads -> Bufs \cup {Null}]
      /\ \A u \in Threads : u # t => pc'[u] = pc[u] /\ using'[u] = using[u] /\ holding'[u] = holding[u]
      /\ \/ pc'[t] = "out" /\ using'[t] = Null /\ holding'[t] = Null
         \/ pc'[t] = "got" /\ using'[t] = r /\ holding'[t] = b
  <2>1. CASE UNCHANGED <<pc, using, holding>>
    BY <1>1, <2>1 DEF RefsInv, Types
  <2>2. CASE Goto(t, "got", r, b)
    BY <1>1, <2>2, ThreadStep
  <2> QED
    BY <2>1, <2>2
<1>7. Types'
  BY <1>4, <1>6 DEF Types
<1>8. Apart'
  BY <1>3, <1>5, <1>6 DEF Apart, RefsInv
<1>9. ASSUME NEW u \in Threads PROVE Role(u)'
  <2>1. CASE u # t
    <3>1. Role(u) /\ pc'[u] = pc[u] /\ using'[u] = using[u] /\ holding'[u] = holding[u]
      BY <1>6, <2>1 DEF RefsInv
    <3>2. holding[u] # b /\ using[u] # r /\ using[u] \in Refs \cup {Null}
          /\ holding[u] \in Bufs \cup {Null}
      BY <1>3, <1>5 DEF RefsInv, Types
    <3>3. using[u] # Null => ref'[using[u]] = ref[using[u]]
      BY <1>4, <3>2
    <3>4. holding[u] # Null => data'[holding[u]] = data[holding[u]]
      BY <1>4, <3>2
    <3>5. pc[u] = "write" => ref[using[u]] # b
      BY <1>2, <3>1, <3>2 DEF Role, NoRefTo
    <3> QED
      BY <1>4, <3>1, <3>2, <3>3, <3>4, <3>5 DEF Role, NoRefTo, OnlyRefTo
  <2>2. CASE u = t
    <3>1. OnlyRefTo(b, r)'
      BY <1>2, <1>4 DEF OnlyRefTo, NoRefTo
    <3> QED
      BY <1>1, <1>4, <1>6, <2>2, <3>1 DEF Role, OnlyRefTo
  <2> QED
    BY <2>1, <2>2
<1>10. Counts'
  <2>1. ASSUME NEW c \in Bufs
        PROVE  refcount'[c] = IF Copied(c)' THEN 1 ELSE Cardinality(RefsTo(c)')
    <3>1. Copied(c)' = Copied(c)
      BY <1>1, <1>6 DEF Copied
    <3>2. /\ Cardinality(RefsTo(c)) \in Nat
          /\ Cardinality(RefsTo(c)') = Cardinality(RefsTo(c)) + (IF b = c THEN 1 ELSE 0)
      <4>1. b \in Bufs \cup {Null} /\ b # ref[r] /\ ref[r] # c /\ Types
        BY <1>1, NullAssumption DEF RefsInv
      <4>2. r \in Refs
        BY <1>1
      <4>3. ref' = [ref EXCEPT ![r] = b]
        OBVIOUS
      <4>4. /\ Cardinality(RefsTo(c)) \in Nat
            /\ Cardinality(RefsTo(c)') =
                  Cardinality(RefsTo(c)) + (IF b = c THEN 1 ELSE IF ref[r] = c THEN -1 ELSE 0)
        BY <4>1, <4>2, <4>3, RefMoved, Zenon
      <4> QED
        BY <4>1, <4>4
    <3> QED
      BY <1>2, <1>4, <3>1, <3>2 DEF RefsInv, Counts
  <2>2. \A q \in Refs : ref'[q] # Null => data'[ref'[q]] # Null
    BY <1>1, <1>4 DEF RefsInv, Counts, Types
  <2> QED
    BY <2>1, <2>2 DEF Counts
<1> QED
  BY <1>7, <1>8, <1>9, <1>10 DEF RefsInv

\* The end of av_buffer_pool_get, and writing to a buffer.
LEMMA OwnStep ==
  ASSUME RefsInv, UNCHANGED <<ref, refcount, data, list>>, NEW t \in Threads,
         \/ pc[t] \in {"got", "write"} /\ Goto(t, "out", Null, Null)
         \/ /\ pc[t] = "out"
            /\ \E r \in Usable : Writable(ref[r]) /\ Goto(t, "write", r, Null)
  PROVE  RefsInv'
<1>1. PICK label \in {"out", "write"}, r \in Refs \cup {Null} :
        /\ Goto(t, label, r, Null)
        /\ label = "out" => r = Null /\ pc[t] \in {"got", "write"}
        /\ label = "write" => r \in Usable /\ Writable(ref[r]) /\ pc[t] = "out"
  BY DEF Usable
<1>2. /\ pc' \in [Threads -> {"out", "got", "free", "pushed", "write", "copy"}]
      /\ using' \in [Threads -> Refs \cup {Null}]
      /\ holding' \in [Threads -> Bufs \cup {Null}]
      /\ \A u \in Threads : u # t => /\ pc'[u] = pc[u] /\ using'[u] = using[u]
                                     /\ holding'[u] = holding[u]
      /\ pc'[t] = label /\ using'[t] = r /\ holding'[t] = Null
  BY <1>1, ThreadStep
<1>3. Types'
  BY <1>2 DEF RefsInv, Types
<1>4. r # Null => ref[r] # Null /\ OnlyRefTo(ref[r], r) /\ \A u \in Threads : using[u] # r
  <2> SUFFICES ASSUME r # Null PROVE ref[r] # Null /\ OnlyRefTo(ref[r], r)
                                     /\ \A u \in Threads : using[u] # r
    OBVIOUS
  <2>1. r \in Refs /\ ref[r] \in Bufs /\ ref[r] # Null /\ refcount[ref[r]] = 1
        /\ \A u \in Threads : using[u] # r
    BY <1>1 DEF Usable, Writable, RefsInv, Types
  <2>2. OnlyRefTo(ref[r], r)
    BY <2>1, CountMeans
  <2> QED
    BY <2>1, <2>2
<1>5. Apart'
  BY <1>2, <1>4 DEF RefsInv, Apart
<1>6. ASSUME NEW u \in Threads PROVE Role(u)'
  <2>1. CASE u # t
    BY <1>2, <2>1 DEF RefsInv, Role, NoRefTo, OnlyRefTo
  <2>2. CASE u = t
    BY <1>1, <1>2, <1>4, <2>2, NullAssumption DEF Role, NoRefTo, OnlyRefTo, Usable
  <2> QED
    BY <2>1, <2>2
<1>7. \A c \in Bufs : Copied(c)' = Copied(c) /\ RefsTo(c)' = RefsTo(c)
  BY <1>1, <1>2 DEF Copied, RefsTo
<1>8. Counts'
  BY <1>7 DEF RefsInv, Counts
<1> QED
  BY <1>3, <1>5, <1>6, <1>8 DEF RefsInv

\* av_buffer_ref
LEMMA RefStep ==
  ASSUME RefsInv, NEW t \in Threads, Ref(t)
  PROVE  RefsInv'
<1>1. PICK r \in Usable, new \in NewRef :
        ref' = [ref EXCEPT ![new] = ref[r]] /\ AddRef(ref[r])
  BY DEF Ref
<1>2. /\ r \in Refs /\ new \in Refs /\ ref[new] = Null /\ ref[r] # Null /\ ref[r] \in Bufs
      /\ \A u \in Threads : using[u] # r
      /\ UNCHANGED <<data, list, pc, using, holding>>
  BY NullAssumption DEF Usable, NewRef, RefsInv, Types, Ref, poolVars
<1>3. /\ \A q \in Refs : ref'[q] = IF q = new THEN ref[r] ELSE ref[q]
      /\ ref' \in [Refs -> Bufs \cup {Null}]
      /\ \A c \in Bufs : refcount'[c] = IF c = ref[r] THEN refcount[c] + 1 ELSE refcount[c]
      /\ refcount' \in [Bufs -> Nat]
  BY <1>1, <1>2 DEF RefsInv, Types, AddRef
<1>4. Types' /\ Apart'
  BY <1>2, <1>3 DEF RefsInv, Types, Apart
<1>5. ASSUME NEW u \in Threads PROVE Role(u)'
  <2>1. holding[u] # Null => ref[r] # holding[u]
    BY <1>2 DEF RefsInv, Role, NoRefTo, OnlyRefTo, Types
  <2>2. pc[u] = "write" => ref[r] # ref[using[u]]
    BY <1>2 DEF RefsInv, Role, OnlyRefTo
  <2>3. pc[u] \in {"got", "copy", "write"} => using[u] \in Refs /\ using[u] # new
    BY <1>2 DEF RefsInv, Role, Types, OnlyRefTo
  <2> QED
    BY <1>2, <1>3, <2>1, <2>2, <2>3 DEF RefsInv, Role, NoRefTo, OnlyRefTo
<1>6. Counts'
  <2>1. ASSUME NEW c \in Bufs
        PROVE  refcount'[c] = IF Copied(c)' THEN 1 ELSE Cardinality(RefsTo(c)')
    <3>1. Copied(c)' = Copied(c)
      BY <1>2 DEF Copied
    <3>2. ref[r] \in Bufs \cup {Null} /\ ref[r] # ref[new] /\ ref[new] # c /\ Types
      BY <1>2, NullAssumption DEF RefsInv
    <3>3. /\ Cardinality(RefsTo(c)) \in Nat
          /\ Cardinality(RefsTo(c)') = Cardinality(RefsTo(c))
                + (IF ref[r] = c THEN 1 ELSE IF ref[new] = c THEN -1 ELSE 0)
      <4>1. new \in Refs /\ ref' = [ref EXCEPT ![new] = ref[r]]
        BY <1>1, <1>2
      <4> QED
        BY <3>2, <4>1, RefMoved, Zenon
    <3>4. ref[r] = c => ~Copied(c) /\ refcount[c] = Cardinality(RefsTo(c))
      BY <1>2, CountMeans
    <3> QED
      BY <1>3, <3>1, <3>2, <3>3, <3>4 DEF RefsInv, Counts
  <2>2. \A q \in Refs : ref'[q] # Null => data'[ref'[q]] # Null
    BY <1>2, <1>3 DEF RefsInv, Counts
  <2> QED
    BY <2>1, <2>2 DEF Counts
<1> QED
  BY <1>4, <1>5, <1>6 DEF RefsInv

\* A block is moved (av_buffer_realloc), or an AVBuffer is freed by the thread that
\* holds it and has found its count to be zero.
LEMMA DataStep ==
  ASSUME RefsInv, UNCHANGED <<ref, refcount>>, list' \in Seq(Blocks), NEW t \in Threads,
         \/ /\ UNCHANGED <<pc, using, holding>>
            /\ \E r \in Usable, d \in Blocks : data' = [data EXCEPT ![ref[r]] = d]
         \/ /\ pc[t] = "free" /\ pc' = [pc EXCEPT ![t] = "pushed"]
            /\ UNCHANGED <<data, using, holding>>
         \/ /\ pc[t] \in {"free", "pushed"} /\ Goto(t, "out", Null, Null)
            /\ data' = [data EXCEPT ![holding[t]] = Null]
  PROVE  RefsInv'
<1>1. /\ pc' \in [Threads -> {"out", "got", "free", "pushed", "write", "copy"}]
      /\ using' \in [Threads -> Refs \cup {Null}]
      /\ holding' \in [Threads -> Bufs \cup {Null}]
      /\ \A u \in Threads : u # t => /\ pc'[u] = pc[u] /\ using'[u] = using[u]
                                     /\ holding'[u] = holding[u]
      /\ \/ pc'[t] = pc[t] /\ using'[t] = using[t] /\ holding'[t] = holding[t]
         \/ /\ pc[t] = "free" /\ pc'[t] = "pushed" /\ using'[t] = using[t]
            /\ holding'[t] = holding[t]
         \/ /\ pc[t] \in {"free", "pushed"} /\ pc'[t] = "out" /\ using'[t] = Null
            /\ holding'[t] = Null
  BY DEF Goto, RefsInv, Types
<1>2. data' \in [Bufs -> Blocks \cup {Null}]
  BY NullAssumption DEF RefsInv, Types
<1>3. Types' /\ Apart'
  BY <1>1, <1>2 DEF RefsInv, Types, Apart
<1>4. \A c \in Bufs : data[c] # Null /\ data'[c] = Null =>
         pc[t] \in {"free", "pushed"} /\ holding[t] = c /\ pc'[t] = "out"
  BY <1>1, NullAssumption DEF RefsInv, Types, Goto
<1>5. ASSUME NEW u \in Threads PROVE Role(u)'
  <2>1. holding'[u] # Null => data'[holding'[u]] # Null
    BY <1>1, <1>4 DEF RefsInv, Role, Apart, Types
  <2> QED
    BY <1>1, <2>1 DEF RefsInv, Role, NoRefTo, OnlyRefTo
<1>6. \A c \in Bufs : Copied(c)' = Copied(c) /\ RefsTo(c)' = RefsTo(c)
  BY <1>1 DEF Copied, RefsTo
<1>7. \A q \in Refs : ref'[q] # Null => data'[ref'[q]] # Null
  BY <1>4 DEF RefsInv, Counts, Types, Role, NoRefTo
<1>8. Counts'
  BY <1>6, <1>7 DEF RefsInv, Counts
<1> QED
  BY <1>3, <1>5, <1>8 DEF RefsInv

\* The copy of av_buffer_make_writable: a new AVBuffer that has no AVBufferRef yet.
LEMMA CopyStep ==
  ASSUME RefsInv, NEW t \in Threads, pc[t] = "out", NEW r \in Usable, NEW b \in NewBuf,
         NEW d \in Blocks, Create(b, d), Goto(t, "copy", r, b), UNCHANGED <<ref, list>>
  PROVE  RefsInv'
<1>1. /\ r \in Refs /\ ref[r] # Null /\ b \in Bufs /\ data[b] = Null /\ b # Null /\ d # Null
      /\ r # Null /\ \A u \in Threads : using[u] # r
  BY NullAssumption DEF Usable, NewBuf
<1>2. NoRefTo(b) /\ ~Copied(b) /\ \A u \in Threads : holding[u] # b
  BY <1>1, CountMeans DEF RefsInv, Role
<1>3. /\ pc' \in [Threads -> {"out", "got", "free", "pushed", "write", "copy"}]
      /\ using' \in [Threads -> Refs \cup {Null}]
      /\ holding' \in [Threads -> Bufs \cup {Null}]
      /\ \A u \in Threads : u # t => /\ pc'[u] = pc[u] /\ using'[u] = using[u]
                                     /\ holding'[u] = holding[u]
      /\ pc'[t] = "copy" /\ using'[t] = r /\ holding'[t] = b
  BY <1>1, ThreadStep
<1>4. /\ refcount' \in [Bufs -> Nat] /\ data' \in [Bufs -> Blocks \cup {Null}]
      /\ \A c \in Bufs : /\ refcount'[c] = IF c = b THEN 1 ELSE refcount[c]
                         /\ data'[c] = IF c = b THEN d ELSE data[c]
  BY <1>1 DEF RefsInv, Types, Create
<1>5. Types' /\ Apart'
  BY <1>1, <1>2, <1>3, <1>4 DEF RefsInv, Types, Apart
<1>6. ASSUME NEW u \in Threads PROVE Role(u)'
  <2>1. CASE u # t
    BY <1>2, <1>3, <1>4, <2>1 DEF RefsInv, Types, Role, NoRefTo, OnlyRefTo
  <2>2. CASE u = t
    BY <1>1, <1>2, <1>3, <1>4, <2>2 DEF Role, NoRefTo
  <2> QED
    BY <2>1, <2>2
<1>7. /\ \A c \in Bufs : RefsTo(c)' = RefsTo(c)
      /\ \A c \in Bufs : Copied(c)' <=> Copied(c) \/ c = b
  <2>1. pc[t] # "copy"
    OBVIOUS
  <2> QED
    BY <1>2, <1>3, <2>1 DEF Copied, RefsTo
<1>8. ASSUME NEW c \in Bufs
      PROVE  refcount'[c] = IF Copied(c)' THEN 1 ELSE Cardinality(RefsTo(c)')
  <2>1. refcount[c] = IF Copied(c) THEN 1 ELSE Cardinality(RefsTo(c))
    BY DEF RefsInv, Counts
  <2>2. CASE c = b
    BY <1>4, <1>7, <2>2
  <2>3. CASE c # b
    BY <1>4, <1>7, <2>1, <2>3
  <2> QED
    BY <2>2, <2>3
<1>9. \A q \in Refs : ref'[q] # Null => data'[ref'[q]] # Null
  <2> SUFFICES ASSUME NEW q \in Refs, ref[q] # Null PROVE data'[ref[q]] # Null
    OBVIOUS
  <2>1. ref[q] \in Bufs /\ data[ref[q]] # Null
    BY DEF RefsInv, Types, Counts
  <2> QED
    BY <1>1, <1>4, <2>1
<1>10. Counts'
  BY <1>8, <1>9 DEF Counts
<1> QED
  BY <1>5, <1>6, <1>10 DEF RefsInv

\* What a reference that goes leaves behind.
LEMMA DropMeans ==
  ASSUME RefsInv, NEW t \in Threads, NEW b \in Bufs, Drop(t, b), refcount[b] > 0
  PROVE  /\ refcount' \in [Bufs -> Nat]
         /\ \A c \in Bufs : refcount'[c] = IF c = b THEN refcount[c] - 1 ELSE refcount[c]
         /\ pc' \in [Threads -> {"out", "got", "free", "pushed", "write", "copy"}]
         /\ using' \in [Threads -> Refs \cup {Null}]
         /\ holding' \in [Threads -> Bufs \cup {Null}]
         /\ \A u \in Threads : u # t => /\ pc'[u] = pc[u] /\ using'[u] = using[u]
                                        /\ holding'[u] = holding[u]
         /\ using'[t] = Null
         /\ IF refcount[b] = 1 THEN pc'[t] = "free" /\ holding'[t] = b
                               ELSE pc'[t] = "out" /\ holding'[t] = Null
<1>1. /\ refcount' = [refcount EXCEPT ![b] = refcount[b] - 1]
      /\ IF refcount[b] = 1 THEN Goto(t, "free", Null, b) ELSE Goto(t, "out", Null, Null)
  BY DEF Drop, Last
<1>2. /\ refcount' \in [Bufs -> Nat]
      /\ \A c \in Bufs : refcount'[c] = IF c = b THEN refcount[c] - 1 ELSE refcount[c]
  BY <1>1 DEF RefsInv, Types
<1>3. CASE refcount[b] = 1
  BY <1>1, <1>2, <1>3, ThreadStep
<1>4. CASE refcount[b] # 1
  BY <1>1, <1>2, <1>4, ThreadStep
<1> QED
  BY <1>3, <1>4

\* A reference to b goes: av_buffer_unref, or buffer_replace with the copy that the
\* thread holds.
LEMMA DropStep ==
  ASSUME RefsInv, NEW t \in Threads, NEW r \in Refs, NEW b \in Bufs, ref[r] = b,
         NEW new \in Bufs \cup {Null}, ref' = [ref EXCEPT ![r] = new], Drop(t, b),
         UNCHANGED <<data, list>>, \A u \in Threads : u # t => using[u] # r,
         \/ pc[t] = "out" /\ new = Null
         \/ pc[t] = "copy" /\ using[t] = r /\ new = holding[t]
  PROVE  RefsInv'
<1>1. /\ b # Null /\ data[b] # Null /\ new # b
      /\ new # Null => /\ pc[t] = "copy" /\ holding[t] = new /\ NoRefTo(new)
                       /\ data[new] # Null
  BY NullAssumption DEF RefsInv, Role, Counts, NoRefTo
<1>2. ~Copied(b) /\ refcount[b] = Cardinality(RefsTo(b)) /\ refcount[b] > 0
  BY <1>1, CountMeans DEF NoRefTo
<1>3. refcount[b] = 1 => OnlyRefTo(b, r)
  BY CountMeans
<1>4. /\ \A q \in Refs : ref'[q] = IF q = r THEN new ELSE ref[q]
      /\ ref' \in [Refs -> Bufs \cup {Null}]
  BY DEF RefsInv, Types
<1>5. /\ refcount' \in [Bufs -> Nat]
      /\ \A c \in Bufs : refcount'[c] = IF c = b THEN refcount[c] - 1 ELSE refcount[c]
      /\ pc' \in [Threads -> {"out", "got", "free", "pushed", "write", "copy"}]
      /\ using' \in [Threads -> Refs \cup {Null}]
      /\ holding' \in [Threads -> Bufs \cup {Null}]
      /\ \A u \in Threads : u # t => /\ pc'[u] = pc[u] /\ using'[u] = using[u]
                                     /\ holding'[u] = holding[u]
      /\ using'[t] = Null
      /\ IF refcount[b] = 1 THEN pc'[t] = "free" /\ holding'[t] = b
                            ELSE pc'[t] = "out" /\ holding'[t] = Null
  BY <1>2, DropMeans
<1>6. \A u \in Threads : u # t => holding[u] # b /\ (new # Null => holding[u] # new)
  BY <1>1 DEF RefsInv, Role, Types, NoRefTo, OnlyRefTo, Apart
<1>7. Types'
  BY <1>4, <1>5 DEF RefsInv, Types
<1>8. Apart'
  BY <1>5, <1>6 DEF RefsInv, Apart
<1>9. ASSUME NEW u \in Threads PROVE Role(u)'
  <2>1. CASE u # t
    <3>1. Role(u) /\ pc'[u] = pc[u] /\ using'[u] = using[u] /\ holding'[u] = holding[u]
      BY <1>5, <2>1 DEF RefsInv
    <3>2. using[u] # r /\ using[u] \in Refs \cup {Null} /\ holding[u] # b
          /\ (holding[u] # Null => holding[u] # new)
      BY <1>6, <2>1 DEF RefsInv, Types
    <3>3. using[u] # Null => using[u] \in Refs /\ ref'[using[u]] = ref[using[u]]
      BY <1>4, <3>2
    <3>4. pc[u] = "write" => ref[using[u]] # b /\ ref[using[u]] # new
      BY <1>1, <3>1, <3>2, <3>3 DEF Role, OnlyRefTo, NoRefTo
    <3> QED
      BY <1>4, <3>1, <3>2, <3>3, <3>4 DEF Role, NoRefTo, OnlyRefTo
  <2>2. CASE u = t
    <3>1. refcount[b] = 1 => \A q \in Refs : ref'[q] # b
      BY <1>1, <1>3, <1>4 DEF OnlyRefTo
    <3> QED
      BY <1>1, <1>5, <2>2, <3>1 DEF Role, NoRefTo
  <2> QED
    BY <2>1, <2>2
<1>10. ASSUME NEW c \in Bufs
       PROVE  refcount'[c] = IF Copied(c)' THEN 1 ELSE Cardinality(RefsTo(c)')
  <2>1. Copied(c)' <=> Copied(c) /\ c # new
    <3>1. c # Null /\ pc'[t] # "copy" /\ (pc[t] = "copy" => holding[t] = new)
      BY <1>5, NullAssumption
    <3>2. ASSUME NEW u \in Threads, pc'[u] = "copy", holding'[u] = c
          PROVE  Copied(c) /\ c # new
      BY <1>5, <1>6, <3>1, <3>2 DEF Copied
    <3>3. ASSUME NEW u \in Threads, pc[u] = "copy", holding[u] = c, c # new
          PROVE  Copied(c)'
      BY <1>5, <3>1, <3>3 DEF Copied
    <3> QED
      BY <3>2, <3>3 DEF Copied
  <2>2. /\ Cardinality(RefsTo(c)) \in Nat
        /\ Cardinality(RefsTo(c)') = Cardinality(RefsTo(c))
              + (IF new = c THEN 1 ELSE IF ref[r] = c THEN -1 ELSE 0)
    BY <1>1, RefMoved DEF RefsInv
  <2>3. refcount[c] = IF Copied(c) THEN 1 ELSE Cardinality(RefsTo(c))
    BY DEF RefsInv, Counts
  <2>4. CASE c = b
    BY <1>1, <1>2, <1>5, <2>1, <2>2, <2>4
  <2>5. CASE c = new
    <3>1. Copied(c) /\ refcount[c] = 1
      BY <1>1, <2>3, <2>5, NullAssumption DEF Copied
    <3>2. Cardinality(RefsTo(c)) = 0
      BY <3>1, CountMeans
    <3> QED
      BY <1>1, <1>5, <2>1, <2>2, <2>5, <3>1, <3>2
  <2>6. CASE c # b /\ c # new
    BY <1>5, <2>1, <2>2, <2>3, <2>6
  <2> QED
    BY <2>4, <2>5, <2>6
<1>11. \A q \in Refs : ref'[q] # Null => data'[ref'[q]] # Null
  BY <1>1, <1>4 DEF RefsInv, Counts
<1>12. Counts'
  BY <1>10, <1>11 DEF Counts
<1> QED
  BY <1>7, <1>8, <1>9, <1>12 DEF RefsInv

-----------------------------------------------------------------------------
\* The list stays a sequence of blocks.
LEMMA ListTyped ==
  ASSUME RefsInv, NEW t \in Threads,
         PoolGet(t) \/ FreeData(t) \/ Pushed(t) \/ Uninit(t)
  PROVE  list' \in Seq(Blocks)
<1>1. list \in Seq(Blocks)
  BY DEF RefsInv, Types
<1>2. CASE PoolGet(t)
  BY <1>1, <1>2 DEF PoolGet, Pop
<1>3. CASE FreeData(t)
  <2>1. pc[t] = "free" /\ holding[t] \in Bufs /\ data[holding[t]] \in Blocks
    BY <1>3 DEF FreeData, RefsInv, Types, Role
  <2>2. PICK d \in Blocks : list' = <<d>> \o list \/ list' = list
    BY <1>3, <2>1 DEF FreeData
  <2>3. <<d>> \in Seq(Blocks)
    OBVIOUS
  <2>4. <<d>> \o list \in Seq(Blocks)
    BY <1>1, <2>3, ConcatProperties
  <2> QED
    BY <1>1, <2>2, <2>4
<1>4. CASE Pushed(t) \/ Uninit(t)
  <2>1. list' = <<>> \/ list' = list
    BY <1>4 DEF Pushed, Uninit, DropPool
  <2>2. <<>> \in Seq(Blocks)
    OBVIOUS
  <2> QED
    BY <1>1, <2>1, <2>2
<1> QED
  BY <1>2, <1>3, <1>4

\* A step of the pool alone.
LEMMA OthersStep ==
  ASSUME RefsInv, list' \in Seq(Blocks), UNCHANGED <<ref, refcount, data, pc, using, holding>>
  PROVE  RefsInv'
<1>1. /\ ref' = ref /\ refcount' = refcount /\ data' = data
      /\ pc' = pc /\ using' = using /\ holding' = holding
  OBVIOUS
<1>2. Types' /\ Apart'
  BY <1>1 DEF RefsInv, Types, Apart
<1>3. ASSUME NEW u \in Threads PROVE Role(u)'
  BY <1>1 DEF RefsInv, Role, NoRefTo, OnlyRefTo
<1>4. \A c \in Bufs : Copied(c)' = Copied(c) /\ RefsTo(c)' = RefsTo(c)
  BY <1>1 DEF Copied, RefsTo
<1>5. Counts'
  BY <1>1, <1>4 DEF RefsInv, Counts
<1> QED
  BY <1>2, <1>3, <1>5 DEF RefsInv

\* The references stay right: every step is one of the above.
LEMMA RefsStep ==
  RefsInv /\ [Next]_vars => RefsInv'
<1> SUFFICES ASSUME RefsInv, [Next]_vars PROVE RefsInv'
  OBVIOUS
<1> USE DEF poolVars
<1>1. CASE UNCHANGED vars
  <2>1. list' \in Seq(Blocks) /\ UNCHANGED <<ref, refcount, data, pc, using, holding>>
    BY <1>1 DEF vars, RefsInv, Types
  <2> QED
    BY <2>1, OthersStep
<1>2. ASSUME NEW t \in Threads, Alloc(t) PROVE RefsInv'
  <2>1. PICK r \in NewRef, b \in NewBuf, d \in NewBlock :
          Create(b, d) /\ ref' = [ref EXCEPT ![r] = b]
    BY <1>2 DEF Alloc
  <2>2. d \in Blocks /\ pc[t] = "out" /\ list' \in Seq(Blocks) /\ UNCHANGED <<pc, using, holding>>
    BY <1>2 DEF Alloc, NewBlock, RefsInv, Types
  <2> QED
    BY <2>1, <2>2, NewBufferStep
<1>3. ASSUME NEW t \in Threads, PoolGet(t) PROVE RefsInv'
  <2>1. PICK r \in NewRef, b \in NewBuf :
          /\ ref' = [ref EXCEPT ![r] = b] /\ Goto(t, "got", r, b)
          /\ \/ list # <<>> /\ Create(b, Head(list))
             \/ \E d \in NewBlock : Create(b, d)
    BY <1>3 DEF PoolGet
  <2>2. PICK d \in Blocks : Create(b, d)
    BY <2>1 DEF NewBlock, RefsInv, Types
  <2>3. pc[t] = "out" /\ list' \in Seq(Blocks)
    BY <1>3, ListTyped DEF PoolGet
  <2> QED
    BY <2>1, <2>2, <2>3, NewBufferStep
<1>4. ASSUME NEW t \in Threads, PoolGot(t) \/ StartWrite(t) \/ EndWrite(t) PROVE RefsInv'
  <2>1. UNCHANGED <<ref, refcount, data, list>>
    BY <1>4 DEF PoolGot, StartWrite, EndWrite
  <2>2. \/ pc[t] \in {"got", "write"} /\ Goto(t, "out", Null, Null)
        \/ /\ pc[t] = "out"
           /\ \E r \in Usable : Writable(ref[r]) /\ Goto(t, "write", r, Null)
    BY <1>4 DEF PoolGot, StartWrite, EndWrite
  <2> QED
    BY <2>1, <2>2, OwnStep
<1>5. ASSUME NEW t \in Threads, Ref(t) PROVE RefsInv'
  BY <1>5, RefStep
<1>6. ASSUME NEW t \in Threads, Unref(t) PROVE RefsInv'
  <2>1. PICK r \in Usable : ref' = [ref EXCEPT ![r] = Null] /\ Drop(t, ref[r])
    BY <1>6 DEF Unref
  <2>2. r \in Refs /\ ref[r] \in Bufs /\ Null \in Bufs \cup {Null}
        /\ pc[t] = "out" /\ UNCHANGED <<data, list>> /\ \A u \in Threads : using[u] # r
    BY <1>6 DEF Unref, Usable, RefsInv, Types
  <2> QED
    BY <2>1, <2>2, DropStep
<1>7. ASSUME NEW t \in Threads, Replace(t) PROVE RefsInv'
  <2>1. /\ pc[t] = "copy" /\ using[t] \in Refs /\ holding[t] \in Bufs \cup {Null}
        /\ ref[using[t]] \in Bufs /\ UNCHANGED <<data, list>>
        /\ \A u \in Threads : u # t => using[u] # using[t]
    BY <1>7 DEF Replace, RefsInv, Types, Role, Apart
  <2>2. ref' = [ref EXCEPT ![using[t]] = holding[t]] /\ Drop(t, ref[using[t]])
    BY <1>7 DEF Replace
  <2> QED
    BY <2>1, <2>2, DropStep
<1>8. ASSUME NEW t \in Threads, FreeData(t) \/ Pushed(t) PROVE RefsInv'
  <2>1. list' \in Seq(Blocks) /\ UNCHANGED <<ref, refcount>>
    BY <1>8, ListTyped DEF FreeData, Pushed
  <2>2. \/ /\ pc[t] = "free" /\ pc' = [pc EXCEPT ![t] = "pushed"]
           /\ UNCHANGED <<data, using, holding>>
        \/ /\ pc[t] \in {"free", "pushed"} /\ Goto(t, "out", Null, Null)
           /\ data' = [data EXCEPT ![holding[t]] = Null]
    BY <1>8 DEF FreeData, Pushed
  <2> QED
    BY <2>1, <2>2, DataStep
<1>9. ASSUME NEW t \in Threads, Uninit(t) PROVE RefsInv'
  <2>1. list' \in Seq(Blocks) /\ UNCHANGED <<ref, refcount, data, pc, using, holding>>
    BY <1>9, ListTyped DEF Uninit
  <2> QED
    BY <2>1, OthersStep
<1>10. ASSUME NEW t \in Threads, Reallocate(t) PROVE RefsInv'
  <2>1. PICK r \in Usable, d \in Blocks : data' = [data EXCEPT ![ref[r]] = d]
    BY <1>10 DEF Reallocate, NewBlock
  <2>2. list' \in Seq(Blocks) /\ UNCHANGED <<ref, refcount, pc, using, holding>>
    BY <1>10 DEF Reallocate, RefsInv, Types
  <2> QED
    BY <2>1, <2>2, DataStep
<1>11. ASSUME NEW t \in Threads, StartCopy(t) PROVE RefsInv'
  <2>1. PICK r \in Usable, b \in NewBuf, d \in Blocks : Create(b, d) /\ Goto(t, "copy", r, b)
    BY <1>11 DEF StartCopy, NewBlock
  <2>2. pc[t] = "out" /\ UNCHANGED <<ref, list>>
    BY <1>11 DEF StartCopy
  <2> QED
    BY <2>1, <2>2, CopyStep
<1> QED
  BY <1>1, <1>2, <1>3, <1>4, <1>5, <1>6, <1>7, <1>8, <1>9, <1>10, <1>11 DEF Next

LEMMA RefsInvariant == Spec => []RefsInv
<1>1. Init => RefsInv
  <2> SUFFICES ASSUME Init PROVE RefsInv
    OBVIOUS
  <2>1. Types /\ Apart /\ (\A t \in Threads : Role(t))
    BY DEF Init, Types, Apart, Role
  <2>2. ASSUME NEW b \in Bufs
        PROVE  refcount[b] = IF Copied(b) THEN 1 ELSE Cardinality(RefsTo(b))
    <3>1. RefsTo(b) = {} /\ ~Copied(b) /\ refcount[b] = 0
      BY NullAssumption DEF Init, RefsTo, Copied
    <3> QED
      BY <3>1, FS_EmptySet
  <2>3. Counts
    BY <2>2 DEF Counts, Init
  <2> QED
    BY <2>1, <2>3 DEF RefsInv
<1> QED
  BY <1>1, RefsStep, PTL DEF Spec

\* A reference count is the number of AVBufferRefs, although no lock is taken around
\* it: av_buffer_unref frees the buffer exactly when nobody refers to it any more.
THEOREM CountsAreReferences == Spec => []RefcountExact
<1>1. RefsInv => RefcountExact
  BY DEF RefsInv, Counts, RefcountExact, Copied, At
<1> QED
  BY <1>1, RefsInvariant, PTL

\* A buffer that av_buffer_make_writable leaves in place has no other reference while
\* it is written, and nobody copies from it.
THEOREM WritersAreAlone == Spec => []WriterAlone
<1>1. RefsInv => WriterAlone
  <2> SUFFICES ASSUME RefsInv, NEW t \in Threads, pc[t] = "write"
               PROVE  /\ RefsTo(ref[using[t]]) = {using[t]}
                      /\ \A u \in At("copy") : ref[using[u]] # ref[using[t]]
    BY DEF WriterAlone, At
  <2>1. using[t] \in Refs /\ using[t] # Null /\ OnlyRefTo(ref[using[t]], using[t])
    BY DEF RefsInv, Types, Role
  <2>2. RefsTo(ref[using[t]]) = {using[t]}
    BY <2>1 DEF RefsTo, OnlyRefTo
  <2>3. ASSUME NEW u \in Threads, pc[u] = "copy" PROVE ref[using[u]] # ref[using[t]]
    <3>1. using[u] \in Refs /\ using[u] # using[t]
      BY <2>1, <2>3 DEF RefsInv, Types, Role, Apart
    <3> QED
      BY <2>1, <3>1 DEF OnlyRefTo
  <2> QED
    BY <2>2, <2>3 DEF At
<1> QED
  BY <1>1, RefsInvariant, PTL

-----------------------------------------------------------------------------
Distinct == \A i, j \in DOMAIN list : list[i] = list[j] => i = j

\* A buffer that is taken exists with a pool, and one that was pushed is of it.
PoolUsers ==
    /\ \A t \in Threads : pc[t] = "got" => kind[data[holding[t]]] = "pool" /\ ppool = "set"
    /\ \A t \in Threads : pc[t] = "pushed" => kind[data[holding[t]]] = "pool"

\* OneOwner, by the set of the list's blocks.
Owners ==
    /\ \A b \in Live : data[b] # Null /\ kind[data[b]] # "none" /\ data[b] \notin ListSet
    /\ \A b, c \in Live : data[b] = data[c] => b = c
    /\ \A d \in ListSet : kind[d] = "pool"
    /\ Distinct

\* Every AVBuffer is in use or was pushed, every block is on the list or in use.
Accounted ==
    /\ \A b \in Bufs : data[b] # Null =>
          b \in Live \/ \E t \in Threads : pc[t] = "pushed" /\ holding[t] = b
    /\ \A d \in Blocks : kind[d] # "none" => d \in ListSet \/ \E b \in Live : data[b] = d

\* The pool's count, and what is left when the pool is gone.
PoolCount ==
    /\ poolcount = Cardinality(Out) + (IF ppool = "set" THEN 1 ELSE 0)
    /\ pool = "freed" => ppool = "null" /\ Out = {} /\ list = <<>>
    /\ pool = "allocated" => poolcount > 0

PoolTypes ==
    /\ kind \in [Blocks -> {"none", "default", "reallocatable", "pool"}]
    /\ poolcount \in Nat /\ ppool \in {"set", "null"} /\ pool \in {"allocated", "freed"}

PoolInv == PoolTypes /\ PoolUsers /\ Owners /\ Accounted /\ PoolCount

\* What the invariants say of one buffer.
LEMMA BufferMeans ==
  ASSUME RefsInv, PoolInv, NEW b \in Bufs
  PROVE  /\ data[b] # Null => data[b] \in Blocks /\ kind[data[b]] # "none"
         /\ \A c \in Bufs : data[b] # Null /\ data[c] = data[b] /\ kind[data[b]] # "pool" => b = c
         /\ b \in Live => data[b] # Null
         /\ \A t \in Threads : pc[t] = "pushed" /\ holding[t] = b =>
               b \notin Live /\ b \in Out /\ data[b] # Null
         /\ \A t \in Threads : pc[t] = "free" /\ holding[t] = b =>
               refcount[b] = 0 /\ b \in Live /\ \A u \in Threads : holding[u] = b => u = t
         /\ \A t \in Threads : pc[t] = "got" /\ holding[t] = b => b \in Live /\ b \notin Out
<1>1. data[b] # Null => data[b] \in Blocks /\ kind[data[b]] # "none"
  BY DEF RefsInv, Types, PoolInv, PoolUsers, Owners, Accounted
<1>2. ASSUME NEW c \in Bufs, data[b] # Null, data[c] = data[b], kind[data[b]] # "pool"
      PROVE  b = c
  <2>1. b \in Live /\ c \in Live
    BY <1>2 DEF PoolInv, Accounted, PoolUsers
  <2> QED
    BY <1>2, <2>1 DEF PoolInv, Owners
<1>3. b \in Live => data[b] # Null
  BY DEF PoolInv, Owners
<1>4. ASSUME NEW t \in Threads, pc[t] \in {"pushed", "free"}, holding[t] = b
      PROVE  refcount[b] = 0 /\ \A u \in Threads : holding[u] = b => u = t
  <2>1. NoRefTo(b) /\ \A u \in Threads : holding[u] = b => u = t
    BY <1>4, NullAssumption DEF RefsInv, Role, Apart
  <2>2. ~Copied(b)
    BY <1>4, <2>1 DEF Copied
  <2> QED
    BY <2>1, <2>2, CountMeans
<1>5. ASSUME NEW t \in Threads, pc[t] = "pushed", holding[t] = b
      PROVE  b \notin Live /\ b \in Out /\ data[b] # Null
  <2>1. refcount[b] = 0 /\ \A u \in Threads : holding[u] = b => u = t
    BY <1>4, <1>5
  <2>2. data[b] # Null /\ kind[data[b]] = "pool"
    BY <1>5, NullAssumption DEF RefsInv, Role, PoolInv, PoolUsers
  <2> QED
    BY <1>5, <2>1, <2>2 DEF Live, Out, At
<1>6. ASSUME NEW t \in Threads, pc[t] = "free", holding[t] = b PROVE b \in Live
  BY <1>6 DEF Live, At
<1>7. ASSUME NEW t \in Threads, pc[t] = "got", holding[t] = b PROVE b \in Live /\ b \notin Out
  <2>1. OnlyRefTo(b, using[t]) /\ using[t] \in Refs
    BY <1>7 DEF RefsInv, Role, Types
  <2>2. refcount[b] > 0
    BY <2>1, CountMeans DEF OnlyRefTo, NoRefTo
  <2> QED
    BY <1>7, <2>2 DEF Live, Out, At
<1> QED
  BY <1>1, <1>2, <1>3, <1>4, <1>5, <1>6, <1>7

LEMMA OutFinite == IsFiniteSet(Out) /\ Cardinality(Out) \in Nat
<1>1. Out \in SUBSET Bufs
  BY DEF Out
<1>2. IsFiniteSet(Out)
  BY <1>1, FiniteAssumption, FS_Subset
<1> QED
  BY <1>2, FS_CardinalityType

\* Steps that move references only.
LEMMA SameBlocks ==
  ASSUME RefsInv, PoolInv, Live' = Live, UNCHANGED <<data, kind, poolVars>>,
         \A u \in Threads : /\ pc'[u] = "got" <=> pc[u] = "got"
                            /\ pc'[u] = "pushed" <=> pc[u] = "pushed"
                            /\ pc[u] \in {"got", "pushed"} => holding'[u] = holding[u]
  PROVE  PoolInv'
<1>1. /\ data' = data /\ kind' = kind /\ list' = list /\ poolcount' = poolcount
      /\ ppool' = ppool /\ pool' = pool
  BY DEF poolVars
<1>2. ListSet' = ListSet /\ Distinct' = Distinct
  BY <1>1 DEF ListSet, Distinct
<1>3. Out' = Out
  BY <1>1 DEF Out, At
<1>4. PoolTypes' /\ PoolCount'
  BY <1>1, <1>3 DEF PoolInv, PoolTypes, PoolCount
<1>5. PoolUsers'
  BY <1>1 DEF PoolInv, PoolUsers
<1>6. Owners' /\ Accounted'
  BY <1>1, <1>2 DEF PoolInv, Owners, Accounted
<1> QED
  BY <1>4, <1>5, <1>6 DEF PoolInv

\* Counting up or down does not change which buffers are in use: the last reference
\* hands the buffer to the thread that frees it.
LEMMA ReferenceSteps ==
  ASSUME RefsInv, PoolInv, NEW t \in Threads,
         Ref(t) \/ Unref(t) \/ Replace(t) \/ StartWrite(t) \/ EndWrite(t)
  PROVE  PoolInv'
<1>1. UNCHANGED <<data, kind, poolVars>>
  BY DEF Ref, Unref, Replace, StartWrite, EndWrite, poolVars
<1>2. CASE Ref(t)
  <2>1. PICK b \in Bufs : b \in Live /\ refcount[b] > 0 /\ AddRef(b)
    <3>1. PICK r \in Usable : AddRef(ref[r])
      BY <1>2 DEF Ref
    <3>2. ref[r] \in Bufs /\ r \in Refs
      BY DEF Usable, RefsInv, Types
    <3>3. refcount[ref[r]] > 0
      BY <3>2, CountMeans DEF NoRefTo
    <3> QED
      BY <3>1, <3>2, <3>3 DEF Live
  <2>2. \A c \in Bufs : refcount'[c] = IF c = b THEN refcount[c] + 1 ELSE refcount[c]
    BY <2>1 DEF AddRef, RefsInv, Types
  <2>3. pc' = pc /\ holding' = holding
    BY <1>2 DEF Ref
  <2>4. Live' = Live
    BY <2>1, <2>2, <2>3 DEF Live, At, RefsInv, Types
  <2> QED
    BY <1>1, <2>3, <2>4, SameBlocks
<1>3. CASE Unref(t) \/ Replace(t)
  <2>1. PICK b \in Bufs : /\ Drop(t, b) /\ refcount[b] > 0 /\ pc[t] \in {"out", "copy"}
                          /\ \A u \in Threads : pc[u] = "free" => holding[u] # b
    <3>1. PICK r \in Refs : /\ ref[r] # Null /\ Drop(t, ref[r]) /\ pc[t] \in {"out", "copy"}
      <4>1. CASE Unref(t)
        BY <4>1 DEF Unref, Usable
      <4>2. CASE Replace(t)
        BY <4>2 DEF Replace, RefsInv, Types, Role
      <4> QED
        BY <1>3, <4>1, <4>2
    <3>2. ref[r] \in Bufs
      BY <3>1 DEF RefsInv, Types
    <3>3. refcount[ref[r]] > 0
      BY <3>2, CountMeans DEF NoRefTo
    <3>4. \A u \in Threads : pc[u] = "free" => holding[u] # ref[r]
      BY <3>2, <3>3, BufferMeans
    <3> QED
      BY <3>1, <3>2, <3>3, <3>4
  <2>2. /\ \A c \in Bufs : refcount'[c] = IF c = b THEN refcount[c] - 1 ELSE refcount[c]
        /\ \A u \in Threads : u # t => pc'[u] = pc[u] /\ holding'[u] = holding[u]
        /\ IF refcount[b] = 1 THEN pc'[t] = "free" /\ holding'[t] = b
                              ELSE pc'[t] = "out" /\ holding'[t] = Null
    BY <2>1, DropMeans
  <2>3. ASSUME NEW c \in Bufs PROVE c \in Live' <=> c \in Live
    <3>1. refcount[c] \in Nat
      BY DEF RefsInv, Types
    <3>2. CASE c = b
      <4>1. refcount[b] = 1 => \E u \in Threads : pc'[u] = "free" /\ holding'[u] = b
        BY <2>2
      <4> QED
        BY <2>1, <2>2, <3>1, <3>2, <4>1 DEF Live, At
    <3>3. CASE c # b
      <4>1. \A u \in Threads : (pc'[u] = "free" /\ holding'[u] = c) <=>
                                (pc[u] = "free" /\ holding[u] = c)
        BY <2>1, <2>2, <3>3, NullAssumption
      <4> QED
        BY <2>2, <3>3, <4>1 DEF Live, At
    <3> QED
      BY <3>2, <3>3
  <2>4. Live' = Live
    BY <2>3 DEF Live
  <2> QED
    BY <1>1, <2>1, <2>2, <2>4, SameBlocks
<1>4. CASE StartWrite(t) \/ EndWrite(t)
  <2>1. PICK label \in {"out", "write"}, r \in Refs \cup {Null} :
          Goto(t, label, r, Null) /\ pc[t] \in {"out", "write"}
    BY <1>4 DEF StartWrite, EndWrite, Usable
  <2>2. /\ \A u \in Threads : u # t => pc'[u] = pc[u] /\ holding'[u] = holding[u]
        /\ pc'[t] = label /\ refcount' = refcount
    BY <1>4, <2>1, ThreadStep DEF StartWrite, EndWrite
  <2>3. \A u \in Threads, c \in Bufs : (pc'[u] = "free" /\ holding'[u] = c) <=>
                                       (pc[u] = "free" /\ holding[u] = c)
    BY <2>1, <2>2
  <2>4. Live' = Live
    BY <2>2, <2>3 DEF Live, At
  <2> QED
    BY <1>1, <2>1, <2>2, <2>4, SameBlocks
<1> QED
  BY <1>2, <1>3, <1>4

\* The count of the pool goes up for a buffer that was taken before.
LEMMA PoolGotStep ==
  ASSUME RefsInv, PoolInv, NEW t \in Threads, PoolGot(t)
  PROVE  PoolInv'
<1> DEFINE b == holding[t]
<1>1. /\ data' = data /\ kind' = kind /\ list' = list /\ poolcount' = poolcount + 1
      /\ ppool' = ppool /\ pool' = pool /\ refcount' = refcount
      /\ pc[t] = "got" /\ b \in Bufs /\ kind[data[b]] = "pool" /\ ppool = "set"
      /\ data[b] # Null /\ \A u \in Threads : u # t => holding[u] # b
  BY NullAssumption
     DEF PoolGot, CountOut, RefsInv, Types, Role, Apart, PoolInv, PoolUsers
<1>2. /\ \A u \in Threads : u # t => pc'[u] = pc[u] /\ holding'[u] = holding[u]
      /\ pc'[t] = "out"
  BY ThreadStep DEF PoolGot
<1>3. ListSet' = ListSet /\ Distinct' = Distinct
  BY <1>1 DEF ListSet, Distinct
<1>4. Live' = Live
  BY <1>1, <1>2 DEF Live, At
<1>5. Out' = Out \cup {b} /\ b \notin Out
  <2> HIDE DEF b
  <2>1. b \notin Out
    BY <1>1 DEF Out, At, b
  <2>2. ASSUME NEW c \in Bufs PROVE c \in Out' <=> c \in Out \/ c = b
    <3>1. \A u \in Threads : (pc'[u] = "got" /\ holding'[u] = c) <=>
                              (pc[u] = "got" /\ holding[u] = c /\ c # b)
      BY <1>1, <1>2 DEF b
    <3> QED
      BY <1>1, <3>1 DEF Out, At
  <2> QED
    BY <1>1, <2>1, <2>2 DEF Out
<1>6. Cardinality(Out') = Cardinality(Out) + 1 /\ Cardinality(Out) \in Nat
  BY <1>5, OutFinite, FS_AddElement
<1>7. PoolTypes' /\ PoolCount'
  BY <1>1, <1>5, <1>6 DEF PoolInv, PoolTypes, PoolCount
<1>8. PoolUsers'
  BY <1>1, <1>2 DEF PoolInv, PoolUsers
<1>9. Owners'
  BY <1>1, <1>3, <1>4 DEF PoolInv, Owners
<1>10. Accounted'
  BY <1>1, <1>2, <1>3, <1>4 DEF PoolInv, Accounted
<1> QED
  BY <1>7, <1>8, <1>9, <1>10 DEF PoolInv

\* A new AVBuffer: for a new block, or for the head of the list.
LEMMA NewLive ==
  ASSUME RefsInv, PoolInv, NEW t \in Threads, pc[t] = "out", NEW b \in NewBuf, NEW d \in Blocks,
         Create(b, d),
         \/ pc' = pc /\ holding' = holding
         \/ \E r \in Refs, label \in {"got", "copy"} : Goto(t, label, r, b)
  PROVE  /\ b \in Bufs /\ data[b] = Null /\ d # Null /\ b \notin Live /\ Live' = Live \cup {b}
         /\ \A c \in Bufs : data'[c] = IF c = b THEN d ELSE data[c]
         /\ \A u \in Threads : holding[u] # b /\ (u # t => pc'[u] = pc[u] /\ holding'[u] = holding[u])
         /\ \/ pc'[t] = "out"
            \/ pc'[t] \in {"got", "copy"} /\ holding'[t] = b
<1>1. b \in Bufs /\ data[b] = Null /\ d # Null /\ b # Null /\ b \notin Live
  BY NullAssumption, BufferMeans DEF NewBuf
<1>2. \A u \in Threads : holding[u] # b
  BY <1>1 DEF RefsInv, Role
<1>3. \A c \in Bufs : /\ data'[c] = IF c = b THEN d ELSE data[c]
                      /\ refcount'[c] = IF c = b THEN 1 ELSE refcount[c]
  BY <1>1 DEF Create, RefsInv, Types
<1>4. /\ \A u \in Threads : u # t => pc'[u] = pc[u] /\ holding'[u] = holding[u]
      /\ \/ pc'[t] = "out"
         \/ pc'[t] \in {"got", "copy"} /\ holding'[t] = b
  BY <1>1 DEF Goto, RefsInv, Types
<1>5. ASSUME NEW c \in Bufs PROVE c \in Live' <=> c \in Live \/ c = b
  <2>1. \A u \in Threads : (pc'[u] = "free" /\ holding'[u] = c) <=>
                            (pc[u] = "free" /\ holding[u] = c)
    BY <1>4
  <2> QED
    BY <1>3, <2>1 DEF Live, At
<1>6. Live' = Live \cup {b}
  BY <1>1, <1>5 DEF Live
<1> QED
  BY <1>1, <1>2, <1>3, <1>4, <1>6

LEMMA NewBlockStep ==
  ASSUME RefsInv, PoolInv, NEW t \in Threads, pc[t] = "out", NEW b \in NewBuf, NEW d \in NewBlock,
         Create(b, d), NEW k \in {"default", "reallocatable", "pool"},
         kind' = [kind EXCEPT ![d] = k], UNCHANGED poolVars,
         \/ pc' = pc /\ holding' = holding
         \/ \E r \in Refs, label \in {"got", "copy"} : Goto(t, label, r, b),
         k = "pool" <=> pc'[t] = "got", k = "pool" => ppool = "set"
  PROVE  PoolInv'
<1>1. d \in Blocks /\ kind[d] = "none"
  BY DEF NewBlock
<1>2. /\ b \in Bufs /\ data[b] = Null /\ d # Null /\ b \notin Live /\ Live' = Live \cup {b}
      /\ \A c \in Bufs : data'[c] = IF c = b THEN d ELSE data[c]
      /\ \A u \in Threads : holding[u] # b /\ (u # t => pc'[u] = pc[u] /\ holding'[u] = holding[u])
      /\ \/ pc'[t] = "out"
         \/ pc'[t] \in {"got", "copy"} /\ holding'[t] = b
  BY <1>1, NewLive
<1>3. /\ \A e \in Blocks : kind'[e] = IF e = d THEN k ELSE kind[e]
      /\ PoolTypes' /\ list' = list /\ ppool' = ppool /\ pool' = pool /\ poolcount' = poolcount
  BY <1>1 DEF PoolInv, PoolTypes, poolVars
<1>4. ListSet' = ListSet /\ Distinct' = Distinct
  BY <1>3 DEF ListSet, Distinct
<1>5. \A c \in Bufs : data[c] # Null => data[c] \in Blocks /\ data[c] # d /\ kind[data[c]] # "none"
  BY <1>1, BufferMeans
<1>6. Out' = Out
  <2>1. ASSUME NEW c \in Bufs PROVE c \in Out' <=> c \in Out
    <3>1. CASE c = b
      <4>1. data[c] = Null /\ data'[c] = d /\ kind'[d] = k
        BY <1>1, <1>2, <1>3, <3>1
      <4>2. CASE k = "pool"
        BY <1>2, <3>1, <4>1, <4>2 DEF Out, At
      <4>3. CASE k # "pool"
        BY <3>1, <4>1, <4>3 DEF Out
      <4> QED
        BY <4>2, <4>3
    <3>2. CASE c # b
      <4>1. data'[c] = data[c] /\ (data[c] # Null => kind'[data[c]] = kind[data[c]])
        BY <1>2, <1>3, <1>5, <3>2
      <4>2. \A u \in Threads : (pc'[u] = "got" /\ holding'[u] = c) <=>
                                (pc[u] = "got" /\ holding[u] = c)
        BY <1>2, <3>2
      <4> QED
        BY <4>1, <4>2 DEF Out, At
    <3> QED
      BY <3>1, <3>2
  <2> QED
    BY <2>1 DEF Out
<1>7. PoolCount'
  BY <1>3, <1>6 DEF PoolInv, PoolCount
<1>8. PoolUsers'
  <2>1. ASSUME NEW u \in Threads, pc'[u] \in {"got", "pushed"}
        PROVE  kind'[data'[holding'[u]]] = "pool" /\ (pc'[u] = "got" => ppool' = "set")
    <3>1. CASE u = t
      BY <1>1, <1>2, <1>3, <2>1, <3>1
    <3>2. CASE u # t
      <4>1. pc'[u] = pc[u] /\ holding'[u] = holding[u] /\ holding[u] # b /\ holding[u] \in Bufs
            /\ data[holding[u]] # Null
        BY <1>2, <2>1, <3>2 DEF RefsInv, Role, Types
      <4> QED
        BY <1>2, <1>3, <1>5, <2>1, <4>1 DEF PoolInv, PoolUsers
    <3> QED
      BY <3>1, <3>2
  <2> QED
    BY <2>1 DEF PoolUsers
<1>9. Owners'
  <2>1. d \notin ListSet /\ \A e \in ListSet : e \in Blocks
    BY <1>1 DEF PoolInv, Owners, ListSet, RefsInv, Types
  <2>2. \A c \in Live' : c \in Bufs
    BY DEF Live
  <2>3. \A c \in Live : c \in Bufs /\ c # b
    BY <1>2 DEF Live
  <2>4. k # "none"
    OBVIOUS
  <2> QED
    BY <1>1, <1>2, <1>3, <1>4, <1>5, <2>1, <2>2, <2>3, <2>4 DEF PoolInv, Owners
<1>10. Accounted'
  <2>1. ASSUME NEW c \in Bufs, data'[c] # Null
        PROVE  c \in Live' \/ \E u \in Threads : pc'[u] = "pushed" /\ holding'[u] = c
    BY <1>2, <2>1 DEF PoolInv, Accounted
  <2>2. ASSUME NEW e \in Blocks, kind'[e] # "none"
        PROVE  e \in ListSet' \/ \E c \in Live' : data'[c] = e
    BY <1>2, <1>3, <1>4, <2>2 DEF PoolInv, Accounted, Live
  <2> QED
    BY <2>1, <2>2 DEF Accounted
<1> QED
  BY <1>3, <1>7, <1>8, <1>9, <1>10 DEF PoolInv

\* The list without its head, and with a block in front.
LEMMA ListPopped ==
  ASSUME list \in Seq(Blocks), list # <<>>, Distinct, list' = Tail(list)
  PROVE  /\ Head(list) \in ListSet /\ Head(list) \in Blocks
         /\ ListSet' = ListSet \ {Head(list)} /\ Distinct'
<1>1. /\ Len(list) \in Nat /\ Len(list) > 0 /\ DOMAIN list = 1 .. Len(list)
      /\ Head(list) = list[1] /\ Len(list') = Len(list) - 1
      /\ DOMAIN list' = 1 .. (Len(list) - 1)
      /\ \A i \in 1 .. (Len(list) - 1) : list'[i] = list[i + 1]
      /\ \A i \in 1 .. Len(list) : list[i] \in Blocks
  OBVIOUS
<1>2. \A i \in 1 .. Len(list) : list[i] = list[1] => i = 1
  BY <1>1 DEF Distinct
<1>3. ASSUME NEW e \in ListSet, e # Head(list) PROVE e \in ListSet'
  <2>1. PICK i \in 1 .. Len(list) : e = list[i]
    BY <1>1 DEF ListSet
  <2>2. i # 1 /\ i - 1 \in 1 .. (Len(list) - 1)
    BY <1>1, <1>3, <2>1
  <2>3. list'[i - 1] = e
    BY <1>1, <2>1, <2>2
  <2> QED
    BY <1>1, <2>2, <2>3 DEF ListSet
<1>4. ASSUME NEW e \in ListSet' PROVE e \in ListSet /\ e # Head(list)
  <2>1. PICK i \in 1 .. (Len(list) - 1) : e = list'[i]
    BY <1>1 DEF ListSet
  <2>2. i + 1 \in 1 .. Len(list) /\ i + 1 # 1 /\ e = list[i + 1]
    BY <1>1, <2>1
  <2> QED
    BY <1>1, <1>2, <2>2 DEF ListSet
<1>5. Distinct'
  <2> SUFFICES ASSUME NEW i \in 1 .. (Len(list) - 1), NEW j \in 1 .. (Len(list) - 1),
                      list'[i] = list'[j]
               PROVE  i = j
    BY <1>1 DEF Distinct
  <2>1. i + 1 \in 1 .. Len(list) /\ j + 1 \in 1 .. Len(list) /\ list[i + 1] = list[j + 1]
    BY <1>1
  <2>2. i + 1 = j + 1
    BY <1>1, <2>1 DEF Distinct
  <2> QED
    BY <1>1, <2>2
<1>6. Head(list) \in ListSet /\ Head(list) \in Blocks
  BY <1>1 DEF ListSet
<1>7. ListSet' = ListSet \ {Head(list)}
  BY <1>3, <1>4
<1> QED
  BY <1>5, <1>6, <1>7

LEMMA ListPushed ==
  ASSUME list \in Seq(Blocks), Distinct, NEW d \in Blocks, d \notin ListSet,
         list' = <<d>> \o list
  PROVE  ListSet' = ListSet \cup {d} /\ Distinct'
<1>1. /\ Len(list) \in Nat /\ DOMAIN list = 1 .. Len(list)
      /\ Len(list') = Len(list) + 1 /\ DOMAIN list' = 1 .. (Len(list) + 1)
      /\ list'[1] = d
      /\ \A i \in 2 .. (Len(list) + 1) : list'[i] = list[i - 1]
  <2>1. <<d>> \in Seq(Blocks) /\ Len(<<d>>) = 1 /\ <<d>>[1] = d
    OBVIOUS
  <2> QED
    BY <2>1
<1>2. ASSUME NEW e \in ListSet PROVE e \in ListSet'
  <2>1. PICK i \in 1 .. Len(list) : e = list[i]
    BY <1>1 DEF ListSet
  <2>2. i + 1 \in 2 .. (Len(list) + 1) /\ i + 1 \in 1 .. (Len(list) + 1) /\ (i + 1) - 1 = i
    BY <1>1
  <2>3. list'[i + 1] = e
    BY <1>1, <2>1, <2>2
  <2> QED
    BY <1>1, <2>2, <2>3 DEF ListSet
<1>3. ASSUME NEW e \in ListSet', e # d PROVE e \in ListSet
  <2>1. PICK i \in 1 .. (Len(list) + 1) : e = list'[i]
    BY <1>1 DEF ListSet
  <2>2. i \in 2 .. (Len(list) + 1) /\ i - 1 \in 1 .. Len(list)
    BY <1>1, <1>3, <2>1
  <2> QED
    BY <1>1, <2>1, <2>2 DEF ListSet
<1>4. d \in ListSet'
  BY <1>1 DEF ListSet
<1>5. \A i \in 1 .. Len(list) : list[i] # d
  BY <1>1 DEF ListSet
<1>6. Distinct'
  <2> SUFFICES ASSUME NEW i \in 1 .. (Len(list) + 1), NEW j \in 1 .. (Len(list) + 1),
                      list'[i] = list'[j]
               PROVE  i = j
    BY <1>1 DEF Distinct
  <2>1. CASE i = 1 \/ j = 1
    <3>1. \A m \in 2 .. (Len(list) + 1) : list'[m] # d
      <4> SUFFICES ASSUME NEW m \in 2 .. (Len(list) + 1) PROVE list'[m] # d
        OBVIOUS
      <4>1. m - 1 \in 1 .. Len(list)
        BY <1>1
      <4> QED
        BY <1>1, <1>5, <4>1
    <3> QED
      BY <1>1, <2>1, <3>1
  <2>2. CASE i # 1 /\ j # 1
    <3>1. i - 1 \in 1 .. Len(list) /\ j - 1 \in 1 .. Len(list) /\ list[i - 1] = list[j - 1]
      BY <1>1, <2>2
    <3>2. i - 1 = j - 1
      BY <1>1, <3>1 DEF Distinct
    <3> QED
      BY <1>1, <3>2
  <2> QED
    BY <2>1, <2>2
<1> QED
  BY <1>2, <1>3, <1>4, <1>6

\* av_buffer_pool_get takes the head of the list.
LEMMA PopStep ==
  ASSUME RefsInv, PoolInv, NEW t \in Threads, pc[t] = "out", ppool = "set",
         NEW r \in Refs, NEW b \in NewBuf, Goto(t, "got", r, b),
         list # <<>>, Create(b, Head(list)), list' = Tail(list),
         UNCHANGED <<kind, poolcount, ppool, pool>>
  PROVE  PoolInv'
<1>1. list \in Seq(Blocks) /\ Distinct
  BY DEF RefsInv, Types, PoolInv, Owners
<1>2. PICK d \in Blocks : d = Head(list)
  BY <1>1
<1>3. d \in ListSet /\ kind[d] = "pool" /\ ListSet' = ListSet \ {d} /\ Distinct'
  BY <1>1, <1>2, ListPopped DEF PoolInv, Owners
<1>4. /\ b \in Bufs /\ data[b] = Null /\ d # Null /\ b \notin Live /\ Live' = Live \cup {b}
      /\ \A c \in Bufs : data'[c] = IF c = b THEN d ELSE data[c]
      /\ \A u \in Threads : holding[u] # b /\ (u # t => pc'[u] = pc[u] /\ holding'[u] = holding[u])
      /\ pc'[t] = "got" /\ holding'[t] = b
  <2>1. pc'[t] = "got" /\ holding'[t] = b
    BY ThreadStep DEF NewBuf
  <2> QED
    BY <1>2, <2>1, NewLive
<1>5. kind' = kind /\ ppool' = ppool /\ pool' = pool /\ poolcount' = poolcount
  OBVIOUS
<1>6. Out' = Out
  <2>1. ASSUME NEW c \in Bufs PROVE c \in Out' <=> c \in Out
    <3>1. CASE c = b
      BY <1>4, <3>1 DEF Out, At
    <3>2. CASE c # b
      <4>1. \A u \in Threads : (pc'[u] = "got" /\ holding'[u] = c) <=>
                                (pc[u] = "got" /\ holding[u] = c)
        BY <1>4, <3>2
      <4> QED
        BY <1>4, <1>5, <3>2, <4>1 DEF Out, At
    <3> QED
      BY <3>1, <3>2
  <2> QED
    BY <2>1 DEF Out
<1>7. PoolTypes' /\ PoolCount'
  BY <1>5, <1>6 DEF PoolInv, PoolTypes, PoolCount
<1>8. PoolUsers'
  <2>1. ASSUME NEW u \in Threads, pc'[u] \in {"got", "pushed"}
        PROVE  kind'[data'[holding'[u]]] = "pool" /\ (pc'[u] = "got" => ppool' = "set")
    <3>1. CASE u = t
      BY <1>3, <1>4, <1>5, <2>1, <3>1
    <3>2. CASE u # t
      <4>1. pc'[u] = pc[u] /\ holding'[u] = holding[u] /\ holding[u] # b /\ holding[u] \in Bufs
        BY <1>4, <2>1, <3>2 DEF RefsInv, Role, Types
      <4> QED
        BY <1>4, <1>5, <2>1, <4>1 DEF PoolInv, PoolUsers
    <3> QED
      BY <3>1, <3>2
  <2> QED
    BY <2>1 DEF PoolUsers
<1>9. Owners'
  <2>1. \A c \in Live : c \in Bufs /\ c # b
    BY <1>4 DEF Live
  <2> QED
    BY <1>3, <1>4, <1>5, <2>1 DEF PoolInv, Owners
<1>10. Accounted'
  <2>1. ASSUME NEW c \in Bufs, data'[c] # Null
        PROVE  c \in Live' \/ \E u \in Threads : pc'[u] = "pushed" /\ holding'[u] = c
    BY <1>4, <2>1 DEF PoolInv, Accounted
  <2>2. ASSUME NEW e \in Blocks, kind'[e] # "none"
        PROVE  e \in ListSet' \/ \E c \in Live' : data'[c] = e
    BY <1>3, <1>4, <1>5, <2>2 DEF PoolInv, Accounted, Live
  <2> QED
    BY <2>1, <2>2 DEF Accounted
<1> QED
  BY <1>7, <1>8, <1>9, <1>10 DEF PoolInv

LEMMA AllocSteps ==
  ASSUME RefsInv, PoolInv, NEW t \in Threads, Alloc(t) \/ PoolGet(t) \/ StartCopy(t)
  PROVE  PoolInv'
<1>1. CASE Alloc(t)
  <2>1. PICK b \in NewBuf, d \in NewBlock, k \in {"default", "reallocatable"} :
          Create(b, d) /\ kind' = [kind EXCEPT ![d] = k]
    BY <1>1 DEF Alloc
  <2>2. UNCHANGED <<poolVars, pc, using, holding>> /\ pc[t] = "out"
    BY <1>1 DEF Alloc
  <2>3. k \in {"default", "reallocatable", "pool"} /\ ~(k = "pool") /\ ~(pc'[t] = "got")
        /\ pc' = pc /\ holding' = holding /\ UNCHANGED poolVars
    BY <2>2
  <2> QED
    BY <2>1, <2>2, <2>3, NewBlockStep
<1>2. CASE StartCopy(t)
  <2>1. PICK r \in Refs, b \in NewBuf, d \in NewBlock, k \in {"default", "reallocatable"} :
          Create(b, d) /\ kind' = [kind EXCEPT ![d] = k] /\ Goto(t, "copy", r, b)
    BY <1>2 DEF StartCopy, Usable
  <2>2. pc[t] = "out" /\ UNCHANGED poolVars /\ pc'[t] = "copy"
    BY <1>2, <2>1, ThreadStep DEF StartCopy, NewBuf
  <2>3. k \in {"default", "reallocatable", "pool"} /\ ~(k = "pool") /\ ~(pc'[t] = "got")
    BY <2>2
  <2> QED
    BY <2>1, <2>2, <2>3, NewBlockStep
<1>3. CASE PoolGet(t)
  <2>1. PICK r \in Refs, b \in NewBuf :
          /\ Goto(t, "got", r, b)
          /\ \/ list # <<>> /\ Create(b, Head(list)) /\ list' = Pop /\ UNCHANGED kind
             \/ /\ \E d \in NewBlock : Create(b, d) /\ kind' = [kind EXCEPT ![d] = "pool"]
                /\ UNCHANGED list
    BY <1>3 DEF PoolGet, NewRef
  <2>2. pc[t] = "out" /\ ppool = "set" /\ UNCHANGED <<poolcount, ppool, pool>> /\ pc'[t] = "got"
    BY <1>3, <2>1, ThreadStep DEF PoolGet, NewBuf
  <2>3. CASE list # <<>> /\ Create(b, Head(list)) /\ list' = Pop /\ UNCHANGED kind
    BY <2>1, <2>2, <2>3, PopStep DEF Pop
  <2>4. CASE /\ \E d \in NewBlock : Create(b, d) /\ kind' = [kind EXCEPT ![d] = "pool"]
             /\ UNCHANGED list
    <3>1. PICK d \in NewBlock : Create(b, d) /\ kind' = [kind EXCEPT ![d] = "pool"]
      BY <2>4
    <3>2. UNCHANGED poolVars
      BY <2>2, <2>4 DEF poolVars
    <3> QED
      BY <2>1, <2>2, <3>1, <3>2, NewBlockStep
  <2> QED
    BY <2>1, <2>3, <2>4
<1> QED
  BY <1>1, <1>2, <1>3

\* pool_release_buffer under the mutex: a buffer that is not in use any more is on
\* the list before its AVBuffer is freed.
LEMMA GiveBackStep ==
  ASSUME RefsInv, PoolInv, NEW t \in Threads, FreeData(t), kind[data[holding[t]]] = "pool"
  PROVE  PoolInv'
<1>1. PICK b \in Bufs : b = holding[t]
  BY DEF FreeData, RefsInv, Types, Role
<1>2. /\ pc[t] = "free" /\ refcount[b] = 0 /\ b \in Live /\ data[b] # Null
      /\ \A u \in Threads : holding[u] = b => u = t
  BY <1>1, BufferMeans DEF FreeData
<1>3. PICK d \in Blocks : d = data[b] /\ kind[d] = "pool" /\ d \notin ListSet
  BY <1>1, <1>2, BufferMeans DEF PoolInv, Owners
<1>4. /\ list' = <<d>> \o list /\ data' = data /\ kind' = kind /\ refcount' = refcount
      /\ poolcount' = poolcount /\ ppool' = ppool /\ pool' = pool /\ holding' = holding
      /\ pc' = [pc EXCEPT ![t] = "pushed"]
  BY <1>1, <1>3 DEF FreeData, Returns
<1>5. \A u \in Threads : pc'[u] = IF u = t THEN "pushed" ELSE pc[u]
  BY <1>4 DEF RefsInv, Types
<1>6. ListSet' = ListSet \cup {d} /\ Distinct'
  BY <1>3, <1>4, ListPushed DEF RefsInv, Types, PoolInv, Owners
<1>7. Live' = Live \ {b}
  <2>1. ASSUME NEW c \in Bufs PROVE c \in Live' <=> c \in Live /\ c # b
    <3>1. \A u \in Threads : (pc'[u] = "free" /\ holding'[u] = c) <=>
                              (pc[u] = "free" /\ holding[u] = c /\ c # b)
      BY <1>1, <1>2, <1>4, <1>5
    <3> QED
      BY <1>2, <1>4, <3>1 DEF Live, At
  <2> QED
    BY <2>1 DEF Live
<1>8. Out' = Out
  <2>1. \A u \in Threads : pc'[u] = "got" <=> pc[u] = "got"
    BY <1>2, <1>5
  <2> QED
    BY <1>4, <2>1 DEF Out, At
<1>9. pool # "freed"
  BY <1>2, <1>3, BufferMeans DEF PoolInv, PoolCount, PoolTypes, Out, At
<1>10. PoolTypes' /\ PoolCount'
  BY <1>4, <1>8, <1>9 DEF PoolInv, PoolTypes, PoolCount
<1>11. PoolUsers'
  BY <1>1, <1>3, <1>4, <1>5 DEF PoolInv, PoolUsers
<1>12. Owners'
  BY <1>2, <1>3, <1>4, <1>6, <1>7 DEF PoolInv, Owners
<1>13. Accounted'
  <2>1. ASSUME NEW c \in Bufs, data'[c] # Null
        PROVE  c \in Live' \/ \E u \in Threads : pc'[u] = "pushed" /\ holding'[u] = c
    BY <1>1, <1>2, <1>4, <1>5, <1>7, <2>1 DEF PoolInv, Accounted
  <2>2. ASSUME NEW e \in Blocks, kind'[e] # "none"
        PROVE  e \in ListSet' \/ \E c \in Live' : data'[c] = e
    BY <1>3, <1>4, <1>6, <1>7, <2>2 DEF PoolInv, Accounted
  <2> QED
    BY <2>1, <2>2 DEF Accounted
<1> QED
  BY <1>10, <1>11, <1>12, <1>13 DEF PoolInv

\* av_buffer_default_free: a block without a pool goes with its last reference.
LEMMA FreeStep ==
  ASSUME RefsInv, PoolInv, NEW t \in Threads, FreeData(t), kind[data[holding[t]]] # "pool"
  PROVE  PoolInv'
<1>1. PICK b \in Bufs : b = holding[t]
  BY DEF FreeData, RefsInv, Types, Role
<1>2. /\ pc[t] = "free" /\ refcount[b] = 0 /\ b \in Live /\ data[b] # Null
      /\ \A u \in Threads : holding[u] = b => u = t
  BY <1>1, BufferMeans DEF FreeData
<1>3. PICK d \in Blocks : /\ d = data[b] /\ kind[d] # "pool"
                          /\ \A c \in Bufs : data[c] = d => c = b
  BY <1>1, <1>2, BufferMeans
<1>4. /\ kind' = [kind EXCEPT ![d] = "none"] /\ data' = [data EXCEPT ![b] = Null]
      /\ list' = list /\ refcount' = refcount
      /\ poolcount' = poolcount /\ ppool' = ppool /\ pool' = pool
      /\ Goto(t, "out", Null, Null)
  BY <1>1, <1>3 DEF FreeData, Returns
<1>5. /\ \A u \in Threads : u # t => pc'[u] = pc[u] /\ holding'[u] = holding[u]
      /\ pc'[t] = "out"
      /\ \A c \in Bufs : data'[c] = IF c = b THEN Null ELSE data[c]
      /\ \A e \in Blocks : kind'[e] = IF e = d THEN "none" ELSE kind[e]
      /\ PoolTypes'
  <2>1. /\ \A u \in Threads : u # t => pc'[u] = pc[u] /\ holding'[u] = holding[u]
        /\ pc'[t] = "out"
    BY <1>4, ThreadStep
  <2>2. \A c \in Bufs : data'[c] = IF c = b THEN Null ELSE data[c]
    BY <1>4 DEF RefsInv, Types
  <2>3. /\ \A e \in Blocks : kind'[e] = IF e = d THEN "none" ELSE kind[e]
        /\ PoolTypes'
    BY <1>4 DEF PoolInv, PoolTypes
  <2> QED
    BY <2>1, <2>2, <2>3
<1>6. ListSet' = ListSet /\ Distinct' = Distinct /\ d \notin ListSet
  BY <1>3, <1>4 DEF ListSet, Distinct, PoolInv, Owners
<1>7. Live' = Live \ {b}
  <2>1. ASSUME NEW c \in Bufs PROVE c \in Live' <=> c \in Live /\ c # b
    <3>1. \A u \in Threads : (pc'[u] = "free" /\ holding'[u] = c) <=>
                              (pc[u] = "free" /\ holding[u] = c /\ c # b)
      BY <1>1, <1>2, <1>5
    <3> QED
      BY <1>2, <1>4, <3>1 DEF Live, At
  <2> QED
    BY <2>1 DEF Live
<1>8. \A c \in Bufs : data[c] # Null => data[c] \in Blocks
  BY BufferMeans
<1>9. Out' = Out
  <2>1. ASSUME NEW c \in Bufs PROVE c \in Out' <=> c \in Out
    <3>1. CASE c = b
      BY <1>3, <1>5, <3>1 DEF Out
    <3>2. CASE c # b
      <4>1. data'[c] = data[c] /\ (data[c] # Null => kind'[data[c]] = kind[data[c]])
        BY <1>3, <1>5, <1>8, <3>2
      <4>2. \A u \in Threads : (pc'[u] = "got" /\ holding'[u] = c) <=>
                                (pc[u] = "got" /\ holding[u] = c)
        BY <1>2, <1>5
      <4> QED
        BY <4>1, <4>2 DEF Out, At
    <3> QED
      BY <3>1, <3>2
  <2> QED
    BY <2>1 DEF Out
<1>10. PoolCount'
  BY <1>4, <1>9 DEF PoolInv, PoolCount
<1>11. PoolUsers'
  <2>1. ASSUME NEW u \in Threads, pc'[u] \in {"got", "pushed"}
        PROVE  kind'[data'[holding'[u]]] = "pool" /\ (pc'[u] = "got" => ppool' = "set")
    <3>1. u # t
      BY <1>5, <2>1
    <3>2. pc'[u] = pc[u] /\ holding'[u] = holding[u] /\ holding[u] \in Bufs /\ holding[u] # b
      BY <1>1, <1>2, <1>5, <2>1, <3>1 DEF RefsInv, Role, Types
    <3>3. data[holding[u]] # d /\ data[holding[u]] \in Blocks
      BY <1>3, <1>8, <2>1, <3>2, BufferMeans DEF RefsInv, Role
    <3> QED
      BY <1>4, <1>5, <2>1, <3>2, <3>3 DEF PoolInv, PoolUsers
  <2> QED
    BY <2>1 DEF PoolUsers
<1>12. Owners'
  <2>1. \A c \in Live' : /\ c \in Live /\ c \in Bufs /\ data'[c] = data[c]
                         /\ data[c] # d /\ data[c] # Null /\ data[c] \in Blocks
    BY <1>3, <1>5, <1>7, <1>8 DEF Live, PoolInv, Owners
  <2>2. \A e \in ListSet : e \in Blocks
    BY DEF ListSet, RefsInv, Types
  <2> QED
    BY <1>5, <1>6, <2>1, <2>2 DEF PoolInv, Owners
<1>13. Accounted'
  <2>1. ASSUME NEW c \in Bufs, data'[c] # Null
        PROVE  c \in Live' \/ \E u \in Threads : pc'[u] = "pushed" /\ holding'[u] = c
    BY <1>1, <1>2, <1>5, <1>7, <2>1 DEF PoolInv, Accounted
  <2>2. ASSUME NEW e \in Blocks, kind'[e] # "none"
        PROVE  e \in ListSet' \/ \E c \in Live' : data'[c] = e
    <3>1. e # d /\ kind[e] # "none"
      BY <1>5, <2>2
    <3>2. CASE \E c \in Live : data[c] = e
      BY <1>3, <1>5, <1>7, <3>1, <3>2 DEF Live
    <3> QED
      BY <1>6, <3>1, <3>2 DEF PoolInv, Accounted
  <2> QED
    BY <2>1, <2>2 DEF Accounted
<1> QED
  BY <1>5, <1>10, <1>11, <1>12, <1>13 DEF PoolInv

\* av_buffer_realloc moves the data of a buffer that nobody else uses.
LEMMA ReallocateStep ==
  ASSUME RefsInv, PoolInv, NEW t \in Threads, Reallocate(t)
  PROVE  PoolInv'
<1>1. PICK r \in Usable, new \in NewBlock :
         /\ Writable(ref[r]) /\ kind[data[ref[r]]] = "reallocatable"
         /\ kind' = [kind EXCEPT ![data[ref[r]]] = "none", ![new] = "reallocatable"]
         /\ data' = [data EXCEPT ![ref[r]] = new]
  BY DEF Reallocate
<1>2. PICK b \in Bufs : b = ref[r] /\ b \in Live
  BY <1>1 DEF Usable, Writable, Live, RefsInv, Types
<1>3. PICK d \in Blocks : /\ d = data[b] /\ kind[d] = "reallocatable"
                          /\ \A c \in Bufs : data[c] = d => c = b
  BY <1>1, <1>2, BufferMeans
<1>4. /\ new \in Blocks /\ kind[new] = "none" /\ new # d /\ new # Null
      /\ \A c \in Bufs : data[c] # new
      /\ \A c \in Bufs : data[c] # Null => data[c] \in Blocks
  BY <1>3, BufferMeans, NullAssumption DEF NewBlock
<1>5. /\ refcount' = refcount /\ list' = list /\ poolcount' = poolcount /\ ppool' = ppool
      /\ pool' = pool /\ pc' = pc /\ holding' = holding
  BY DEF Reallocate, poolVars
<1>6. /\ \A c \in Bufs : data'[c] = IF c = b THEN new ELSE data[c]
      /\ \A e \in Blocks : kind'[e] = IF e = new THEN "reallocatable"
                                      ELSE IF e = d THEN "none" ELSE kind[e]
      /\ kind' \in [Blocks -> {"none", "default", "reallocatable", "pool"}]
  BY <1>1, <1>2, <1>3, <1>4 DEF RefsInv, Types, PoolInv, PoolTypes
<1>7. Live' = Live
  BY <1>5 DEF Live, At
<1>8. ListSet' = ListSet /\ Distinct' = Distinct /\ d \notin ListSet /\ new \notin ListSet
  BY <1>3, <1>4, <1>5 DEF ListSet, Distinct, PoolInv, Owners
<1>9. Out' = Out
  <2>1. ASSUME NEW c \in Bufs PROVE c \in Out' <=> c \in Out
    <3>1. CASE c = b
      <4>1. c \notin Out /\ kind'[data'[c]] # "pool"
        BY <1>3, <1>4, <1>6, <3>1 DEF Out
      <4> QED
        BY <4>1 DEF Out
    <3>2. CASE c # b
      <4>1. data'[c] = data[c] /\ (data[c] # Null => kind'[data[c]] = kind[data[c]])
        BY <1>3, <1>4, <1>6, <3>2
      <4> QED
        BY <1>5, <4>1 DEF Out, At
    <3> QED
      BY <3>1, <3>2
  <2> QED
    BY <2>1 DEF Out
<1>10. PoolTypes' /\ PoolCount'
  BY <1>5, <1>6, <1>9 DEF PoolInv, PoolTypes, PoolCount
<1>11. PoolUsers'
  <2>1. ASSUME NEW u \in Threads, pc[u] \in {"got", "pushed"}
        PROVE  kind'[data'[holding[u]]] = kind[data[holding[u]]]
    <3>1. holding[u] \in Bufs /\ data[holding[u]] # Null /\ holding[u] # b
      BY <1>3, <2>1 DEF RefsInv, Role, Types, PoolInv, PoolUsers
    <3> QED
      BY <1>3, <1>4, <1>6, <3>1
  <2> QED
    BY <1>5, <2>1 DEF PoolInv, PoolUsers
<1>12. Owners'
  <2>1. \A c \in Live : /\ c \in Bufs /\ data'[c] # Null /\ data'[c] \notin ListSet
                        /\ kind'[data'[c]] # "none"
    <3> SUFFICES ASSUME NEW c \in Live
                 PROVE  /\ c \in Bufs /\ data'[c] # Null /\ data'[c] \notin ListSet
                        /\ kind'[data'[c]] # "none"
      OBVIOUS
    <3>1. c \in Bufs /\ data[c] # Null /\ kind[data[c]] # "none" /\ data[c] \notin ListSet
      BY DEF Live, PoolInv, Owners
    <3> QED
      BY <1>3, <1>4, <1>6, <1>8, <3>1
  <2>2. \A c, e \in Live : data'[c] = data'[e] => c = e
    BY <1>4, <1>6, <2>1 DEF PoolInv, Owners
  <2>3. \A e \in ListSet : e \in Blocks
    BY DEF ListSet, RefsInv, Types
  <2>4. \A e \in ListSet : kind'[e] = "pool"
    BY <1>3, <1>4, <1>6, <1>8, <2>3 DEF PoolInv, Owners
  <2> QED
    BY <1>7, <1>8, <2>1, <2>2, <2>4 DEF PoolInv, Owners
<1>13. Accounted'
  <2>1. ASSUME NEW c \in Bufs, data'[c] # Null
        PROVE  c \in Live' \/ \E u \in Threads : pc'[u] = "pushed" /\ holding'[u] = c
    BY <1>2, <1>5, <1>6, <1>7, <2>1 DEF PoolInv, Accounted
  <2>2. ASSUME NEW e \in Blocks, kind'[e] # "none"
        PROVE  e \in ListSet' \/ \E c \in Live' : data'[c] = e
    <3>1. CASE e = new
      BY <1>2, <1>6, <1>7, <3>1
    <3>2. CASE e # new
      <4>1. e # d /\ kind[e] # "none"
        BY <1>6, <2>2, <3>2
      <4>2. CASE \E c \in Live : data[c] = e
        BY <1>3, <1>6, <1>7, <4>1, <4>2 DEF Live
      <4> QED
        BY <1>8, <4>1, <4>2 DEF PoolInv, Accounted
    <3> QED
      BY <3>1, <3>2
  <2> QED
    BY <2>1, <2>2 DEF Accounted
<1> QED
  BY <1>10, <1>11, <1>12, <1>13 DEF PoolInv

\* One reference to the pool goes, that of the buffers in gone or that of the owner.
\* If it was the last one, no buffer of the pool is anywhere.
LEMMA DropPoolStep ==
  ASSUME RefsInv, PoolInv, DropPool, NEW gone \in SUBSET Bufs, gone \cap Live = {},
         refcount' = refcount, holding' \in [Threads -> Bufs \cup {Null}],
         \A c \in Bufs : data'[c] = IF c \in gone THEN Null ELSE data[c],
         \A u \in Threads, c \in Bufs, label \in {"free", "got"} :
            (pc'[u] = label /\ holding'[u] = c) <=> (pc[u] = label /\ holding[u] = c),
         \A u \in Threads, c \in Bufs :
            (pc'[u] = "pushed" /\ holding'[u] = c) <=>
               (pc[u] = "pushed" /\ holding[u] = c /\ c \notin gone),
         \A u \in Threads : pc'[u] \in {"got", "pushed"} => holding'[u] # Null,
         \/ \E b \in Out : gone = {b} /\ ppool' = ppool
         \/ gone = {} /\ ppool = "set" /\ ppool' = "null" /\ \A u \in Threads : pc[u] # "got"
  PROVE  PoolInv'
<1>1. /\ Cardinality(Out) \in Nat /\ poolcount \in Nat
      /\ poolcount = Cardinality(Out) + (IF ppool = "set" THEN 1 ELSE 0)
  BY OutFinite DEF PoolInv, PoolTypes, PoolCount
<1>2. /\ Cardinality(Out \ gone) \in Nat
      /\ poolcount - 1 = Cardinality(Out \ gone) + (IF ppool' = "set" THEN 1 ELSE 0)
      /\ poolcount = 1 => \A u \in Threads : pc[u] # "got"
  <2>1. CASE \E b \in Out : gone = {b} /\ ppool' = ppool
    <3>1. PICK b \in Out : gone = {b} /\ ppool' = ppool
      BY <2>1
    <3>2. Cardinality(Out \ {b}) = Cardinality(Out) - 1 /\ Cardinality(Out \ {b}) \in Nat
      <4>1. IsFiniteSet(Out \ {b})
        BY OutFinite, FS_RemoveElement
      <4> QED
        BY <4>1, OutFinite, FS_RemoveElement, FS_CardinalityType
    <3>3. poolcount = 1 => ppool # "set"
      BY <1>1, <3>2
    <3> QED
      BY <1>1, <3>1, <3>2, <3>3 DEF PoolInv, PoolUsers
  <2>2. CASE gone = {} /\ ppool = "set" /\ ppool' = "null" /\ \A u \in Threads : pc[u] # "got"
    <3>1. Out \ gone = Out
      BY <2>2
    <3> QED
      BY <1>1, <2>2, <3>1
  <2> QED
    BY <2>1, <2>2
<1>3. /\ IF poolcount = 1
         THEN /\ kind' = [d \in Blocks |-> IF d \in ListSet THEN "none" ELSE kind[d]]
              /\ list' = <<>> /\ pool' = "freed"
         ELSE kind' = kind /\ list' = list /\ pool' = pool
      /\ poolcount' = poolcount - 1
  BY DEF DropPool, Last
<1>4. /\ \A d \in Blocks : kind'[d] = kind[d]
                            \/ (poolcount = 1 /\ d \in ListSet /\ kind'[d] = "none")
      /\ \A d \in Blocks : d \notin ListSet => kind'[d] = kind[d]
      /\ kind' \in [Blocks -> {"none", "default", "reallocatable", "pool"}]
      /\ poolcount # 1 => kind' = kind
  BY <1>3 DEF PoolInv, PoolTypes
<1>5. \A c \in Bufs : data[c] # Null => data[c] \in Blocks
  BY BufferMeans
<1>6. Live' = Live
  <2>1. ASSUME NEW c \in Bufs PROVE c \in Live' <=> c \in Live
    BY DEF Live, At
  <2> QED
    BY <2>1 DEF Live
<1>7. /\ \A c \in Out' : c \in Out \ gone
      /\ poolcount # 1 => \A c \in Out \ gone : c \in Out'
  <2>1. ASSUME NEW c \in Out' PROVE c \in Out \ gone
    <3>1. c \in Bufs /\ data'[c] # Null /\ kind'[data'[c]] = "pool"
          /\ \A u \in Threads : ~(pc'[u] = "got" /\ holding'[u] = c)
      BY DEF Out, At
    <3>2. c \notin gone /\ data'[c] = data[c] /\ data[c] \in Blocks
      BY <1>5, <3>1
    <3>3. kind[data[c]] = "pool"
      BY <1>4, <3>1, <3>2
    <3> QED
      BY <3>1, <3>2, <3>3 DEF Out, At
  <2>2. ASSUME poolcount # 1, NEW c \in Out \ gone PROVE c \in Out'
    BY <1>4, <2>2 DEF Out, At
  <2> QED
    BY <2>1, <2>2
<1>8. poolcount = 1 => Out \ gone = {} /\ ppool' # "set"
  <2>1. IsFiniteSet(Out \ gone)
    BY OutFinite, FS_Subset
  <2>2. poolcount = 1 => Cardinality(Out \ gone) = 0 /\ ppool' # "set"
    BY <1>2
  <2> QED
    BY <2>1, <2>2, FS_EmptySet
<1>9. Out' = Out \ gone
  BY <1>7, <1>8
<1>10. PoolTypes'
  <2>1. ppool' \in {"set", "null"}
    BY DEF PoolInv, PoolTypes
  <2>2. pool' \in {"allocated", "freed"}
    BY <1>3 DEF PoolInv, PoolTypes
  <2>3. poolcount' \in Nat
    BY <1>2, <1>3
  <2> QED
    BY <1>4, <2>1, <2>2, <2>3 DEF PoolTypes
<1>11. PoolCount'
  <2>1. poolcount' = Cardinality(Out') + (IF ppool' = "set" THEN 1 ELSE 0)
    BY <1>2, <1>3, <1>9
  <2>2. pool' = "freed" => ppool' = "null" /\ Out' = {} /\ list' = <<>>
    <3>1. CASE poolcount = 1
      BY <1>3, <1>8, <1>9, <1>10, <3>1 DEF PoolTypes
    <3>2. CASE poolcount # 1
      BY <1>3, <1>9, <3>2 DEF PoolInv, PoolCount
    <3> QED
      BY <3>1, <3>2
  <2>3. pool' = "allocated" => poolcount' > 0
    <3> SUFFICES ASSUME pool' = "allocated" PROVE poolcount' > 0
      OBVIOUS
    <3>1. poolcount # 1 /\ pool = "allocated"
      BY <1>3
    <3> QED
      BY <1>1, <1>3, <3>1 DEF PoolInv, PoolCount
  <2> QED
    BY <2>1, <2>2, <2>3 DEF PoolCount
<1>12. PoolUsers'
  <2>1. ASSUME NEW u \in Threads, pc'[u] \in {"got", "pushed"}
        PROVE  kind'[data'[holding'[u]]] = "pool" /\ (pc'[u] = "got" => ppool' = "set")
    <3>1. PICK c \in Bufs : holding'[u] = c
      BY <2>1
    <3>2. pc[u] = pc'[u] /\ holding[u] = c /\ kind[data[c]] = "pool" /\ (pc[u] = "got" => ppool = "set")
          /\ (pc[u] = "pushed" => c \notin gone)
      BY <2>1, <3>1 DEF PoolInv, PoolUsers
    <3>3. c \notin gone /\ data[c] # Null /\ data'[c] = data[c] /\ data[c] \in Blocks
      <4>1. pc[u] = "got" => c \in Live
        BY <3>2, BufferMeans
      <4> QED
        BY <1>5, <2>1, <3>2, <4>1, BufferMeans
    <3>4. poolcount # 1
      <4>1. pc[u] = "pushed" => c \in Out \ gone
        BY <3>2, BufferMeans
      <4> QED
        BY <1>2, <1>8, <2>1, <3>2, <4>1
    <3> QED
      BY <1>4, <2>1, <3>1, <3>2, <3>3, <3>4
  <2> QED
    BY <2>1 DEF PoolUsers
<1>13. Owners'
  <2>1. \A c \in Live : /\ c \in Bufs /\ data'[c] = data[c] /\ data[c] # Null
                        /\ data[c] \notin ListSet /\ kind'[data[c]] # "none"
    BY <1>4, <1>5 DEF Live, PoolInv, Owners
  <2>2. CASE poolcount = 1
    <3>1. ListSet' = {} /\ Distinct'
      BY <1>3, <2>2 DEF ListSet, Distinct
    <3> QED
      BY <1>6, <2>1, <3>1 DEF PoolInv, Owners
  <2>3. CASE poolcount # 1
    <3>1. ListSet' = ListSet /\ Distinct' = Distinct
      BY <1>3, <2>3 DEF ListSet, Distinct
    <3> QED
      BY <1>4, <1>6, <2>1, <2>3, <3>1 DEF PoolInv, Owners
  <2> QED
    BY <2>2, <2>3
<1>14. Accounted'
  <2>1. ASSUME NEW c \in Bufs, data'[c] # Null
        PROVE  c \in Live' \/ \E u \in Threads : pc'[u] = "pushed" /\ holding'[u] = c
    BY <1>6, <2>1 DEF PoolInv, Accounted
  <2>2. ASSUME NEW e \in Blocks, kind'[e] # "none"
        PROVE  e \in ListSet' \/ \E c \in Live' : data'[c] = e
    <3>1. kind[e] # "none" /\ (poolcount = 1 => e \notin ListSet)
      BY <1>3, <1>4, <2>2
    <3>2. CASE \E c \in Live : data[c] = e
      BY <1>6, <3>2 DEF Live
    <3>3. CASE e \in ListSet
      <4>1. ListSet' = ListSet
        BY <1>3, <3>1, <3>3 DEF ListSet
      <4> QED
        BY <3>3, <4>1
    <3> QED
      BY <3>1, <3>2, <3>3 DEF PoolInv, Accounted
  <2> QED
    BY <2>1, <2>2 DEF Accounted
<1> QED
  BY <1>10, <1>11, <1>12, <1>13, <1>14 DEF PoolInv

LEMMA PoolReleaseSteps ==
  ASSUME RefsInv, PoolInv, NEW t \in Threads, Pushed(t) \/ Uninit(t)
  PROVE  PoolInv'
<1>1. DropPool /\ refcount' = refcount
  BY DEF Pushed, Uninit
<1>2. CASE Pushed(t)
  <2>1. PICK b \in Bufs : b = holding[t]
    BY <1>2 DEF Pushed, RefsInv, Types, Role
  <2>2. /\ b \notin Live /\ b \in Out /\ pc[t] = "pushed"
        /\ \A u \in Threads : u # t => holding[u] # b
    BY <1>2, <2>1, BufferMeans, NullAssumption DEF Pushed, RefsInv, Apart
  <2>3. /\ holding' \in [Threads -> Bufs \cup {Null}]
        /\ \A u \in Threads : u # t => pc'[u] = pc[u] /\ holding'[u] = holding[u]
        /\ pc'[t] = "out"
    BY <1>2, ThreadStep DEF Pushed
  <2>4. \A c \in Bufs : data'[c] = IF c \in {b} THEN Null ELSE data[c]
    BY <1>2, <2>1 DEF Pushed, RefsInv, Types
  <2>5. \A u \in Threads, c \in Bufs, label \in {"free", "got"} :
            (pc'[u] = label /\ holding'[u] = c) <=> (pc[u] = label /\ holding[u] = c)
    BY <2>2, <2>3
  <2>6. \A u \in Threads, c \in Bufs :
            (pc'[u] = "pushed" /\ holding'[u] = c) <=>
               (pc[u] = "pushed" /\ holding[u] = c /\ c \notin {b})
    BY <2>1, <2>2, <2>3
  <2>7. \A u \in Threads : pc'[u] \in {"got", "pushed"} => holding'[u] # Null
    BY <2>3 DEF RefsInv, Role
  <2>8. {b} \in SUBSET Bufs /\ {b} \cap Live = {} /\ \E x \in Out : {b} = {x} /\ ppool' = ppool
    BY <1>2, <2>2 DEF Pushed
  <2> QED
    BY <1>1, <2>3, <2>4, <2>5, <2>6, <2>7, <2>8, DropPoolStep
<1>3. CASE Uninit(t)
  <2>1. /\ data' = data /\ pc' = pc /\ holding' = holding /\ ppool = "set" /\ ppool' = "null"
        /\ \A u \in Threads : pc[u] # "got"
    BY <1>3 DEF Uninit
  <2>2. /\ {} \in SUBSET Bufs /\ {} \cap Live = {}
        /\ holding' \in [Threads -> Bufs \cup {Null}]
        /\ \A u \in Threads : pc'[u] \in {"got", "pushed"} => holding'[u] # Null
    BY <2>1 DEF RefsInv, Types, Role
  <2>3. \A c \in Bufs : data'[c] = IF c \in {} THEN Null ELSE data[c]
    BY <2>1
  <2>4. \A u \in Threads, c \in Bufs :
            (pc'[u] = "pushed" /\ holding'[u] = c) <=>
               (pc[u] = "pushed" /\ holding[u] = c /\ c \notin {})
    BY <2>1
  <2>5. \A u \in Threads, c \in Bufs, label \in {"free", "got"} :
            (pc'[u] = label /\ holding'[u] = c) <=> (pc[u] = label /\ holding[u] = c)
    BY <2>1
  <2> QED
    BY <1>1, <2>1, <2>2, <2>3, <2>4, <2>5, DropPoolStep
<1> QED
  BY <1>2, <1>3

LEMMA PoolStep ==
  RefsInv /\ PoolInv /\ [Next]_vars => PoolInv'
<1> SUFFICES ASSUME RefsInv, PoolInv, [Next]_vars PROVE PoolInv'
  OBVIOUS
<1>1. CASE UNCHANGED vars
  <2>1. /\ UNCHANGED <<data, kind, poolVars>> /\ pc' = pc /\ holding' = holding
        /\ refcount' = refcount
    BY <1>1 DEF vars, poolVars
  <2>2. Live' = Live
    BY <2>1 DEF Live, At
  <2> QED
    BY <2>1, <2>2, SameBlocks
<1>2. ASSUME NEW t \in Threads, FreeData(t) PROVE PoolInv'
  BY <1>2, GiveBackStep, FreeStep
<1> QED
  BY <1>1, <1>2, AllocSteps, PoolGotStep, ReferenceSteps, PoolReleaseSteps, ReallocateStep
     DEF Next

LEMMA PoolInvariant == Spec => [](RefsInv /\ PoolInv)
<1>1. Init => PoolInv
  <2> SUFFICES ASSUME Init PROVE PoolInv
    OBVIOUS
  <2>1. PoolTypes /\ PoolUsers
    BY DEF Init, PoolTypes, PoolUsers
  <2>2. Live = {} /\ ListSet = {} /\ Distinct
    BY DEF Init, Live, ListSet, Distinct, At
  <2>3. Out = {}
    BY DEF Init, Out
  <2>4. Cardinality(Out) = 0
    BY <2>3, FS_EmptySet
  <2>5. PoolCount
    BY <2>4 DEF Init, PoolCount
  <2>6. Owners
    BY <2>2 DEF Owners
  <2>7. Accounted
    BY DEF Init, Accounted
  <2> QED
    BY <2>1, <2>5, <2>6, <2>7 DEF PoolInv
<1> QED
  BY <1>1, PoolStep, RefsInvariant, PTL DEF Spec

-----------------------------------------------------------------------------
\* Every variable of buffer.c keeps its type: no count is ever negative.
THEOREM TypeCorrect == Spec => []TypeOK
<1>1. RefsInv /\ PoolInv => TypeOK
  BY DEF RefsInv, Types, PoolInv, PoolTypes, TypeOK
<1> QED
  BY <1>1, PoolInvariant, PTL

\* A block of data has one owner at any time, a buffer in use or the pool's list,
\* although pool_release_buffer gives it away before its AVBuffer is freed.
THEOREM BlocksHaveOneOwner == Spec => []OneOwner
<1>1. PoolInv => OneOwner
  BY DEF PoolInv, Owners, Distinct, ListSet, OneOwner
<1> QED
  BY <1>1, PoolInvariant, PTL

\* The pool is freed by the last of its buffers or by av_buffer_pool_uninit,
\* whichever is later, although its count changes outside of its mutex.
THEOREM PoolOutlivesItsBuffers == Spec => []PoolLives
<1>1. RefsInv /\ PoolInv => PoolLives
  <2> SUFFICES ASSUME RefsInv, PoolInv PROVE PoolLives
    OBVIOUS
  <2>1. ASSUME pool = "freed"
        PROVE  /\ ppool = "null" /\ list = <<>> /\ At("got") = {} /\ At("pushed") = {}
               /\ \A b \in Live : kind[data[b]] # "pool"
    <3>1. ppool = "null" /\ list = <<>> /\ Out = {}
      BY <2>1 DEF PoolInv, PoolCount
    <3>2. \A t \in Threads : pc[t] # "got"
      BY <3>1 DEF PoolInv, PoolUsers
    <3>3. \A t \in Threads : pc[t] = "pushed" => holding[t] \in Bufs
      BY DEF RefsInv, Types, Role
    <3>4. \A t \in Threads : pc[t] # "pushed"
      BY <3>1, <3>3, BufferMeans
    <3>5. ASSUME NEW b \in Live PROVE kind[data[b]] # "pool"
      BY <3>1, <3>2 DEF Live, Out, At, PoolInv, Owners
    <3> QED
      BY <3>1, <3>2, <3>4, <3>5 DEF At
  <2> QED
    BY <2>1 DEF PoolInv, PoolCount, PoolLives
<1> QED
  BY <1>1, PoolInvariant, PTL

\* When every reference is gone and no thread is inside buffer.c, every block and
\* the pool have been freed, but for what a pool still in use keeps on its list.
THEOREM AllIsFreed == Spec => []NothingLeaks
<1>1. RefsInv /\ PoolInv => NothingLeaks
  <2> SUFFICES ASSUME RefsInv, PoolInv, \A r \in Refs : ref[r] = Null,
                      \A t \in Threads : pc[t] = "out"
               PROVE  /\ ppool = "null" => pool = "freed"
                      /\ \A d \in Blocks : kind[d] = "none" \/ d \in ListSet
    BY DEF NothingLeaks
  <2>1. Live = {}
    <3> SUFFICES ASSUME NEW b \in Bufs PROVE b \notin Live
      BY DEF Live
    <3>1. NoRefTo(b) /\ ~Copied(b)
      BY NullAssumption DEF NoRefTo, Copied
    <3>2. ~(refcount[b] > 0)
      BY <3>1, CountMeans
    <3> QED
      BY <3>2 DEF Live, At
  <2>2. \A d \in Blocks : kind[d] = "none" \/ d \in ListSet
    BY <2>1 DEF PoolInv, Accounted
  <2>3. Out = {}
    BY <2>1 DEF PoolInv, Accounted, Out
  <2>4. Cardinality(Out) = 0
    BY <2>3, FS_EmptySet
  <2>5. ppool = "null" => pool = "freed"
    BY <2>4 DEF PoolInv, PoolTypes, PoolCount
  <2> QED
    BY <2>2, <2>5
<1> QED
  BY <1>1, PoolInvariant, PTL
=============================================================================
