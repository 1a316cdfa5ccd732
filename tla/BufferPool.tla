----------------------------- MODULE BufferPool -----------------------------
(***************************************************************************)
(* libavutil/buffer.c: reference counted buffers and pools of them.  There *)
(* is no lock around a buffer: the thread whose atomic decrement finds the *)
(* count at 1 frees it.  A buffer of a pool is not freed but pushed on the *)
(* pool's list, from which any thread may take it at once; the pool itself *)
(* is counted too, by its owner's pointer and by every buffer that is out. *)
(*                                                                         *)
(* One action is one atomic operation, or one section under the mutex of   *)
(* the pool.  A thread uses only AVBufferRefs nobody else is using; how    *)
(* they are handed from thread to thread is left open.                     *)
(***************************************************************************)
EXTENDS Integers, FiniteSets, Sequences

CONSTANTS
    Threads,
    Refs,     \* AVBufferRef structures that may exist at a time
    Bufs,     \* AVBuffer structures that may exist at a time
    Blocks,   \* blocks of data that may exist at a time
    Null

ASSUME NullAssumption == Null \notin Refs \cup Bufs \cup Blocks
ASSUME FiniteAssumption == IsFiniteSet(Refs) /\ IsFiniteSet(Bufs) /\ IsFiniteSet(Blocks)

VARIABLES
    ref,       \* ref[r]: the AVBuffer of r, Null if there is no r
    refcount,  \* of each AVBuffer
    data,      \* data[b]: the block of b, Null if there is no b
    kind,      \* of each block: who frees it, and how ("none": not allocated)
    list,      \* AVBufferPool.pool
    poolcount, \* AVBufferPool.refcount
    ppool,     \* the owner's pointer to the pool
    pool,      \* the pool's memory
    pc,        \* where each thread is
    using,     \* the AVBufferRef a thread works on
    holding    \* the AVBuffer it allocated or has to free

vars == <<ref, refcount, data, kind, list, poolcount, ppool, pool, pc, using, holding>>
poolVars == <<list, poolcount, ppool, pool>>

Init ==
    /\ ref = [r \in Refs |-> Null] /\ refcount = [b \in Bufs |-> 0]
    /\ data = [b \in Bufs |-> Null] /\ kind = [d \in Blocks |-> "none"]
    /\ list = <<>> /\ poolcount = 1 /\ ppool = "set" /\ pool = "allocated"
    /\ pc = [t \in Threads |-> "out"]
    /\ using = [t \in Threads |-> Null] /\ holding = [t \in Threads |-> Null]

-----------------------------------------------------------------------------
NewRef == {r \in Refs : ref[r] = Null}
NewBuf == {b \in Bufs : data[b] = Null}
NewBlock == {d \in Blocks : kind[d] = "none"}

\* The AVBufferRefs a thread may use now.
Usable == {r \in Refs : ref[r] # Null /\ \A t \in Threads : using[t] # r}

Goto(t, label, r, b) ==
    /\ pc' = [pc EXCEPT ![t] = label]
    /\ using' = [using EXCEPT ![t] = r]
    /\ holding' = [holding EXCEPT ![t] = b]

\* av_buffer_create without its AVBufferRef: a new AVBuffer b for block d.
Create(b, d) ==
    /\ refcount' = [refcount EXCEPT ![b] = 1]
    /\ data' = [data EXCEPT ![b] = d]

\* av_buffer_alloc, or av_buffer_realloc on NULL, which makes a buffer that can be
\* reallocated.
Alloc(t) ==
    /\ pc[t] = "out"
    /\ \E r \in NewRef, b \in NewBuf, d \in NewBlock, k \in {"default", "reallocatable"} :
          /\ Create(b, d)
          /\ kind' = [kind EXCEPT ![d] = k]
          /\ ref' = [ref EXCEPT ![r] = b]
    /\ UNCHANGED <<poolVars, pc, using, holding>>

\* The list without its head.  The variant leaves it there.
PopNever == list
Pop == Tail(list)

\* av_buffer_pool_get under the mutex: the head of the list gets a new AVBuffer; if
\* the list is empty a new entry is made.  If memory runs out nothing changes.
PoolGet(t) ==
    /\ pc[t] = "out" /\ ppool = "set"
    /\ \E r \in NewRef, b \in NewBuf :
          /\ ref' = [ref EXCEPT ![r] = b]
          /\ Goto(t, "got", r, b)
          /\ \/ /\ list # <<>>
                /\ Create(b, Head(list))
                /\ list' = Pop
                /\ UNCHANGED kind
             \/ /\ list = <<>>
                /\ \E d \in NewBlock :
                      /\ Create(b, d)
                      /\ kind' = [kind EXCEPT ![d] = "pool"]
                /\ UNCHANGED list
    /\ UNCHANGED <<poolcount, ppool, pool>>

\* The count of the pool goes up after the mutex was released.  The variant
\* forgets it.
CountOutNever == poolcount
CountOut == poolcount + 1

PoolGot(t) ==
    /\ pc[t] = "got"
    /\ poolcount' = CountOut
    /\ Goto(t, "out", Null, Null)
    /\ UNCHANGED <<ref, refcount, data, kind, list, ppool, pool>>

\* av_buffer_ref.  The variant copies the structure only.
AddRefNever(b) == UNCHANGED refcount
AddRef(b) == refcount' = [refcount EXCEPT ![b] = @ + 1]

Ref(t) ==
    /\ pc[t] = "out"
    /\ \E r \in Usable, new \in NewRef :
          /\ ref' = [ref EXCEPT ![new] = ref[r]]
          /\ AddRef(ref[r])
    /\ UNCHANGED <<data, kind, poolVars, pc, using, holding>>

\* fetch_sub returns the count before.  The variant takes it for the count after.
LastAfter(count) == count = 0
Last(count) == count = 1

\* buffer_replace: one reference to b goes; who takes the last one frees b.
Drop(t, b) ==
    /\ refcount' = [refcount EXCEPT ![b] = @ - 1]
    /\ IF Last(refcount[b]) THEN Goto(t, "free", Null, b) ELSE Goto(t, "out", Null, Null)

Unref(t) ==
    /\ pc[t] = "out"
    /\ \E r \in Usable :
          /\ ref' = [ref EXCEPT ![r] = Null]
          /\ Drop(t, ref[r])
    /\ UNCHANGED <<data, kind, poolVars>>

\* b->free: av_buffer_default_free frees the data, pool_release_buffer pushes it on
\* the list.  The variant calls av_buffer_default_free for every buffer.
ReturnsNever(d) == FALSE
Returns(d) == kind[d] = "pool"

FreeData(t) ==
    /\ pc[t] = "free"
    /\ LET d == data[holding[t]] IN
       IF Returns(d)
       THEN /\ list' = <<d>> \o list
            /\ pc' = [pc EXCEPT ![t] = "pushed"]
            /\ UNCHANGED <<data, kind, using, holding>>
       ELSE /\ kind' = [kind EXCEPT ![d] = "none"]
            /\ data' = [data EXCEPT ![holding[t]] = Null]
            /\ Goto(t, "out", Null, Null)
            /\ UNCHANGED list
    /\ UNCHANGED <<ref, refcount, poolcount, ppool, pool>>

\* One reference to the pool goes; with the last one buffer_pool_free frees every
\* entry of the list and the pool.
ListSet == {list[i] : i \in DOMAIN list}
DropPool ==
    /\ poolcount' = poolcount - 1
    /\ IF Last(poolcount)
       THEN /\ kind' = [d \in Blocks |-> IF d \in ListSet THEN "none" ELSE kind[d]]
            /\ list' = <<>> /\ pool' = "freed"
       ELSE UNCHANGED <<kind, list, pool>>

\* The rest of pool_release_buffer after the mutex was released, and the free of
\* the AVBuffer in buffer_replace.
Pushed(t) ==
    /\ pc[t] = "pushed"
    /\ DropPool
    /\ data' = [data EXCEPT ![holding[t]] = Null]
    /\ Goto(t, "out", Null, Null)
    /\ UNCHANGED <<ref, refcount, ppool>>

\* av_buffer_pool_uninit.  Its caller owns the pointer: no thread is in
\* av_buffer_pool_get with it.  Buffers may be out, and on their way back.
Uninit(t) ==
    /\ pc[t] = "out" /\ ppool = "set"
    /\ \A u \in Threads : pc[u] # "got"
    /\ ppool' = "null"
    /\ DropPool
    /\ UNCHANGED <<ref, refcount, data, pc, using, holding>>

-----------------------------------------------------------------------------
\* av_buffer_is_writable, for buffers without AV_BUFFER_FLAG_READONLY.  The variant
\* accepts a shared buffer.
WritableShared(b) == refcount[b] >= 1
Writable(b) == refcount[b] = 1

\* av_buffer_make_writable, and av_buffer_realloc to another size: a buffer that is
\* not writable is copied to a new one; av_buffer_realloc copies a writable one too
\* if it is not reallocatable or its AVBufferRef points into the middle, and moves
\* its data otherwise.  The user writes to a writable buffer.
StartWrite(t) ==
    /\ pc[t] = "out"
    /\ \E r \in Usable :
          /\ Writable(ref[r])
          /\ Goto(t, "write", r, Null)
    /\ UNCHANGED <<ref, refcount, data, kind, poolVars>>

Reallocate(t) ==
    /\ pc[t] = "out"
    /\ \E r \in Usable, new \in NewBlock :
          /\ Writable(ref[r]) /\ kind[data[ref[r]]] = "reallocatable"
          /\ kind' = [kind EXCEPT ![data[ref[r]]] = "none", ![new] = "reallocatable"]
          /\ data' = [data EXCEPT ![ref[r]] = new]
    /\ UNCHANGED <<ref, refcount, poolVars, pc, using, holding>>

StartCopy(t) ==
    /\ pc[t] = "out"
    /\ \E r \in Usable, b \in NewBuf, d \in NewBlock, k \in {"default", "reallocatable"} :
          /\ ~Writable(ref[r]) \/ k = "reallocatable"
          /\ Create(b, d)
          /\ kind' = [kind EXCEPT ![d] = k]
          /\ Goto(t, "copy", r, b)
    /\ UNCHANGED <<ref, poolVars>>

\* buffer_replace with the copy: the caller's AVBufferRef now points to it.
Replace(t) ==
    /\ pc[t] = "copy"
    /\ ref' = [ref EXCEPT ![using[t]] = holding[t]]
    /\ Drop(t, ref[using[t]])
    /\ UNCHANGED <<data, kind, poolVars>>

EndWrite(t) ==
    /\ pc[t] = "write"
    /\ Goto(t, "out", Null, Null)
    /\ UNCHANGED <<ref, refcount, data, kind, poolVars>>

Next ==
    \E t \in Threads :
        \/ Alloc(t) \/ PoolGet(t) \/ PoolGot(t) \/ Ref(t) \/ Unref(t)
        \/ FreeData(t) \/ Pushed(t) \/ Uninit(t)
        \/ StartWrite(t) \/ Reallocate(t) \/ StartCopy(t) \/ Replace(t) \/ EndWrite(t)

Spec == Init /\ [][Next]_vars

-----------------------------------------------------------------------------
\* The types of the variables.
TypeOK ==
    /\ ref \in [Refs -> Bufs \cup {Null}] /\ refcount \in [Bufs -> Nat]
    /\ data \in [Bufs -> Blocks \cup {Null}]
    /\ kind \in [Blocks -> {"none", "default", "reallocatable", "pool"}]
    /\ list \in Seq(Blocks) /\ poolcount \in Nat
    /\ ppool \in {"set", "null"} /\ pool \in {"allocated", "freed"}
    /\ pc \in [Threads -> {"out", "got", "free", "pushed", "write", "copy"}]
    /\ using \in [Threads -> Refs \cup {Null}] /\ holding \in [Threads -> Bufs \cup {Null}]

At(label) == {t \in Threads : pc[t] = label}

\* The AVBufferRefs that point to b.
RefsTo(b) == {r \in Refs : ref[r] = b}

\* Every count is the number of references: av_buffer_get_ref_count counts the
\* AVBufferRefs, and b itself goes exactly when none is left.
RefcountExact ==
    \A b \in Bufs : refcount[b] = IF \E t \in At("copy") : holding[t] = b THEN 1
                                  ELSE Cardinality(RefsTo(b))

\* The buffers that are in use by somebody, and their blocks.
Live == {b \in Bufs : refcount[b] > 0 \/ \E t \in At("free") : holding[t] = b}

\* A block has one owner, a buffer in use or the list of the pool, although a
\* buffer is pushed on the list before its AVBuffer is freed and may be taken by
\* another thread at once; and nobody uses a block that was freed.
OneOwner ==
    /\ \A b \in Live : data[b] # Null /\ kind[data[b]] # "none" /\ data[b] \notin ListSet
    /\ \A b, c \in Live : data[b] = data[c] => b = c
    /\ \A i, j \in DOMAIN list : list[i] = list[j] => i = j
    /\ \A i \in DOMAIN list : kind[list[i]] = "pool"

\* The buffers of the pool that are counted: not yet those just taken, still those
\* on their way back, although their block may be out again.
Out == {b \in Bufs : /\ data[b] # Null /\ kind[data[b]] = "pool"
                     /\ \A t \in At("got") : holding[t] # b}

\* "refcount reaches zero when the buffer has been uninited AND all the buffers have
\* been released": the pool is freed then and not before, although the count goes
\* up only after a buffer was taken and down only after it was given back.
PoolLives ==
    /\ pool = "freed" => ppool = "null" /\ list = <<>> /\ At("got") = {} /\ At("pushed") = {}
    /\ pool = "freed" => \A b \in Live : kind[data[b]] # "pool"
    /\ poolcount = Cardinality(Out) + (IF ppool = "set" THEN 1 ELSE 0)

\* Nothing leaks: when all references are gone and no thread is at work, no block is
\* left but those on the list of a pool its owner still has.
NothingLeaks ==
    ((\A r \in Refs : ref[r] = Null) /\ \A t \in Threads : pc[t] = "out") =>
        /\ ppool = "null" => pool = "freed"
        /\ \A d \in Blocks : kind[d] = "none" \/ d \in ListSet

\* A buffer that is written to has no other reference and is not being copied,
\* although av_buffer_make_writable looks at the count without any lock.
WriterAlone ==
    \A t \in At("write") :
        /\ RefsTo(ref[using[t]]) = {using[t]}
        /\ \A u \in At("copy") : ref[using[u]] # ref[using[t]]
=============================================================================
