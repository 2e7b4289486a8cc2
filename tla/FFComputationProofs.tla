------------------------ MODULE FFComputationProofs ------------------------
(***************************************************************************)
(* What holds of computations, operators and buffers for every size of the *)
(* table of operators, every set of functions and of buffers, and every    *)
(* bound on the counts.  The operators rest on the invariant of the index  *)
(* manager: the index it lends is in nobody's hands.                       *)
(***************************************************************************)
EXTENDS FFComputation, FFArmanProofs

-----------------------------------------------------------------------------
(* Operators. *)

OperatorInv == IInv /\ OperatorTypeOK /\ HandlesLead /\ LentIfCustom

(* The index that ffarman_get gives is one that nobody holds. *)
LEMMA LentIndexIsFree ==
  ASSUME IInv, GetIndex
  PROVE  res' \in Index \ held /\ held' = held \cup {res'}
<1>1. idx[Head(free_entries)] \in Index \ held
  BY Pop DEF IInv, TypeOK, FreeListExact, GetIndex
<1>2. QED
  BY <1>1 DEF GetIndex

LEMMA InitOperatorInv == OperatorInit => OperatorInv
<1>1. SUFFICES ASSUME OperatorInit PROVE OperatorInv
  OBVIOUS
<1>2. IInv /\ held = {}
  BY <1>1, InitIInv DEF OperatorInit, Init
<1>3. OperatorTypeOK /\ HandlesLead
  BY <1>1 DEF OperatorInit, OperatorTypeOK, HandlesLead
<1>4. LentIfCustom
  BY <1>1, <1>2 DEF OperatorInit, LentIfCustom
<1>5. QED
  BY <1>2, <1>3, <1>4 DEF OperatorInv

(* ffop_gcomp_operator_custom_create stores into an entry that is no other *)
(* function's.                                                             *)
LEMMA CreateKeepsHandles ==
  ASSUME OperatorInv, NEW f \in Fun, OperatorCreate(f)
  PROVE  OperatorInv'
<1>1. IInv' /\ IInv
  BY GetIInv DEF OperatorInv, OperatorCreate
<1>2. res' \in Index \ held /\ held' = held \cup {res'}
  BY <1>1, LentIndexIsFree DEF OperatorCreate
<1>3. /\ handle_of' = [handle_of EXCEPT ![f] = res']
      /\ custom_operators' = [custom_operators EXCEPT ![res'] =
                                [type |-> "FFCUSTOM", op_fun |-> f]]
      /\ stale' = stale /\ stolen' = stolen
  BY DEF OperatorCreate
<1>4. OperatorTypeOK'
  BY <1>2, <1>3 DEF OperatorInv, OperatorTypeOK
<1>5. HandlesLead'
  <2>1. SUFFICES ASSUME NEW g \in Fun \ stolen, handle_of'[g] # NoIndex
                 PROVE  /\ handle_of'[g] \in held'
                        /\ custom_operators'[handle_of'[g]] =
                              [type |-> "FFCUSTOM", op_fun |-> g]
    BY <1>3 DEF HandlesLead
  <2>2. CASE g = f
    BY <1>2, <1>3, <2>2 DEF OperatorInv, OperatorTypeOK
  <2>3. CASE g # f
    <3>1. handle_of'[g] = handle_of[g]
      BY <1>3, <2>3 DEF OperatorInv, OperatorTypeOK
    <3>2. /\ handle_of[g] \in held
          /\ custom_operators[handle_of[g]] = [type |-> "FFCUSTOM", op_fun |-> g]
      BY <2>1, <3>1 DEF OperatorInv, HandlesLead
    <3>3. handle_of[g] # res' /\ handle_of[g] \in Index
      BY <1>2, <2>1, <3>1, <3>2 DEF OperatorInv, OperatorTypeOK
    <3>4. QED
      BY <1>2, <1>3, <3>1, <3>2, <3>3 DEF OperatorInv, OperatorTypeOK
  <2>4. QED
    BY <2>2, <2>3
<1>6. LentIfCustom'
  <2>1. \A i \in Index : custom_operators'[i] =
          IF i = res' THEN [type |-> "FFCUSTOM", op_fun |-> f] ELSE custom_operators[i]
    BY <1>2, <1>3 DEF OperatorInv, OperatorTypeOK
  <2>2. \A i \in Index : custom_operators'[i].type = "FFCUSTOM" <=> i \in held'
    BY <1>2, <2>1 DEF OperatorInv, LentIfCustom
  <2>3. ASSUME NEW i \in stale' \cup ({handle_of'[g] : g \in Fun} \ {NoIndex})
        PROVE  custom_operators'[i].type # "unset"
    <3>1. i # res' => i \in Index /\ custom_operators[i].type # "unset"
      <4>1. CASE i \in stale'
        BY <1>3, <4>1 DEF OperatorInv, OperatorTypeOK, LentIfCustom
      <4>2. CASE i \in {handle_of'[g] : g \in Fun} \ {NoIndex}
        <5>1. PICK g \in Fun : i = handle_of'[g]
          BY <4>2
        <5>2. handle_of'[g] = IF g = f THEN res' ELSE handle_of[g]
          BY <1>3 DEF OperatorInv, OperatorTypeOK
        <5>3. i = res' \/ i \in {handle_of[h] : h \in Fun} \ {NoIndex}
          BY <4>2, <5>1, <5>2
        <5>4. handle_of[g] \in Index \cup {NoIndex}
          BY DEF OperatorInv, OperatorTypeOK
        <5>5. QED
          BY <4>2, <5>1, <5>2, <5>3, <5>4 DEF OperatorInv, LentIfCustom
      <4>3. QED
        BY <2>3, <4>1, <4>2
    <3>2. QED
      BY <1>2, <2>1, <3>1
  <2>4. QED
    BY <2>2, <2>3 DEF LentIfCustom
<1>7. QED
  BY <1>1, <1>4, <1>5, <1>6 DEF OperatorInv

(* What ffop_gcomp_operator_custom_delete leaves of the table, if the      *)
(* entry was not deleted before.                                           *)
LEMMA DeletedEntry ==
  ASSUME OperatorInv, NEW i \in Index, custom_delete(i)
  PROVE  /\ IInv' /\ custom_operators'[i].type = "FFNONE"
         /\ \A j \in Index : j # i => custom_operators'[j] = custom_operators[j]
         /\ held' = held \ {i} /\ held' \subseteq Index
         /\ custom_operators' \in [Index -> [type : {"unset", "FFCUSTOM", "FFNONE"},
                                             op_fun : Fun \cup {NULL}]]
<1>1. CASE custom_operators[i].type = "FFNONE"
  <2>1. UNCHANGED <<vars, custom_operators>>
    BY <1>1 DEF custom_delete
  <2>2. IInv'
    BY <2>1, NextIInv DEF OperatorInv
  <2>3. i \notin held
    BY <1>1 DEF OperatorInv, LentIfCustom
  <2>4. QED
    BY <1>1, <2>1, <2>2, <2>3 DEF vars, OperatorInv, OperatorTypeOK, IInv, TypeOK
<1>2. CASE custom_operators[i].type # "FFNONE"
  <2>1. /\ custom_operators' = [custom_operators EXCEPT ![i].type = "FFNONE"]
        /\ Put(i)
    BY <1>2 DEF custom_delete
  <2>2. IInv' /\ held' = held \ {i} /\ held \subseteq Index
    BY <2>1, PutIInv DEF OperatorInv, Put, IInv, TypeOK
  <2>3. QED
    BY <2>1, <2>2 DEF OperatorInv, OperatorTypeOK
<1>3. QED
  BY <1>1, <1>2

(* It takes an entry from nobody but those who are counted as stolen from. *)
LEMMA DeleteKeepsHandles ==
  ASSUME OperatorInv, NEW i \in Index, custom_delete(i),
         handle_of' \in [Fun -> Index \cup {NoIndex}],
         stale' \subseteq Index, stolen' \subseteq Fun,
         \A g \in Fun \ stolen' : handle_of'[g] # NoIndex =>
            g \notin stolen /\ handle_of'[g] = handle_of[g] /\ handle_of[g] # i,
         \A j \in stale' \cup ({handle_of'[g] : g \in Fun} \ {NoIndex}) :
            j \in stale \cup ({handle_of[g] : g \in Fun} \ {NoIndex})
  PROVE  OperatorInv'
<1>1. /\ IInv' /\ custom_operators'[i].type = "FFNONE"
      /\ \A j \in Index : j # i => custom_operators'[j] = custom_operators[j]
      /\ held' = held \ {i}
      /\ custom_operators' \in [Index -> [type : {"unset", "FFCUSTOM", "FFNONE"},
                                          op_fun : Fun \cup {NULL}]]
  BY DeletedEntry
<1>2. OperatorTypeOK'
  BY <1>1 DEF OperatorTypeOK
<1>3. HandlesLead'
  <2>1. SUFFICES ASSUME NEW g \in Fun \ stolen', handle_of'[g] # NoIndex
                 PROVE  /\ handle_of'[g] \in held'
                        /\ custom_operators'[handle_of'[g]] =
                              [type |-> "FFCUSTOM", op_fun |-> g]
    BY DEF HandlesLead
  <2>2. g \notin stolen /\ handle_of'[g] = handle_of[g] /\ handle_of[g] # i
    BY <2>1
  <2>3. /\ handle_of[g] \in held /\ handle_of[g] \in Index
        /\ custom_operators[handle_of[g]] = [type |-> "FFCUSTOM", op_fun |-> g]
    BY <2>1, <2>2 DEF OperatorInv, OperatorTypeOK, HandlesLead
  <2>4. QED
    BY <1>1, <2>2, <2>3
<1>4. LentIfCustom'
  <2>1. \A j \in Index : custom_operators'[j].type = "FFCUSTOM" <=> j \in held'
    BY <1>1 DEF OperatorInv, LentIfCustom
  <2>2. ASSUME NEW j \in stale' \cup ({handle_of'[g] : g \in Fun} \ {NoIndex})
        PROVE  custom_operators'[j].type # "unset"
    <3>1. j \in Index /\ custom_operators[j].type # "unset"
      BY <2>2 DEF OperatorInv, OperatorTypeOK, LentIfCustom
    <3>2. QED
      BY <1>1, <3>1
  <2>3. QED
    BY <2>1, <2>2 DEF LentIfCustom
<1>5. QED
  BY <1>1, <1>2, <1>3, <1>4 DEF OperatorInv

LEMMA NextOperatorInv ==
  ASSUME OperatorInv, OperatorNext \/ UNCHANGED <<vars, operatorVars>>
  PROVE  OperatorInv'
<1>1. CASE \E f \in Fun : OperatorCreate(f)
  BY <1>1, CreateKeepsHandles
<1>2. CASE \E f \in Fun : OperatorCreateFull(f)
  <2>1. GetNothing /\ UNCHANGED operatorVars
    BY <1>2 DEF OperatorCreateFull
  <2>2. IInv' /\ held' = held
    BY <2>1, NextIInv DEF Next, OperatorInv, GetNothing
  <2>3. QED
    BY <2>1, <2>2 DEF operatorVars, OperatorInv, OperatorTypeOK, HandlesLead,
       LentIfCustom
<1>3. ASSUME NEW f \in Fun, OperatorDelete(f) PROVE OperatorInv'
  <2> DEFINE i == handle_of[f]
  <2>1. /\ i \in Index /\ custom_delete(i)
        /\ handle_of' = [handle_of EXCEPT ![f] = NoIndex]
        /\ stale' = stale \cup {i}
        /\ stolen' = (stolen \cup Registered(i)) \ {f}
    BY <1>3 DEF OperatorDelete, OperatorInv, OperatorTypeOK
  <2>2. /\ handle_of' \in [Fun -> Index \cup {NoIndex}] /\ handle_of'[f] = NoIndex
        /\ \A g \in Fun : g # f => handle_of'[g] = handle_of[g]
        /\ stale' \subseteq Index /\ stolen' \subseteq Fun
    BY <2>1 DEF OperatorInv, OperatorTypeOK, Registered
  <2>3. \A g \in Fun \ stolen' : handle_of'[g] # NoIndex =>
           g \notin stolen /\ handle_of'[g] = handle_of[g] /\ handle_of[g] # i
    BY <2>1, <2>2 DEF Registered
  <2>4. i # NoIndex
    BY <1>3 DEF OperatorDelete
  <2>5. \A j \in stale' \cup ({handle_of'[g] : g \in Fun} \ {NoIndex}) :
           j \in stale \cup ({handle_of[g] : g \in Fun} \ {NoIndex})
    BY <2>1, <2>2, <2>4
  <2> HIDE DEF i
  <2>6. QED
    BY <2>1, <2>2, <2>3, <2>5, DeleteKeepsHandles
<1>4. ASSUME NEW i \in Index, OperatorDeleteAgain(i) PROVE OperatorInv'
  <2>1. /\ custom_delete(i) /\ handle_of' = handle_of /\ stale' = stale
        /\ stolen' = stolen \cup Registered(i)
    BY <1>4 DEF OperatorDeleteAgain
  <2>2. /\ handle_of' \in [Fun -> Index \cup {NoIndex}]
        /\ stale' \subseteq Index /\ stolen' \subseteq Fun
    BY <2>1 DEF OperatorInv, OperatorTypeOK, Registered
  <2>3. \A g \in Fun \ stolen' : handle_of'[g] # NoIndex =>
           g \notin stolen /\ handle_of'[g] = handle_of[g] /\ handle_of[g] # i
    BY <2>1 DEF Registered
  <2>4. QED
    BY <2>1, <2>2, <2>3, DeleteKeepsHandles
<1>5. CASE UNCHANGED <<vars, operatorVars>>
  <2>1. IInv'
    BY <1>5, NextIInv DEF OperatorInv
  <2>2. QED
    BY <1>5, <2>1 DEF vars, operatorVars, OperatorInv, OperatorTypeOK, HandlesLead,
       LentIfCustom
<1>6. QED
  BY <1>1, <1>2, <1>3, <1>4, <1>5 DEF OperatorNext

-----------------------------------------------------------------------------
(* Buffers. *)

(* As long as a buffer has had memory of one owner, selfalloc tells whose. *)
SelfallocRight ==
  \A b \in Buffer : Live(b) /\ ~mixed[b] => ~Mishandled(b)
CountFits == \A b \in Buffer : Live(b) => buf[b].count <= buf[b].size

BufferInv == BufferTypeOK /\ OwnMemory /\ SelfallocRight /\ CountFits

LEMMA InitBufferInv == BufferInit => BufferInv
BY DEF BufferInit, BufferInv, BufferTypeOK, OwnMemory, SelfallocRight,
       CountFits, Live

(* ffbuffer_create, ffbuffer_resize and ffbuffer_delete. *)
LEMMA CreateBufferInv ==
  ASSUME BufferInv, NEW b \in Buffer, NEW n \in 1 .. MaxCount,
         NEW owner \in Owner, BufferCreate(b, owner, n)
  PROVE  BufferInv'
<1> DEFINE d == [selfalloc |-> owner = "library", count |-> n,
                 owner |-> owner, size |-> n]
<1>1. /\ d \in Descriptor
      /\ buf' = [buf EXCEPT ![b] = d]
      /\ mixed' = [mixed EXCEPT ![b] = FALSE]
      /\ misused' = [misused EXCEPT ![b] = FALSE]
  BY DEF BufferCreate, Descriptor
<1>2. BufferTypeOK'
  BY <1>1 DEF BufferInv, BufferTypeOK
<1>3. OwnMemory'
  BY <1>1 DEF BufferInv, BufferTypeOK, OwnMemory
<1>4. SelfallocRight'
  BY <1>1 DEF BufferInv, BufferTypeOK, SelfallocRight, Live, Mishandled
<1>5. CountFits'
  BY <1>1 DEF BufferInv, BufferTypeOK, CountFits, Live
<1>6. QED
  BY <1>2, <1>3, <1>4, <1>5 DEF BufferInv

LEMMA ResizeBufferInv ==
  ASSUME BufferInv, NEW b \in Buffer, NEW n \in 1 .. MaxCount,
         BufferResize(b, n)
  PROVE  BufferInv'
<1>1. buf[b] \in Descriptor /\ mixed[b] \in BOOLEAN /\ misused[b] \in BOOLEAN
  BY DEF BufferInv, BufferTypeOK, BufferResize, Live
<1>2. CASE n > buf[b].count
  <2> DEFINE d == [buf[b] EXCEPT !.count = n, !.size = n, !.owner = "library"]
  <2>1. /\ d \in Descriptor
        /\ buf' = [buf EXCEPT ![b] = d]
        /\ mixed' = [mixed EXCEPT ![b] = @ \/ buf[b].owner = "application"]
        /\ misused' = [misused EXCEPT ![b] = @ \/ buf[b].owner = "application"]
    BY <1>1, <1>2 DEF BufferResize, Descriptor, Owner
  <2>2. BufferTypeOK'
    BY <1>1, <2>1 DEF BufferInv, BufferTypeOK
  <2>3. OwnMemory'
    BY <1>1, <2>1 DEF BufferInv, BufferTypeOK, OwnMemory
  <2>4. SelfallocRight'
    <3>1. ~mixed'[b] => buf[b].owner = "library" /\ ~Mishandled(b)
      BY <1>1, <2>1 DEF BufferInv, BufferTypeOK, SelfallocRight, BufferResize,
                        Descriptor, Owner
    <3>2. ~mixed'[b] => ~Mishandled(b)'
      BY <1>1, <2>1, <3>1 DEF BufferInv, BufferTypeOK, Mishandled, Descriptor
    <3>3. QED
      BY <2>1, <3>2 DEF BufferInv, BufferTypeOK, SelfallocRight, Live, Mishandled
  <2>5. CountFits'
    BY <1>1, <2>1 DEF BufferInv, BufferTypeOK, CountFits, Live, Descriptor
  <2>6. QED
    BY <2>2, <2>3, <2>4, <2>5 DEF BufferInv
<1>3. CASE ~(n > buf[b].count)
  <2> DEFINE d == [buf[b] EXCEPT !.count = n]
  <2>1. /\ d \in Descriptor
        /\ buf' = [buf EXCEPT ![b] = d]
        /\ mixed' = mixed
        /\ misused' = misused
    <3>1. d \in Descriptor
      BY <1>1 DEF Descriptor
    <3>2. buf' = [buf EXCEPT ![b] = d]
      BY <1>3 DEF BufferResize
    <3>3. /\ mixed' = [mixed EXCEPT ![b] = mixed[b]]
          /\ misused' = [misused EXCEPT ![b] = misused[b]]
      BY <1>1, <1>3 DEF BufferResize
    <3>4. QED
      BY <3>1, <3>2, <3>3 DEF BufferInv, BufferTypeOK
  <2>2. BufferTypeOK'
    BY <2>1 DEF BufferInv, BufferTypeOK
  <2>3. OwnMemory'
    BY <2>1 DEF BufferInv, OwnMemory
  <2>4. SelfallocRight'
    <3>1. d.selfalloc = buf[b].selfalloc /\ d.owner = buf[b].owner
      BY <1>1 DEF Descriptor
    <3>2. buf'[b] = d /\ \A c \in Buffer \ {b} : buf'[c] = buf[c]
      BY <2>1 DEF BufferInv, BufferTypeOK
    <3>3. ~mixed[b] => ~Mishandled(b)
      BY DEF BufferInv, SelfallocRight, BufferResize
    <3>4. Mishandled(b)' <=> Mishandled(b)
      BY <3>1, <3>2 DEF Mishandled
    <3>5. QED
      BY <2>1, <3>2, <3>3, <3>4 DEF BufferInv, SelfallocRight, Live, Mishandled
  <2>5. CountFits'
    <3>1. n <= buf[b].count /\ buf[b].count <= buf[b].size
      BY <1>1, <1>3 DEF BufferInv, CountFits, Descriptor, BufferResize
    <3>2. n <= buf[b].size
      BY <1>1, <3>1 DEF Descriptor
    <3>3. QED
      BY <1>1, <2>1, <3>2 DEF BufferInv, BufferTypeOK, CountFits, Live, Descriptor
  <2>6. QED
    BY <2>2, <2>3, <2>4, <2>5 DEF BufferInv
<1>4. QED
  BY <1>2, <1>3

LEMMA MoveBufferInv ==
  ASSUME BufferInv, NEW b \in Buffer, NEW n \in 1 .. MaxCount,
         BufferMove(b, n)
  PROVE  BufferInv'
<1>1. buf[b] \in Descriptor /\ mixed[b] \in BOOLEAN /\ misused[b] \in BOOLEAN
  BY DEF BufferInv, BufferTypeOK, BufferMove, Live
<1> DEFINE d == [buf[b] EXCEPT !.count = n, !.size = n, !.owner = "application"]
<1>2. /\ d \in Descriptor
      /\ buf' = [buf EXCEPT ![b] = d]
      /\ mixed' = [mixed EXCEPT ![b] = @ \/ buf[b].owner = "library"]
      /\ misused' = [misused EXCEPT ![b] = @ \/ Mishandled(b)]
  BY <1>1 DEF BufferMove, Descriptor, Owner
<1>3. Mishandled(b) => mixed[b]
  BY <1>1 DEF BufferInv, SelfallocRight, BufferMove
<1>4. BufferTypeOK'
  BY <1>1, <1>2 DEF BufferInv, BufferTypeOK, Mishandled
<1>5. OwnMemory'
  BY <1>1, <1>2, <1>3 DEF BufferInv, BufferTypeOK, OwnMemory, Mishandled
<1>6. SelfallocRight'
  <2>1. ~mixed'[b] => buf[b].owner = "application" /\ ~Mishandled(b)
    BY <1>1, <1>2, <1>3 DEF BufferInv, BufferTypeOK, Descriptor, Owner
  <2>2. ~mixed'[b] => ~Mishandled(b)'
    BY <1>1, <1>2, <2>1 DEF BufferInv, BufferTypeOK, Mishandled, Descriptor
  <2>3. QED
    BY <1>2, <2>2 DEF BufferInv, BufferTypeOK, SelfallocRight, Live, Mishandled
<1>7. CountFits'
  BY <1>1, <1>2 DEF BufferInv, BufferTypeOK, CountFits, Live, Descriptor
<1>8. QED
  BY <1>4, <1>5, <1>6, <1>7 DEF BufferInv

LEMMA DeleteBufferInv ==
  ASSUME BufferInv, NEW b \in Buffer, BufferDelete(b)
  PROVE  BufferInv'
<1>1. buf[b] \in Descriptor /\ mixed[b] \in BOOLEAN /\ misused[b] \in BOOLEAN
  BY DEF BufferInv, BufferTypeOK, BufferDelete, Live
<1>2. /\ buf' = [buf EXCEPT ![b] = NoBuffer]
      /\ mixed' = mixed
      /\ misused' = [misused EXCEPT ![b] = @ \/ Mishandled(b)]
  BY DEF BufferDelete
<1>3. Mishandled(b) => mixed[b]
  BY <1>1 DEF BufferInv, SelfallocRight, BufferDelete
<1>4. BufferTypeOK'
  BY <1>1, <1>2 DEF BufferInv, BufferTypeOK, Mishandled
<1>5. OwnMemory'
  BY <1>1, <1>2, <1>3 DEF BufferInv, BufferTypeOK, OwnMemory, Mishandled
<1>6. SelfallocRight'
  BY <1>2 DEF BufferInv, BufferTypeOK, SelfallocRight, Live, Mishandled
<1>7. CountFits'
  BY <1>2 DEF BufferInv, BufferTypeOK, CountFits, Live
<1>8. QED
  BY <1>4, <1>5, <1>6, <1>7 DEF BufferInv

LEMMA NextBufferInv ==
  ASSUME BufferInv, Buffers \/ UNCHANGED bufferVars
  PROVE  BufferInv'
<1>1. CASE UNCHANGED bufferVars
  BY <1>1 DEF bufferVars, BufferInv, BufferTypeOK, OwnMemory, SelfallocRight,
              CountFits, Live, Mishandled
<1>2. CASE Buffers
  BY <1>2, CreateBufferInv, ResizeBufferInv, MoveBufferInv, DeleteBufferInv
     DEF Buffers
<1>3. QED
  BY <1>1, <1>2

-----------------------------------------------------------------------------
(* Computations. *)

(* The buffers of a computation are not deleted before it. *)
BuffersThere == comp # NoComp => Live(buffer1) /\ Live(buffer3)

CompTypeOK ==
  /\ comp.operator_type \in Int \cup {NoIndex}
  /\ comp.ret \in {"FFSUCCESS", "FFINVALID_ARG", "FFERROR"}
  /\ comp.op_fun \in Fun \cup {"sum", "copy", "other", NULL}
  /\ comp.meant \in Fun \cup {"sum", "copy", NULL}

CompInv == OperatorInv /\ BufferInv /\ CompTypeOK /\ ComputesAsBuilt /\ BuffersThere

LEMMA InitCompInv == ComputationInit => CompInv
BY InitOperatorInv, InitBufferInv
   DEF ComputationInit, CompInv, CompTypeOK, ComputesAsBuilt, Applied,
       BuffersThere, NoComp

(* What ffop_gcomp_operator_get can give for any number.                   *)
LEMMA Got ==
  ASSUME OperatorInv, NEW h \in Int
  PROVE  /\ operator_get(h)[1] \in {"FFSUCCESS", "FFINVALID_ARG"}
         /\ operator_get(h)[2] \in Fun \cup {"sum", "copy", "other", NULL}
<1>1. CASE h \in 0 .. FFOPERATOR_SENTINEL - 1
  <2>1. operator_get(h) = <<"FFSUCCESS", operators[h]>>
    BY <1>1 DEF operator_get, FFOPERATOR_SENTINEL, FFCUSTOM, Index
  <2>2. operators[h] \in {"sum", "copy", NULL}
    BY <1>1 DEF operators
  <2>3. QED
    BY <2>1, <2>2
<1>2. CASE h - FFCUSTOM \in Index
  <2>1. operator_get(h) = <<"FFSUCCESS", custom_operators[h - FFCUSTOM].op_fun>>
    BY <1>2, CountAssumption DEF operator_get, FFOPERATOR_SENTINEL, FFCUSTOM, Index
  <2>2. custom_operators[h - FFCUSTOM].op_fun \in Fun \cup {NULL}
    BY <1>2 DEF OperatorInv, OperatorTypeOK
  <2>3. QED
    BY <2>1, <2>2
<1>3. CASE ~(h \in 0 .. FFOPERATOR_SENTINEL - 1) /\ ~(h - FFCUSTOM \in Index)
  BY <1>3 DEF operator_get
<1>4. QED
  BY <1>1, <1>2, <1>3

(* A number that is meant for something leads to that.                     *)
LEMMA GotMeant ==
  ASSUME OperatorInv
  PROVE  /\ operator_get(FFSUM) = <<"FFSUCCESS", "sum">>
         /\ operator_get(FFIDENTITY) = <<"FFSUCCESS", "copy">>
         /\ \A f \in Fun \ stolen : handle_of[f] # NoIndex =>
              /\ operator_get(FFCUSTOM + handle_of[f]) = <<"FFSUCCESS", f>>
              /\ FFCUSTOM + handle_of[f] \in Int
<1>1. operator_get(FFSUM) = <<"FFSUCCESS", "sum">>
  BY DEF operator_get, operators, FFSUM, FFIDENTITY, FFOPERATOR_SENTINEL, FFCUSTOM,
     Index
<1>2. operator_get(FFIDENTITY) = <<"FFSUCCESS", "copy">>
  BY DEF operator_get, operators, FFSUM, FFIDENTITY, FFOPERATOR_SENTINEL, FFCUSTOM,
     Index
<1>3. ASSUME NEW f \in Fun \ stolen, handle_of[f] # NoIndex
      PROVE  /\ operator_get(FFCUSTOM + handle_of[f]) = <<"FFSUCCESS", f>>
             /\ FFCUSTOM + handle_of[f] \in Int
  <2>1. /\ handle_of[f] \in Index
        /\ custom_operators[handle_of[f]] = [type |-> "FFCUSTOM", op_fun |-> f]
    BY <1>3 DEF OperatorInv, OperatorTypeOK, HandlesLead
  <2>2. /\ FFCUSTOM + handle_of[f] \in Int
        /\ (FFCUSTOM + handle_of[f]) - FFCUSTOM = handle_of[f]
        /\ FFCUSTOM + handle_of[f] \notin 0 .. FFOPERATOR_SENTINEL - 1
        /\ FFCUSTOM + handle_of[f] # FFOPERATOR_SENTINEL
    BY <2>1, CountAssumption DEF Index, FFCUSTOM, FFOPERATOR_SENTINEL
  <2>3. QED
    BY <2>1, <2>2 DEF operator_get
<1>4. QED
  BY <1>1, <1>2, <1>3

(* A handle leads to the function it was given for when a computation is   *)
(* built, and the computation keeps that function.                         *)
LEMMA BuildComputes ==
  ASSUME CompInv, BuildMeant \/ BuildAny
  PROVE  CompTypeOK' /\ ComputesAsBuilt' /\ BuffersThere'
<1>1. PICK h \in Int, f \in Fun \cup {"sum", "copy", NULL} :
        /\ Build(h, f)
        /\ f # NULL => operator_get(h) = <<"FFSUCCESS", f>>
  <2>1. CASE BuildMeant
    BY <2>1, GotMeant DEF BuildMeant, CompInv, FFSUM, FFIDENTITY
  <2>2. CASE BuildAny
    BY <2>2, PassedAssumption DEF BuildAny
  <2>3. QED
    BY <2>1, <2>2
<1>2. comp' = [operator_type |-> h, ret |-> operator_get(h)[1],
               op_fun |-> operator_get(h)[2], meant |-> f]
  BY <1>1 DEF Build
<1>3. CompTypeOK'
  BY <1>2, Got DEF CompInv, CompTypeOK
<1>4. ComputesAsBuilt'
  BY <1>1, <1>2 DEF ComputesAsBuilt, Applied
<1>5. BuffersThere'
  BY <1>1 DEF Build, BuffersThere, Live, bufferVars
<1>6. QED
  BY <1>3, <1>4, <1>5

LEMMA NextCompInv == CompInv /\ [ComputationNext]_computationVars => CompInv'
<1> SUFFICES ASSUME CompInv, [ComputationNext]_computationVars PROVE CompInv'
  OBVIOUS
<1>1. OperatorInv'
  <2>1. OperatorNext \/ UNCHANGED <<vars, operatorVars>>
    BY DEF ComputationNext, computationVars, BuildMeant, BuildAny, Build, Drop,
           Operators, Buffers
  <2>2. QED
    BY <2>1, NextOperatorInv DEF CompInv
<1>2. BufferInv'
  <2>1. Buffers \/ UNCHANGED bufferVars
    BY DEF ComputationNext, computationVars, BuildMeant, BuildAny, Build, Drop,
           Operators, bufferVars
  <2>2. QED
    BY <2>1, NextBufferInv DEF CompInv
<1>3. CompTypeOK' /\ ComputesAsBuilt' /\ BuffersThere'
  <2>1. CASE BuildMeant \/ BuildAny
    BY <2>1, BuildComputes
  <2>2. CASE Drop
    BY <2>2 DEF Drop, CompTypeOK, ComputesAsBuilt, BuffersThere, NoComp
  <2>3. CASE Operators \/ UNCHANGED computationVars
    BY <2>3 DEF Operators, computationVars, CompInv, CompTypeOK,
                ComputesAsBuilt, Applied,
                BuffersThere, Live, bufferVars
  <2>4. CASE Buffers
    <3>1. comp' = comp
      BY <2>4 DEF Buffers
    <3>2. comp # NoComp => \A b \in Buffer : Live(b) => Live(b)'
      <4>1. SUFFICES ASSUME comp # NoComp, NEW b \in Buffer, Live(b)
                     PROVE  Live(b)'
        OBVIOUS
      <4>2. PICK a \in Buffer, n \in 1 .. MaxCount :
               \/ \E owner \in Owner : BufferCreate(a, owner, n)
               \/ BufferResize(a, n) \/ BufferMove(a, n)
        BY <2>4, <4>1 DEF Buffers
      <4>3. CASE a # b
        BY <4>1, <4>2, <4>3 DEF BufferCreate, BufferResize, BufferMove, Live,
           CompInv, BufferInv, BufferTypeOK
      <4>4. CASE a = b
        <5>1. buf[b] \in Descriptor
          BY <4>1 DEF Live, CompInv, BufferInv, BufferTypeOK
        <5>2. buf'[b] \in Descriptor
          <6>1. CASE \E owner \in Owner : BufferCreate(a, owner, n)
            BY <4>1, <4>4, <6>1 DEF BufferCreate
          <6>2. CASE BufferResize(a, n)
            <7>1. /\ [buf[b] EXCEPT !.count = n] \in Descriptor
                  /\ [buf[b] EXCEPT !.count = n, !.size = n, !.owner = "library"]
                       \in Descriptor
              BY <5>1 DEF Descriptor, Owner
            <7>2. \/ buf'[b] = [buf[b] EXCEPT !.count = n]
                  \/ buf'[b] = [buf[b] EXCEPT !.count = n, !.size = n,
                                               !.owner = "library"]
              BY <4>4, <6>2 DEF BufferResize, CompInv, BufferInv, BufferTypeOK
            <7>3. QED
              BY <7>1, <7>2
          <6>3. CASE BufferMove(a, n)
            <7>1. [buf[b] EXCEPT !.count = n, !.size = n, !.owner = "application"]
                    \in Descriptor
              BY <5>1 DEF Descriptor, Owner
            <7>2. QED
              BY <4>4, <6>3, <7>1 DEF BufferMove, CompInv, BufferInv, BufferTypeOK
          <6>4. QED
            BY <4>2, <6>1, <6>2, <6>3
        <5>3. QED
          BY <5>2, NoBufferAssumption DEF Live
      <4>5. QED
        BY <4>3, <4>4
    <3>3. QED
      BY <3>1, <3>2, ComputationAssumption
         DEF CompInv, CompTypeOK, ComputesAsBuilt, Applied, BuffersThere
  <2>5. QED
    BY <2>1, <2>2, <2>3, <2>4 DEF ComputationNext
<1>4. QED
  BY <1>1, <1>2, <1>3 DEF CompInv

LEMMA CompInvariance == ComputationSpec => []CompInv
BY InitCompInv, NextCompInv, PTL DEF ComputationSpec

-----------------------------------------------------------------------------
(* Operators, buffers and computations keep their types. *)
THEOREM TypesCorrect == ComputationSpec => []ComputationTypeOK
<1>1. CompInv => ComputationTypeOK
  BY DEF CompInv, OperatorInv, IInv, BufferInv, CompTypeOK, ComputationTypeOK
<1>2. QED
  BY <1>1, CompInvariance, PTL

(* A handle stands for the function it was given for, whatever has been    *)
(* registered and deleted since, unless another of the same number was     *)
(* deleted (ffop_gcomp_operator.c:114-143); and however often a handle is  *)
(* deleted, and by whom, no index is given back that is not lent (line     *)
(* 137).                                                                   *)
THEOREM HandlesStand == ComputationSpec => []HandlesExact
<1>1. CompInv => HandlesExact
  BY DEF CompInv, OperatorInv, HandlesExact
<1>2. QED
  BY <1>1, CompInvariance, PTL

(* And a computation that is built for the sum, the copy or a registered   *)
(* function does that, whatever is deleted and registered meanwhile.       *)
COROLLARY BuiltMeansApplied == ComputationSpec => []ComputesAsBuilt
BY CompInvariance, PTL DEF CompInv

(* The library frees and reallocates only its own memory, and leaves none, *)
(* as long as a buffer has had memory of one owner (ffbuffer.c).           *)
THEOREM MemoryOwned == ComputationSpec => []OwnMemory
BY CompInvariance, PTL DEF CompInv, BufferInv

LEMMA CompInvInBounds == CompInv => InBounds
<1> SUFFICES ASSUME CompInv PROVE InBounds
  OBVIOUS
<1>1. \A b \in Buffer : Live(b) => /\ buf[b].count <= buf[b].size
                                   /\ buf[b].count \in Nat /\ buf[b].size \in Nat
  BY MaxCountAssumption DEF CompInv, BufferInv, CountFits, BufferTypeOK,
     Descriptor, Live
<1>2. comp # NoComp =>
        \A b \in {buffer1, buffer3} : Size(buffer1, buffer3) <= buf[b].size
  BY <1>1, ComputationAssumption DEF Size, CompInv, BuffersThere
<1>3. QED
  BY <1>1, <1>2 DEF InBounds

(* No send, receive or computation goes beyond the memory of its buffers,  *)
(* whatever has become of their counts since it was built.                 *)
THEOREM WithinMemory == ComputationSpec => []InBounds
BY CompInvariance, CompInvInBounds, PTL
=============================================================================
