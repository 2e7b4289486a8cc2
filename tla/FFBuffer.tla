------------------------------ MODULE FFBuffer ------------------------------
(***************************************************************************)
(* Buffers (src/ffbuffer.c): a count of elements and the memory they are   *)
(* in, which is the application's or comes from realloc.  The application  *)
(* gives an address with memory for as many elements as it says, and NULL  *)
(* to have the library find the memory.                                    *)
(*                                                                         *)
(* Elements are of one datatype, and memory does not run out.  The buffers *)
(* of type FFBUFFER_IDX cannot be used: nothing gives a post the set of    *)
(* buffers they would be an index into.                                    *)
(***************************************************************************)
EXTENDS Integers

CONSTANTS
  Buffer,    \* the buffers, by their blocks in buff_pool
  MaxCount,  \* bound on the counts
  NoBuffer   \* a block of buff_pool that is free

ASSUME MaxCountAssumption == MaxCount \in Nat \ {0}

VARIABLES
  buf,      \* selfalloc and count of each buffer, whose memory its ptr is
            \* and for how many elements that is
  mixed,    \* it has had memory of both owners
  misused   \* memory of the application's has been freed or reallocated, or
            \* memory of the library's was left behind

bufferVars == <<buf, mixed, misused>>

Owner == {"application", "library"}
Descriptor == [selfalloc : BOOLEAN, count : 1 .. MaxCount,
               owner : Owner, size : 1 .. MaxCount]

ASSUME NoBufferAssumption == NoBuffer \notin Descriptor

BufferTypeOK == /\ buf \in [Buffer -> Descriptor \cup {NoBuffer}]
                /\ mixed \in [Buffer -> BOOLEAN]
                /\ misused \in [Buffer -> BOOLEAN]

BufferInit == /\ buf = [b \in Buffer |-> NoBuffer]
              /\ mixed = [b \in Buffer |-> FALSE]
              /\ misused = [b \in Buffer |-> FALSE]

Live(b) == buf[b] # NoBuffer

-----------------------------------------------------------------------------
(* ffbuffer_create: with no address it is memory of its own. *)
BufferCreate(b, owner, n) ==
  /\ ~Live(b)
  /\ buf' = [buf EXCEPT ![b] = [selfalloc |-> owner = "library", count |-> n,
                                owner |-> owner, size |-> n]]
  /\ mixed' = [mixed EXCEPT ![b] = FALSE]
  /\ misused' = [misused EXCEPT ![b] = FALSE]

(* ffbuffer_resize without an address: only a count that is larger than    *)
(* the one before moves the buffer, to memory of that count.               *)
BufferResize(b, n) ==
  /\ Live(b)
  /\ LET grows == n > buf[b].count
         foreign == grows /\ buf[b].owner = "application"
     IN  /\ buf' = [buf EXCEPT ![b] =
               IF grows THEN [@ EXCEPT !.count = n, !.size = n, !.owner = "library"]
               ELSE [@ EXCEPT !.count = n]]
         /\ mixed' = [mixed EXCEPT ![b] = @ \/ foreign]
         /\ misused' = [misused EXCEPT ![b] = @ \/ foreign]

(* free, when selfalloc says so, of the memory a buffer has, or not. *)
Mishandled(b) == buf[b].selfalloc # (buf[b].owner = "library")

(* A resize that frees whatever memory the buffer had. *)
BufferMoveFreeing(b, n) ==
  /\ Live(b)
  /\ misused' = [misused EXCEPT ![b] = @ \/ buf[b].owner = "application"]
  /\ mixed' = [mixed EXCEPT ![b] = @ \/ buf[b].owner = "library"]
  /\ buf' = [buf EXCEPT ![b] =
               [@ EXCEPT !.count = n, !.size = n, !.owner = "application"]]

(* ffbuffer_resize with an address, which selfalloc does not hear of. *)
BufferMove(b, n) ==
  /\ Live(b)
  /\ misused' = [misused EXCEPT ![b] = @ \/ Mishandled(b)]
  /\ mixed' = [mixed EXCEPT ![b] = @ \/ buf[b].owner = "library"]
  /\ buf' = [buf EXCEPT ![b] =
               [@ EXCEPT !.count = n, !.size = n, !.owner = "application"]]

(* ffbuffer_delete *)
BufferDelete(b) ==
  /\ Live(b)
  /\ misused' = [misused EXCEPT ![b] = @ \/ Mishandled(b)]
  /\ buf' = [buf EXCEPT ![b] = NoBuffer]
  /\ UNCHANGED mixed

-----------------------------------------------------------------------------
(* What memory the library frees and reallocates is its own, and it keeps  *)
(* none of a buffer that is gone, as long as the buffer has had memory of  *)
(* one owner only; selfalloc, set when it was created, is right as long.   *)
OwnMemory == \A b \in Buffer : misused[b] => mixed[b]
=============================================================================
