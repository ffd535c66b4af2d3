----------------------------- MODULE Ringbuffer -----------------------------
(***************************************************************************)
(* The ring buffer of main/ringbuffer.c as operators on one handle, a      *)
(* record with the fields of struct ringbuffer_handle (the field size is   *)
(* the constant Size).  No operation checks its precondition: writing to a *)
(* full buffer overwrites, reading an empty one returns old memory.  The   *)
(* callers are responsible, and the modules that use this one say how.     *)
(***************************************************************************)
EXTENDS Integers

CONSTANTS
  Size,     \* RINGBUFFER_SIZE: slots of sensValue
  Garbage   \* whatever malloc left in memory that nothing has written

ASSUME SizeAssumption == Size \in Nat \ {0}

Index == 0 .. Size - 1

(* The handles that hold values of Value and timestamps of Time.           *)
ringbuffer_handle(Value, Time) ==
  [writeIndex : Index,
   readIndex  : Index,
   timestamp  : Time \cup {Garbage},
   sensValue  : [Index -> Value \cup {Garbage}],
   full       : BOOLEAN]

(* Mutated form: one past the last slot.                                   *)
next_past_the_end(i) == (i + 1) % (Size + 1)

(* "Move Index to next position", for either index.                        *)
NextIndex(i) == (i + 1) % Size

(* The handle init_buffer returns when both allocations succeed.           *)
init_buffer ==
  [writeIndex |-> 0,
   readIndex  |-> 0,
   timestamp  |-> Garbage,
   sensValue  |-> [i \in Index |-> Garbage],
   full       |-> FALSE]

write_timestamp_to_buffer(buffer, time) == [buffer EXCEPT !.timestamp = time]

(* Mutated form: the flag never raised.                                    *)
write_never_full(buffer, data) ==
  [buffer EXCEPT
     !.sensValue[buffer.writeIndex] = data,
     !.writeIndex = NextIndex(@)]

write_to_buffer(buffer, data) ==
  [buffer EXCEPT
     !.full = @ \/ NextIndex(buffer.writeIndex) = buffer.readIndex,
     !.sensValue[buffer.writeIndex] = data,
     !.writeIndex = NextIndex(@)]

(* Mutated form: the index moved before the value is fetched.              *)
read_next_value(buffer) == buffer.sensValue[NextIndex(buffer.readIndex)]

(* read_from_buffer returns ReadValue and leaves the handle                *)
(* read_from_buffer behind.                                                *)
ReadValue(buffer) == buffer.sensValue[buffer.readIndex]

(* Mutated form: the flag dropped by the first read.                       *)
read_clears_at_once(buffer) ==
  [buffer EXCEPT !.readIndex = NextIndex(@), !.full = FALSE]

read_from_buffer(buffer) ==
  [buffer EXCEPT
     !.readIndex = NextIndex(@),
     !.full = @ /\ NextIndex(buffer.readIndex) # buffer.writeIndex]

is_full(buffer) == buffer.full

(* What the handle holds, oldest value first, when no caller has broken    *)
(* the preconditions.  The flag alone tells a full buffer from an empty    *)
(* one; it says nothing while the indices differ.                          *)
Count(buffer) ==
  IF buffer.writeIndex = buffer.readIndex
    THEN IF buffer.full THEN Size ELSE 0
    ELSE (buffer.writeIndex - buffer.readIndex) % Size

Contents(buffer) ==
  [i \in 1 .. Count(buffer) |->
     buffer.sensValue[(buffer.readIndex + i - 1) % Size]]
=============================================================================
