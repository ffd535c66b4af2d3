------------------------------ MODULE HttpClient ----------------------------
(***************************************************************************)
(* http_task of main/http_client.c: each call takes one value out of a     *)
(* ring buffer, posts it with a running index, and resets the index if the *)
(* buffer's flag is down when the post is over.  The post blocks, so it is *)
(* a state of its own (posting) in which the buffer may be written.  The   *)
(* program never calls http_task, so this module lets one caller of module *)
(* RingbufferQueue do so again and again, at any time at which there is    *)
(* something to read, in any mixture with writes.  The value is gone from  *)
(* the buffer whether the post succeeds or not; its result only chooses a  *)
(* log line.                                                               *)
(***************************************************************************)
EXTENDS RingbufferQueue

CONSTANT CounterRange   \* values of a uint (2^32)

(* A uint counts further than a buffer of the program has slots (1250).    *)
ASSUME CounterAssumption == CounterRange \in Nat /\ CounterRange >= Size

VARIABLES
  sendCounter,
  posting,   \* is the call inside esp_http_client_perform?
  mixed      \* history: a chunk was written to before it was drained, or
             \* completed while a post was under way, and no call has found
             \* the flag down since

httpVars == <<vars, sendCounter, posting, mixed>>

HttpInit == Init /\ sendCounter = 0 /\ posting = FALSE /\ mixed = FALSE

Store(v) ==
  /\ Write(v)
  /\ mixed' = (mixed \/ is_full(buffer) \/ (posting /\ is_full(buffer')))
  /\ UNCHANGED <<sendCounter, posting>>

(* The call up to the post: the value leaves the buffer.                   *)
PostValue ==
  /\ ~posting
  /\ Read
  /\ sendCounter' = (sendCounter + 1) % CounterRange
  /\ posting' = TRUE
  /\ UNCHANGED mixed

(* Mutated form: the counter reset when the buffer is full.                *)
reset_inverted ==
  /\ posting
  /\ sendCounter' = IF is_full(buffer) THEN 0 ELSE sendCounter
  /\ posting' = FALSE
  /\ mixed' = (mixed /\ is_full(buffer))
  /\ UNCHANGED vars

(* The post is over, well or not: the flag is looked at now.               *)
PostReturns ==
  /\ posting
  /\ sendCounter' = IF is_full(buffer) THEN sendCounter ELSE 0
  /\ posting' = FALSE
  /\ mixed' = (mixed /\ is_full(buffer))
  /\ UNCHANGED vars

http_task == PostValue \/ PostReturns

HttpNext == http_task \/ \E v \in Value : Store(v)

HttpSpec == HttpInit /\ [][HttpNext]_httpVars

-----------------------------------------------------------------------------
(* The index that the next call posts is the position of the value in its  *)
(* chunk: the code does not see positions, it infers them from the flag    *)
(* after each post.  Two things make the index wrong: a value written to a *)
(* chunk that is being drained, and a buffer filled to the brim while the  *)
(* last value of a chunk, or a value of a buffer that was never full, is   *)
(* being posted; the flag is then up again when http_task looks at it, and *)
(* the counter goes on.  The index is right again after the first call     *)
(* that finds the flag down, and right until one of the two happens.       *)
IndexIsPosition ==
  ~mixed => IF is_full(buffer)
              THEN sendCounter = Size - Count(buffer)
              ELSE posting \/ sendCounter = 0

(* The inductive invariant behind it.                                      *)
HttpInv ==
  /\ QueueInv
  /\ sendCounter \in Nat
  /\ posting \in BOOLEAN
  /\ mixed \in BOOLEAN
  /\ mixed => is_full(buffer) \/ posting
  /\ IndexIsPosition
=============================================================================
