------------------------------- MODULE CoapPdu ------------------------------
(***************************************************************************)
(* A CoAP message as libcoap builds it for a client session over UDP: how  *)
(* much room it has, how it grows, and what happens when there is not      *)
(* enough.  An operation that fails returns the message unchanged.         *)
(* Tokens, and options added out of their order, are not used here.        *)
(***************************************************************************)
EXTENDS Integers

CONSTANTS
  Mtu,         \* COAP_DEFAULT_MTU (1152): session->mtu, header included
  AllocUnit    \* bytes allocated for a new message (256)

ASSUME PduAssumption == {Mtu, AllocUnit} \subseteq Nat \ {0}

Least(m, n) == IF m <= n THEN m ELSE n
Most(m, n) == IF m <= n THEN n ELSE m

NoData == << >>

coap_session_max_pdu_size == IF Mtu > 4 THEN Mtu - 4 ELSE 0

coap_pdu_init(size) ==
  [max_size   |-> size,
   alloc_size |-> Least(size, AllocUnit),
   used_size  |-> 0,
   max_opt    |-> 0,
   data       |-> NoData]

coap_new_pdu == coap_pdu_init(coap_session_max_pdu_size)

(* A size may be given to a message that has it already, or whose limit,   *)
(* if there is one, allows it.                                             *)
MayResize(pdu, new_size) ==
  new_size <= pdu.alloc_size \/ pdu.max_size = 0 \/ new_size <= pdu.max_size

coap_pdu_resize(pdu, new_size) ==
  IF MayResize(pdu, new_size) THEN [pdu EXCEPT !.alloc_size = new_size] ELSE pdu

(* Room for size bytes: twice as much, and doubled on until it suffices.   *)
Doubled(alloc_size, size) ==
  LET start == Most(AllocUnit, alloc_size * 2)
      power == CHOOSE k \in 1 .. size :
                 start * 2^k >= size /\ start * 2^(k - 1) < size
  IN  IF start >= size THEN start ELSE start * 2^power

(* ... but not past the limit.                                             *)
coap_pdu_check_resize(pdu, size) ==
  LET new_size == Doubled(pdu.alloc_size, size) IN
  IF size <= pdu.alloc_size THEN pdu
  ELSE coap_pdu_resize(pdu,
         IF pdu.max_size # 0 /\ new_size > pdu.max_size
           THEN Most(size, pdu.max_size) ELSE new_size)

(* One byte, more for a large number or length, and the value itself.      *)
Extra(n) == IF n < 13 THEN 0 ELSE IF n < 269 THEN 1 ELSE 2
coap_opt_encode_size(delta, length) == 1 + Extra(delta) + Extra(length) + length

(* Options come in ascending order and before the data.                    *)
coap_add_option(pdu, number, len) ==
  LET used  == pdu.used_size + coap_opt_encode_size(number - pdu.max_opt, len)
      grown == coap_pdu_check_resize(pdu, used)
  IN  IF pdu.data # NoData \/ used > grown.alloc_size THEN pdu
      ELSE [grown EXCEPT !.used_size = used, !.max_opt = number]

(* Mutated form: the marker counted before the room is looked at.          *)
add_marker_first(pdu, len, data) ==
  LET used == pdu.used_size + len + 1 IN
  IF MayResize(pdu, used)
    THEN [coap_pdu_resize(pdu, used) EXCEPT !.used_size = used, !.data = <<data>>]
    ELSE [pdu EXCEPT !.used_size = @ + 1]

(* A marker byte and the payload, all or nothing.                          *)
coap_add_data(pdu, len, data) ==
  LET used == pdu.used_size + len + 1 IN
  IF pdu.data = NoData /\ len > 0 /\ MayResize(pdu, used)
    THEN [coap_pdu_resize(pdu, used) EXCEPT !.used_size = used, !.data = <<data>>]
    ELSE pdu
=============================================================================
