----------------------------- MODULE WifiSetting ----------------------------
(***************************************************************************)
(* The way into the network: event_handler and wifi_init_sta of            *)
(* main/wifi_setting.c, and the LED that both of them, and obtain_time,    *)
(* set.  The handler runs on the event task, the rest on the main task.    *)
(* Both are pinned to core 0 and the event task has the higher priority:   *)
(* the main task takes a step only when the event task is out of events or *)
(* blocked, but it may be pre-empted between any two steps of its own.     *)
(***************************************************************************)
EXTENDS LedSetting, Sequences

CONSTANT ESP_MAXIMUM_RETRY

ASSUME RetryAssumption == ESP_MAXIMUM_RETRY \in Nat
ASSUME TaskAssumption == {"main", "event"} \subseteq Task

VARIABLES
  events,        \* posted to the event loop and not yet handled
  link,          \* the station: "idle", "joining", "up" (it has an IP)
  s_retry_num,
  bits,          \* set in s_wifi_event_group; never cleared
  main           \* where the main task is

wifiVars == <<events, link, s_retry_num, bits, main>>
vars == <<ledVars, wifiVars>>

CONNECTED == "WIFI_CONNECTED_BIT"
FAIL == "WIFI_FAIL_BIT"

Init ==
  /\ LedInit
  /\ events = << >>
  /\ link = "idle"
  /\ s_retry_num = 0
  /\ bits = {}
  /\ main = "boot"

-----------------------------------------------------------------------------
(* event_handler, on the event task.                                       *)

Handle(event) ==
  /\ ~Calling("event")
  /\ events # << >> /\ Head(events) = event
  /\ events' = Tail(events)

esp_wifi_connect == link' = IF link = "idle" THEN "joining" ELSE link

StationStart ==
  /\ Handle("STA_START")
  /\ esp_wifi_connect
  /\ UNCHANGED <<s_retry_num, bits, main, ledVars>>

(* Mutated forms: the retries not counted, or not limited.                 *)
retry_without_count ==
  /\ Handle("STA_DISCONNECTED")
  /\ esp_wifi_connect
  /\ set_led("event", Red)
  /\ UNCHANGED <<s_retry_num, bits, main>>

retry_without_limit ==
  /\ Handle("STA_DISCONNECTED")
  /\ esp_wifi_connect
  /\ s_retry_num' = s_retry_num + 1
  /\ set_led("event", Red)
  /\ UNCHANGED <<bits, main>>

Retry ==
  /\ Handle("STA_DISCONNECTED")
  /\ s_retry_num < ESP_MAXIMUM_RETRY
  /\ esp_wifi_connect
  /\ s_retry_num' = s_retry_num + 1
  /\ set_led("event", Red)
  /\ UNCHANGED <<bits, main>>

(* Mutated form: one more attempt after the bit.                           *)
give_up_and_connect ==
  /\ Handle("STA_DISCONNECTED")
  /\ s_retry_num >= ESP_MAXIMUM_RETRY
  /\ bits' = bits \cup {FAIL}
  /\ esp_wifi_connect
  /\ set_led("event", Red)
  /\ UNCHANGED <<s_retry_num, main>>

GiveUp ==
  /\ Handle("STA_DISCONNECTED")
  /\ s_retry_num >= ESP_MAXIMUM_RETRY
  /\ bits' = bits \cup {FAIL}
  /\ set_led("event", Red)
  /\ UNCHANGED <<link, s_retry_num, main>>

GotIp ==
  /\ Handle("STA_GOT_IP")
  /\ s_retry_num' = 0
  /\ bits' = bits \cup {CONNECTED}
  /\ UNCHANGED <<link, main, ledVars>>

EventTask ==
  \/ StationStart \/ Retry \/ GiveUp \/ GotIp
  \/ LedStep("event") /\ UNCHANGED wifiVars

-----------------------------------------------------------------------------
(* app_main, config_led and wifi_init_sta, on the main task.               *)

EventTaskRests == Blocked("event") \/ (events = << >> /\ ~Calling("event"))

MainGoes(from, to) ==
  /\ EventTaskRests
  /\ main = from
  /\ ~Calling("main")
  /\ main' = to

MainInLed == EventTaskRests /\ LedStep("main") /\ UNCHANGED wifiVars

ConfigLed ==
  /\ MainGoes("boot", "config")
  /\ config_led("main")
  /\ UNCHANGED <<events, link, s_retry_num, bits>>

WifiStart ==
  /\ MainGoes("config", "wait")
  /\ events' = Append(events, "STA_START")
  /\ UNCHANGED <<link, s_retry_num, bits, ledVars>>

(* xEventGroupWaitBits returns as soon as one of the bits is set ...       *)
ReportConnected ==
  /\ MainGoes("wait", "connected")
  /\ CONNECTED \in bits
  /\ set_led("main", Green)
  /\ UNCHANGED <<events, link, s_retry_num, bits>>

(* Mutated form: the bit for failure tested first.                         *)
report_failure_first ==
  /\ MainGoes("wait", "failed")
  /\ FAIL \in bits
  /\ UNCHANGED <<events, link, s_retry_num, bits, ledVars>>

(* ... and the one for the connection is tested first.  app_main goes on   *)
(* in either case.                                                         *)
ReportFailed ==
  /\ MainGoes("wait", "failed")
  /\ FAIL \in bits /\ CONNECTED \notin bits
  /\ UNCHANGED <<events, link, s_retry_num, bits, ledVars>>

(* The set_led at the end of obtain_time, if app_main gets that far.       *)
ReportTime ==
  /\ \/ MainGoes("connected", "connected and timed")
     \/ MainGoes("failed", "failed and timed")
  /\ \E colour \in {Blue, Green} : set_led("main", colour)
  /\ UNCHANGED <<events, link, s_retry_num, bits>>

MainTask ==
  \/ ConfigLed \/ WifiStart \/ ReportConnected \/ ReportFailed \/ ReportTime
  \/ MainInLed

-----------------------------------------------------------------------------
(* The Wi-Fi driver.  An attempt that gets as far as the access point but  *)
(* to no address counts as failed.                                         *)

Post(from, to, event) ==
  /\ link = from
  /\ link' = to
  /\ events' = Append(events, event)
  /\ UNCHANGED <<s_retry_num, bits, main, ledVars>>

AttemptEnds ==
  \/ Post("joining", "up", "STA_GOT_IP")
  \/ Post("joining", "idle", "STA_DISCONNECTED")

LinkLost == Post("up", "idle", "STA_DISCONNECTED")

Next ==
  \/ EventTask
  \/ MainTask
  \/ AttemptEnds
  \/ LinkLost
  \/ Shine /\ UNCHANGED wifiVars

Spec == Init /\ [][Next]_vars

(* The driver answers every attempt, the hardware ends every transmission  *)
(* and the event task is never kept waiting.  The main task is strongly    *)
(* fair: it runs whenever the event task rests, if only for a moment.      *)
FairSpec ==
  /\ Spec
  /\ WF_vars(EventTask)
  /\ SF_vars(MainTask)
  /\ WF_vars(AttemptEnds)
  /\ WF_vars(Shine /\ UNCHANGED wifiVars)

-----------------------------------------------------------------------------
(* Every variable keeps its type; never more than two events wait.         *)
TypeOK ==
  /\ LedTypeOK
  /\ Len(events) <= 2
  /\ link \in {"idle", "joining", "up"}
  /\ s_retry_num \in 0 .. ESP_MAXIMUM_RETRY
  /\ bits \subseteq {CONNECTED, FAIL}
  /\ main \in {"boot", "config", "wait", "connected", "failed",
               "connected and timed", "failed and timed"}

(* A call of set_led that no other call overlaps ends with its colour      *)
(* shown, also after calls that did disturb each other: a collision never  *)
(* leaves the channel enabled, with which every later call would fail.     *)
UndisturbedShown ==
  [][\A t \in Task :
       Calling(t) /\ ~Calling(t)' /\ call[t].alone => shown = call[t].colour]_vars

(* The station is never left alone silently, and never tried again after   *)
(* the verdict: with no attempt and no event under way the failure bit is  *)
(* set, and once it is set there is neither again.                         *)
Abandoned == main \notin {"boot", "config"} /\ link = "idle" /\ events = << >>
FailMeansAbandoned ==
  /\ FAIL \in bits => Abandoned
  /\ Abandoned /\ ~Calling("event") => FAIL \in bits

(* What wifi_init_sta reports as a failure stays one: the node has had no  *)
(* connection and will not get one behind app_main's back.                 *)
FailureIsFinal ==
  main \in {"failed", "failed and timed"} => link = "idle" /\ CONNECTED \notin bits

(* wifi_init_sta and its LED call come to their end, whatever the driver   *)
(* answers and however often the event task pre-empts the main task,       *)
(* provided that it rests again and again: events come milliseconds apart  *)
(* and are handled in microseconds.                                        *)
JoinEnds ==
  []<>EventTaskRests => <>(main \in {"connected", "failed"} /\ ~Calling("main"))

(* "Set the colour of LED", says the comment on set_led (led_setting.h:22).*)
(* When nobody is in set_led the LED has the colour asked for last.        *)
LatestShown == (\A t \in Task : ~Calling(t)) => shown = latest

-----------------------------------------------------------------------------
(* The inductive invariant behind the safety properties.                   *)

(* An event is only ever posted on behalf of the state of the link: an     *)
(* attempt under way has posted nothing yet, and a station that is idle    *)
(* has its start, its disconnection or nothing left to handle.             *)
LinkShape ==
  /\ main \in {"boot", "config"} => link = "idle" /\ events = << >> /\ bits = {}
  /\ CASE link = "joining" -> events = << >>
       [] link = "up" -> events \in {<< >>, <<"STA_GOT_IP">>}
       [] OTHER -> events \in {<< >>, <<"STA_START">>, <<"STA_DISCONNECTED">>,
                              <<"STA_GOT_IP", "STA_DISCONNECTED">>}

(* The verdict falls with the last event.                                  *)
VerdictShape ==
  /\ FAIL \in bits <=> Abandoned
  /\ main \in {"failed", "failed and timed"} => FAIL \in bits /\ CONNECTED \notin bits

WifiInv ==
  /\ TypeOK
  /\ LedInv
  /\ LinkShape
  /\ VerdictShape
=============================================================================
