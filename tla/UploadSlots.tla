----------------------------- MODULE UploadSlots ----------------------------
(***************************************************************************)
(* The slots that an upload needs before a bot may send it to Telegram: a  *)
(* window over the last minute for each bot, kept in Redis and shared by   *)
(* the core (telegram.service.ts) and the transfer service                 *)
(* (rate_limiter.go), whose clocks differ.  A time is the distance to now, *)
(* in ticks of a second, so that the state stays finite for ever.          *)
(***************************************************************************)
EXTENDS Integers, Sequences, FiniteSets, FiniteSetsExt, Functions

CONSTANTS
  Worker,     \* what the core sends
  Rival,      \* what the transfer service sends
  Bots,       \* the bots of the configuration, the main bot first
  Window,     \* SEND_RATE_WINDOW_MS
  Limit,      \* TELEGRAM_SEND_RATE_LIMIT
  Interval,   \* between two messages of a bot
  MaxSkew,    \* bound on the difference between the clocks
  MaxLag,     \* bound on the time between reading the clock and the script
  MaxOutage   \* bound on calls that Redis does not answer

ASSUME SlotAssumption ==
  /\ Worker \cap Rival = {} /\ Bots \in Seq(Nat) /\ Bots # <<>>
  /\ Interval \in Nat \ {0} /\ Limit \in Nat \ {0} /\ Window \in Nat /\ Window >= Interval
  /\ MaxSkew \in Nat /\ MaxLag \in Nat /\ MaxOutage \in Nat

VARIABLES
  slots,      \* the sorted set of each bot in Redis: its scores
  granted,    \* how many slots of each bot were granted at each time
  ask,        \* the calls of acquireUploadSlot
  turn,       \* rrIndex of both services
  bots,       \* the bots they know
  skew,       \* how far their clocks are ahead
  outages

slotVars == <<slots, granted, ask, turn, bots, skew, outages>>

Caller == Worker \cup Rival
Bot == Range(Bots)
Service == {"core", "go"}
ServiceOf(c) == IF c \in Worker THEN "core" ELSE "go"
Now(c) == skew[ServiceOf(c)]

\* How much of the window the clocks and the delays may cost.
Slack == MaxLag + (IF skew["core"] > skew["go"] THEN skew["core"] - skew["go"] ELSE skew["go"] - skew["core"])

NoAsk == [pc |-> "none", now |-> 0, first |-> 0, tried |-> 0, wait |-> 0]

\* The main bot must answer getMe; the core goes on without the other ones, the
\* transfer service does not start without them.
CoreBots == {<<Bots[1]>>, Bots}
GoBots == {Bots}

SlotInit ==
  /\ slots = [b \in Bot |-> {}] /\ granted = [b \in Bot |-> [t \in 0 .. Window - 1 |-> 0]]
  /\ ask = [c \in Caller |-> NoAsk] /\ turn = [s \in Service |-> 0]
  /\ \E core \in CoreBots, go \in GoBots : bots = [s \in Service |-> IF s = "core" THEN core ELSE go]
  /\ skew \in {k \in [Service -> 0 .. MaxSkew] : \E s \in Service : k[s] = 0} /\ outages = 0

-----------------------------------------------------------------------------
(* The script.  The variant admits one more.                               *)

InWindow(b, now) == {s \in slots[b] : s > now - Window}

AdmitsMore(b, now) ==
  /\ \A s \in InWindow(b, now) : now - s >= Interval
  /\ Cardinality(InWindow(b, now)) <= Limit

Admits(b, now) ==
  /\ \A s \in InWindow(b, now) : now - s >= Interval
  /\ Cardinality(InWindow(b, now)) < Limit

\* Each round takes the clock once, and begins with the next bot.
StartRound(c) ==
  LET s == ServiceOf(c) IN
  /\ ask[c].pc = "none" \/ (ask[c].pc = "wait" /\ ask[c].wait = 0)
  /\ ask' = [ask EXCEPT ![c] = [pc |-> "try", now |-> Now(c), first |-> turn[s], tried |-> 0, wait |-> 0]]
  /\ turn' = [turn EXCEPT ![s] = (@ + 1) % Len(bots[s])]
  /\ UNCHANGED <<slots, granted, bots, skew, outages>>

BotOf(c) == LET known == bots[ServiceOf(c)] IN known[((ask[c].first + ask[c].tried) % Len(known)) + 1]

NextBot(c) ==
  ask' = [ask EXCEPT ![c].tried = @ + 1,
                     ![c].pc = IF ask[c].tried + 1 = Len(bots[ServiceOf(c)]) THEN "full" ELSE "try"]

TryBot(c) ==
  LET b == BotOf(c)
      now == ask[c].now IN
  /\ ask[c].pc = "try"
  /\ IF Admits(b, now)
     THEN /\ slots' = [slots EXCEPT ![b] = InWindow(b, now) \cup {now}]
          /\ granted' = [granted EXCEPT ![b][0] = @ + 1]
          /\ ask' = [ask EXCEPT ![c] = [NoAsk EXCEPT !.pc = "granted"]]
     ELSE /\ slots' = [slots EXCEPT ![b] = InWindow(b, now)]
          /\ NextBot(c) /\ UNCHANGED granted
  /\ UNCHANGED <<turn, bots, skew, outages>>

\* Redis did not run the script: the next bot is tried.
NoAnswer(c) ==
  /\ ask[c].pc = "try" /\ outages < MaxOutage /\ outages' = outages + 1
  /\ NextBot(c)
  /\ UNCHANGED <<slots, granted, turn, bots, skew>>

\* Until a bot has room: until its interval is over, or its oldest slot expires.
WaitOf(b, now) ==
  LET kept == InWindow(b, now) IN
  CASE kept = {} -> 0
    [] Cardinality(kept) >= Limit -> Min(kept) + Window - now
    [] OTHER -> Max(kept) + Interval - now

\* getWaitTimeMs: 0 means that a bot has room by now, and is taken for a second.
GetWaitTime(c) ==
  LET least == Min({Window} \cup {WaitOf(b, Now(c)) : b \in Range(bots[ServiceOf(c)])})
  IN  IF least <= 0 THEN Interval ELSE least

Sleep(c, wait) == ask' = [ask EXCEPT ![c] = [NoAsk EXCEPT !.pc = "wait", !.wait = wait]]

Measure(c) ==
  /\ ask[c].pc = "full" /\ Sleep(c, GetWaitTime(c))
  /\ slots' = [b \in Bot |-> IF b \in Range(bots[ServiceOf(c)]) THEN InWindow(b, Now(c)) ELSE slots[b]]
  /\ UNCHANGED <<granted, turn, bots, skew, outages>>

\* The transfer service waits a second then, the core a whole window.
NoMeasure(c) ==
  /\ ask[c].pc = "full" /\ outages < MaxOutage /\ outages' = outages + 1
  /\ Sleep(c, IF c \in Worker THEN Window ELSE Interval)
  /\ UNCHANGED <<slots, granted, turn, bots, skew>>

\* An upload of the transfer service has its slot and sends; or its client leaves
\* while it waits.
SendWithSlot(c) ==
  /\ c \in Rival /\ ask[c].pc = "granted"
  /\ ask' = [ask EXCEPT ![c] = [NoAsk EXCEPT !.pc = "done"]]
  /\ UNCHANGED <<slots, granted, turn, bots, skew, outages>>

Leave(c) ==
  /\ c \in Rival /\ ask[c].pc = "wait"
  /\ ask' = [ask EXCEPT ![c] = [NoAsk EXCEPT !.pc = "done"]]
  /\ UNCHANGED <<slots, granted, turn, bots, skew, outages>>

\* A second passes.  What no clock would count any more is dropped; Redis lets the
\* key of an idle bot expire later.
SlotTick ==
  /\ \A c \in Caller : ask[c].pc = "try" => Now(c) - ask[c].now < MaxLag
  /\ slots' = [b \in Bot |-> {s - 1 : s \in {t \in slots[b] : t > -(Window + MaxLag)}}]
  /\ granted' = [b \in Bot |-> [t \in 0 .. Window - 1 |-> IF t = 0 \/ t >= Window - Slack THEN 0 ELSE granted[b][t - 1]]]
  /\ ask' = [c \in Caller |-> [ask[c] EXCEPT !.now = IF ask[c].pc = "try" THEN @ - 1 ELSE @,
                                             !.wait = IF @ = 0 THEN 0 ELSE @ - 1]]
  /\ UNCHANGED <<turn, bots, skew, outages>>

SlotStep(c) == StartRound(c) \/ TryBot(c) \/ NoAnswer(c) \/ Measure(c) \/ NoMeasure(c) \/ SendWithSlot(c)

-----------------------------------------------------------------------------
\* No bot gets more than Limit slots from both services together in any stretch of
\* Window, less what their clocks differ and what a round may take
\* (rate_limiter.go:15-41: a round takes the clock once for all its bots).
Paced ==
  \A b \in Bot : SumFunctionOnSet(granted[b], 0 .. Window - 1 - Slack) <= Limit
=============================================================================
