--------------------------- MODULE CommandsProofs ---------------------------
(***************************************************************************)
(* What is set up is undone, for every number of handlers of mcp.          *)
(***************************************************************************)
EXTENDS Commands, TLAPS

Deferrable == {"stop", "ticker.Stop"} \cup Pools

Deferred(call) == \E i \in 1..Len(deferred) : deferred[i] = call

\* Which pools are open while RunE sets up and works.
Started ==
  /\ pc \in {"configuration", "notify"} => deferred = <<>> /\ open = {}
  /\ pc \in {"create config", "ping config", "provider", "ticker", "tools", "work"}
       => "metrics" \in open
  /\ pc \in {"provider", "ticker", "tools", "work"} => "config" \in open

\* Only mcp has handlers, so that no signal can kill it while they use a pool.
OnlyMcp == \A h \in Handlers : using[h] # "none" => cmd = "mcp"

\* No pool is closed under a handler, and no Close waits for one: both are open
\* while RunE works, and handlers use them then only.
UsedWhileWorking ==
  /\ pc = "work" => open = Pools
  /\ \A h \in Handlers : using[h] # "none" => pc = "work"

\* A process that ran to its end has no deferred calls left.
Ended ==
  /\ result = "killed" => pc = "exited"
  /\ pc = "exited" /\ result # "killed" => deferred = <<>>

\* stop is the first call watch defers, so the last one to run.
StopLast ==
  /\ \A i \in 1..Len(deferred) : deferred[i] = "stop" => i = Len(deferred)
  /\ cmd = "watch" /\ pc \notin {"configuration", "notify", "unwind", "exited"}
       => SignalHandled

CommandsInv ==
  /\ Started
  /\ OnlyMcp
  /\ Ended
  /\ StopLast
  /\ UsedWhileWorking
  /\ ClosingNotKilled

Inv == TypeOK /\ CommandsInv

-----------------------------------------------------------------------------
\* A deferred call is put before the ones that are there ...
LEMMA DeferFacts ==
  ASSUME NEW call \in Deferrable, deferred \in Seq(Deferrable), Defer(call)
  PROVE  /\ deferred' \in Seq(Deferrable)
         /\ Len(deferred) \in Nat
         /\ Len(deferred') = Len(deferred) + 1
         /\ deferred'[1] = call
         /\ \A i \in 1..Len(deferred) : deferred'[i + 1] = deferred[i]
  BY DEF Defer

\* ... so it keeps them.
LEMMA DeferKeeps ==
  ASSUME NEW call \in Deferrable, deferred \in Seq(Deferrable), Defer(call)
  PROVE  /\ \A c : Deferred(c)' <=> Deferred(c) \/ c = call
         /\ call # "stop" /\ (\A i \in 1..Len(deferred) : deferred[i] = "stop" => i = Len(deferred))
              => \A i \in 1..Len(deferred') : deferred'[i] = "stop" => i = Len(deferred')
<1>1. /\ Len(deferred) \in Nat
      /\ Len(deferred') = Len(deferred) + 1
      /\ deferred'[1] = call
      /\ \A i \in 1..Len(deferred) : deferred'[i + 1] = deferred[i]
  BY DeferFacts
<1>2. \A i \in 1..Len(deferred') :
        \/ i = 1
        \/ i - 1 \in 1..Len(deferred) /\ deferred'[i] = deferred[i - 1]
  <2> TAKE i \in 1..Len(deferred')
  <2>1. i # 1 => i - 1 \in 1..Len(deferred) /\ (i - 1) + 1 = i
    BY <1>1
  <2>2. QED
    BY <1>1, <2>1
<1>3. \A i \in 1..Len(deferred) : i + 1 \in 1..Len(deferred')
  BY <1>1
<1>4. 1 \in 1..Len(deferred')
  BY <1>1
<1>5. ASSUME NEW c
      PROVE  Deferred(c)' <=> Deferred(c) \/ c = call
  <2>1. Deferred(c)' => Deferred(c) \/ c = call
    BY <1>1, <1>2 DEF Deferred
  <2>2. Deferred(c) => Deferred(c)'
    BY <1>1, <1>3 DEF Deferred
  <2>3. c = call => Deferred(c)'
    BY <1>1, <1>4 DEF Deferred
  <2>4. QED
    BY <2>1, <2>2, <2>3
<1>6. ASSUME call # "stop",
             \A i \in 1..Len(deferred) : deferred[i] = "stop" => i = Len(deferred),
             NEW i \in 1..Len(deferred'), deferred'[i] = "stop"
      PROVE  i = Len(deferred')
  <2>1. i - 1 \in 1..Len(deferred) /\ deferred[i - 1] = "stop"
    BY <1>1, <1>2, <1>6
  <2>2. QED
    BY <1>1, <1>6, <2>1
<1>7. QED
  BY <1>5, <1>6

\* The last deferred call has run.
LEMMA TailFacts ==
  ASSUME deferred \in Seq(Deferrable), deferred # <<>>, deferred' = Tail(deferred)
  PROVE  /\ deferred' \in Seq(Deferrable)
         /\ Len(deferred) \in Nat \ {0}
         /\ Len(deferred') = Len(deferred) - 1
         /\ Head(deferred) = deferred[1]
         /\ \A i \in 1..Len(deferred') : deferred'[i] = deferred[i + 1]
  OBVIOUS

LEMMA InvInit == Init => Inv
<1> SUFFICES ASSUME Init
             PROVE  Inv
  OBVIOUS
<1>1. TypeOK
  <2>1. deferred \in Seq({"stop", "ticker.Stop"} \cup Pools)
    BY DEF Init
  <2>2. using \in [Handlers -> Pools \cup {"none"}]
    BY DEF Init
  <2>3. QED
    BY <2>1, <2>2 DEF Init, TypeOK
<1>2. Started /\ OnlyMcp /\ Ended
  BY DEF Init, Started, OnlyMcp, Ended
<1>3. StopLast /\ UsedWhileWorking /\ ClosingNotKilled
  BY DEF Init, StopLast, UsedWhileWorking, ClosingNotKilled
<1>4. QED
  BY <1>1, <1>2, <1>3 DEF Inv, CommandsInv

-----------------------------------------------------------------------------
\* A step of RunE that neither defers nor opens nor closes anything.
LEMMA NothingDeferred ==
  ASSUME Inv, UNCHANGED <<cmd, deferred, open, using>>,
         pc \notin {"ping metrics", "ping config", "unwind", "exited"},
         pc' \in {"notify", "create metrics", "provider", "ticker", "tools", "work", "unwind"},
         signalled' \in BOOLEAN,
         result' \in {"none", "ok", "error", "panic"},
         pc' = "notify" => pc = "configuration" /\ cmd = "watch",
         pc' = "create metrics" => pc = "configuration" /\ cmd # "watch",
         pc' \in {"provider", "ticker", "tools", "work"}
           => pc \in {"provider", "ticker", "tools", "work"},
         pc = "work" => pc' = "unwind" /\ \A h \in Handlers : using[h] = "none"
  PROVE  Inv'
<1>1. TypeOK'
  BY DEF Inv, TypeOK, CommandsInv, Ended
<1>2. Started' /\ OnlyMcp' /\ Ended'
  BY DEF Inv, TypeOK, CommandsInv, Started, OnlyMcp, Ended
<1>3. StopLast' /\ UsedWhileWorking' /\ ClosingNotKilled'
  BY DEF Inv, TypeOK, CommandsInv, Started, StopLast, UsedWhileWorking, ClosingNotKilled,
     SignalHandled, Pools
<1>4. QED
  BY <1>1, <1>2, <1>3 DEF Inv, CommandsInv

\* Start-up and work.
LEMMA InvStartUp ==
  ASSUME Inv,
         \/ ReadConfiguration \/ NotifyContext \/ CreatePool \/ PingPool
         \/ NewProvider \/ NewTicker \/ AddTools \/ WorkEnds
  PROVE  Inv'
<1> USE DEF Unwind
<1>1. CASE ReadConfiguration \/ NewProvider \/ AddTools \/ WorkEnds
  <2>1. result = "none" \/ result \in {"ok", "error", "panic"}
    BY <1>1 DEF Inv, TypeOK, CommandsInv, Ended, ReadConfiguration, NewProvider, AddTools, WorkEnds
  <2>2. CASE ReadConfiguration
    BY <2>1, <2>2, NothingDeferred DEF ReadConfiguration, Inv, TypeOK
  <2>3. CASE NewProvider
    BY <2>1, <2>3, NothingDeferred DEF NewProvider, Inv, TypeOK
  <2>4. CASE AddTools
    BY <2>1, <2>4, NothingDeferred DEF AddTools, Inv, TypeOK
  <2>5. CASE WorkEnds
    <3>1. \A h \in Handlers : using[h] = "none"
      BY <2>5 DEF WorkEnds, Inv, TypeOK, CommandsInv, OnlyMcp
    <3>2. QED
      BY <2>1, <2>5, <3>1, NothingDeferred DEF WorkEnds, Inv, TypeOK
  <2>6. QED
    BY <1>1, <2>2, <2>3, <2>4, <2>5
<1>2. CASE NotifyContext
  <2>1. /\ pc = "notify" /\ pc' = "create metrics" /\ deferred = <<>> /\ open = {}
        /\ Defer("stop")
        /\ UNCHANGED <<cmd, open, using, signalled, result>>
    BY <1>2 DEF NotifyContext, Inv, CommandsInv, Started
  <2>2. /\ deferred' \in Seq(Deferrable) /\ Len(deferred') = 1 /\ deferred'[1] = "stop"
    <3>1. "stop" \in Deferrable /\ deferred \in Seq(Deferrable) /\ Len(deferred) = 0
      BY <2>1 DEF Inv, TypeOK, Deferrable
    <3>2. Defer("stop")
      BY <2>1
    <3>3. deferred' \in Seq(Deferrable) /\ Len(deferred') = Len(deferred) + 1 /\ deferred'[1] = "stop"
      BY <3>1, <3>2, DeferFacts
    <3>4. QED
      BY <3>1, <3>3
  <2>3. TypeOK'
    BY <2>1, <2>2 DEF Inv, TypeOK, Deferrable
  <2>4. Started' /\ OnlyMcp' /\ Ended'
    BY <2>1 DEF Inv, CommandsInv, Started, OnlyMcp, Ended
  <2>5. StopLast'
    <3>1. SignalHandled'
      BY <2>2 DEF SignalHandled
    <3>2. \A i \in 1..Len(deferred') : i = Len(deferred')
      BY <2>2
    <3>3. QED
      BY <3>1, <3>2 DEF StopLast
  <2>6. UsedWhileWorking' /\ ClosingNotKilled'
    BY <2>1 DEF Inv, CommandsInv, UsedWhileWorking, ClosingNotKilled
  <2>7. QED
    BY <2>3, <2>4, <2>5, <2>6 DEF Inv, CommandsInv
<1>3. CASE CreatePool
  <2>1. CASE Unwind("error") /\ UNCHANGED open
    BY <1>3, <2>1, NothingDeferred DEF CreatePool, Inv, TypeOK
  <2>2. CASE ~(Unwind("error") /\ UNCHANGED open)
    <3>1. /\ pc \in {"create metrics", "create config"}
          /\ open' = open \cup {ClientOf(pc)}
          /\ pc' = IF pc = "create metrics" THEN "ping metrics" ELSE "ping config"
          /\ UNCHANGED <<cmd, deferred, using, signalled, result>>
      BY <1>3, <2>2 DEF CreatePool
    <3>2. TypeOK'
      BY <3>1 DEF Inv, TypeOK, ClientOf, Pools
    <3>3. Started' /\ OnlyMcp' /\ Ended'
      BY <3>1 DEF Inv, CommandsInv, Started, OnlyMcp, Ended, ClientOf
    <3>4. StopLast' /\ UsedWhileWorking' /\ ClosingNotKilled'
      BY <3>1 DEF Inv, CommandsInv, StopLast, UsedWhileWorking, ClosingNotKilled,
         SignalHandled, OnlyMcp
    <3>5. QED
      BY <3>2, <3>3, <3>4 DEF Inv, CommandsInv
  <2>3. QED
    BY <2>1, <2>2
<1>4. CASE PingPool
  <2>1. /\ pc \in {"ping metrics", "ping config"}
        /\ UNCHANGED <<cmd, using, signalled>>
        /\ \A h \in Handlers : using[h] = "none"
        /\ result # "killed"
    BY <1>4 DEF PingPool, Inv, CommandsInv, UsedWhileWorking, Ended
  <2>2. CASE Defer(ClientOf(pc)) /\ pc' = AfterClient(ClientOf(pc)) /\ UNCHANGED <<open, result>>
    <3>1. /\ ClientOf(pc) \in Deferrable /\ ClientOf(pc) # "stop"
          /\ \/ pc = "ping metrics" /\ pc' = "create config" /\ ClientOf(pc) = "metrics"
             \/ pc = "ping config" /\ pc' \in {"tools", "provider"} /\ ClientOf(pc) = "config"
      BY <2>1, <2>2 DEF ClientOf, AfterClient, Deferrable, Pools
    <3>2. deferred' \in Seq(Deferrable) /\ \A c : Deferred(c)' <=> Deferred(c) \/ c = ClientOf(pc)
      BY <2>2, <3>1, DeferFacts, DeferKeeps DEF Inv, TypeOK, Deferrable
    <3>3. TypeOK'
      BY <2>1, <2>2, <3>1, <3>2 DEF Inv, TypeOK, Deferred, Deferrable, ClientOf
    <3>4. Started' /\ OnlyMcp' /\ Ended'
      BY <2>1, <2>2, <3>1 DEF Inv, TypeOK, CommandsInv, Started, OnlyMcp, Ended
    <3>5. SignalHandled => SignalHandled'
      BY <3>2 DEF SignalHandled, Deferred
    <3>6. \A i \in 1..Len(deferred') : deferred'[i] = "stop" => i = Len(deferred')
      BY <2>2, <3>1, DeferKeeps DEF Inv, TypeOK, CommandsInv, StopLast, Deferrable
    <3>7. StopLast' /\ UsedWhileWorking' /\ ClosingNotKilled'
      BY <2>1, <2>2, <3>1, <3>5, <3>6
         DEF Inv, CommandsInv, StopLast, UsedWhileWorking, ClosingNotKilled
    <3>8. QED
      BY <3>3, <3>4, <3>7 DEF Inv, CommandsInv
  <2>3. CASE open' = open \ {ClientOf(pc)} /\ Unwind("error") /\ UNCHANGED deferred
    <3>1. TypeOK'
      BY <2>1, <2>3 DEF Inv, TypeOK
    <3>2. Started' /\ OnlyMcp' /\ Ended'
      BY <2>1, <2>3 DEF Inv, CommandsInv, Started, OnlyMcp, Ended
    <3>3. StopLast' /\ UsedWhileWorking' /\ ClosingNotKilled'
      BY <2>1, <2>3 DEF Inv, CommandsInv, StopLast, UsedWhileWorking, ClosingNotKilled,
         SignalHandled
    <3>4. QED
      BY <3>1, <3>2, <3>3 DEF Inv, CommandsInv
  <2>4. QED
    BY <1>4, <2>2, <2>3 DEF PingPool
<1>5. CASE NewTicker
  <2>1. CASE Unwind("panic") /\ UNCHANGED deferred
    BY <1>5, <2>1, NothingDeferred DEF NewTicker, Inv, TypeOK
  <2>2. CASE pc' = "work" /\ Defer("ticker.Stop") /\ UNCHANGED result
    <3>1. pc = "ticker" /\ UNCHANGED <<cmd, open, using, signalled>>
      BY <1>5 DEF NewTicker
    <3>2. /\ deferred' \in Seq(Deferrable)
          /\ \A c : Deferred(c)' <=> Deferred(c) \/ c = "ticker.Stop"
          /\ \A i \in 1..Len(deferred') : deferred'[i] = "stop" => i = Len(deferred')
      BY <2>2, DeferFacts, DeferKeeps DEF Inv, TypeOK, CommandsInv, StopLast, Deferrable
    <3>3. TypeOK'
      BY <2>2, <3>1, <3>2 DEF Inv, TypeOK, Deferred, Deferrable
    <3>4. Started' /\ OnlyMcp' /\ Ended'
      BY <2>2, <3>1 DEF Inv, CommandsInv, Started, OnlyMcp, Ended
    <3>5. SignalHandled => SignalHandled'
      BY <3>2 DEF SignalHandled, Deferred
    <3>6. StopLast' /\ UsedWhileWorking' /\ ClosingNotKilled'
      BY <2>2, <3>1, <3>2, <3>5
         DEF Inv, TypeOK, CommandsInv, Started, StopLast, UsedWhileWorking, ClosingNotKilled, Pools
    <3>7. QED
      BY <3>3, <3>4, <3>6 DEF Inv, CommandsInv
  <2>3. QED
    BY <1>5, <2>1, <2>2 DEF NewTicker
<1>6. QED
  BY <1>1, <1>2, <1>3, <1>4, <1>5

\* The deferred calls run, last one first.
LEMMA InvUnwinding ==
  ASSUME Inv, RunDeferred \/ Exit
  PROVE  Inv'
<1>1. CASE RunDeferred
  <2> DEFINE last == Head(deferred)
  <2>1. /\ pc = "unwind" /\ deferred # <<>>
        /\ open' = open \ {last}
        /\ deferred' = Tail(deferred)
        /\ UNCHANGED <<cmd, pc, using, signalled, result>>
    BY <1>1 DEF RunDeferred
  <2>2. /\ deferred' \in Seq(Deferrable)
        /\ Len(deferred) \in Nat \ {0}
        /\ Len(deferred') = Len(deferred) - 1
        /\ last = deferred[1]
        /\ \A i \in 1..Len(deferred') : deferred'[i] = deferred[i + 1]
    BY <2>1, TailFacts DEF Inv, TypeOK, Deferrable
  <2>3. \A c : Deferred(c) /\ c # last => Deferred(c)'
    <3> SUFFICES ASSUME NEW c, c # last, NEW i \in 1..Len(deferred), deferred[i] = c
                 PROVE  Deferred(c)'
      BY DEF Deferred
    <3>1. i # 1 /\ i - 1 \in 1..Len(deferred') /\ (i - 1) + 1 = i
      BY <2>2
    <3>2. deferred'[i - 1] = c
      BY <2>2, <3>1
    <3>3. QED
      BY <3>1, <3>2 DEF Deferred
  <2>4. result # "killed" /\ \A pool \in open : Deferred(pool)
    BY <2>1 DEF Inv, TypeOK, CommandsInv, Ended, Deferred
  <2>5. TypeOK'
    <3>1. \A pool \in open' : Deferred(pool)'
      BY <2>1, <2>3, <2>4
    <3>2. QED
      BY <2>1, <2>2, <3>1 DEF Inv, TypeOK, Deferrable, Deferred
  <2>6. Started' /\ OnlyMcp' /\ Ended'
    BY <2>1, <2>4 DEF Inv, CommandsInv, Started, OnlyMcp, Ended
  <2>7. StopLast'
    <3>1. \A i \in 1..Len(deferred') : deferred'[i] = "stop" => i = Len(deferred')
      <4> TAKE i \in 1..Len(deferred')
      <4>1. i + 1 \in 1..Len(deferred)
        BY <2>2
      <4>2. QED
        BY <2>2, <4>1 DEF Inv, CommandsInv, StopLast
    <3>2. QED
      BY <2>1, <3>1 DEF StopLast
  <2>8. UsedWhileWorking'
    BY <2>1 DEF Inv, TypeOK, CommandsInv, UsedWhileWorking
  <2>9. ClosingNotKilled'
    <3> SUFFICES ASSUME cmd = "watch", NEW pool \in open'
                 PROVE  Deferred("stop")'
      BY <2>1 DEF ClosingNotKilled, SignalHandled, Deferred
    <3>1. Deferred("stop") /\ Deferred(pool)'
      BY <2>1, <2>3, <2>4 DEF Inv, CommandsInv, ClosingNotKilled, SignalHandled, Deferred
    <3>2. last # "stop"
      <4>1. Len(deferred) > 1
        BY <2>2, <3>1 DEF Deferred
      <4>2. QED
        BY <2>2, <4>1 DEF Inv, CommandsInv, StopLast
    <3>3. QED
      BY <2>3, <3>1, <3>2
  <2>10. QED
    BY <2>5, <2>6, <2>7, <2>8, <2>9 DEF Inv, CommandsInv
<1>2. CASE Exit
  <2>1. /\ pc = "unwind" /\ deferred = <<>> /\ pc' = "exited"
        /\ UNCHANGED <<cmd, deferred, open, using, signalled, result>>
    BY <1>2 DEF Exit
  <2>2. TypeOK'
    BY <2>1 DEF Inv, TypeOK
  <2>3. Started' /\ OnlyMcp' /\ Ended'
    BY <2>1 DEF Inv, CommandsInv, Started, OnlyMcp, Ended
  <2>4. StopLast' /\ UsedWhileWorking' /\ ClosingNotKilled'
    BY <2>1 DEF Inv, CommandsInv, StopLast, UsedWhileWorking, ClosingNotKilled, SignalHandled
  <2>5. QED
    BY <2>2, <2>3, <2>4 DEF Inv, CommandsInv
<1>3. QED
  BY <1>1, <1>2

\* Signals and handlers.
LEMMA InvOthers ==
  ASSUME Inv,
         \/ SignalArrives
         \/ \E h \in Handlers, pool \in Pools : HandlerAcquires(h, pool)
         \/ \E h \in Handlers : HandlerReleases(h)
  PROVE  Inv'
<1>1. CASE SignalArrives
  <2>1. /\ pc # "exited" /\ signalled' = TRUE
        /\ \/ UNCHANGED <<pc, result>>
           \/ /\ ~SignalHandled /\ ~(cmd = "mcp" /\ pc = "work")
              /\ pc' = "exited" /\ result' = "killed"
        /\ UNCHANGED <<cmd, deferred, open, using>>
    BY <1>1 DEF SignalArrives
  <2>2. TypeOK'
    BY <2>1 DEF Inv, TypeOK
  <2>3. Started' /\ OnlyMcp' /\ Ended'
    BY <2>1 DEF Inv, CommandsInv, Started, OnlyMcp, Ended
  <2>4. StopLast' /\ ClosingNotKilled'
    BY <2>1 DEF Inv, CommandsInv, StopLast, ClosingNotKilled, SignalHandled
  <2>5. UsedWhileWorking'
    BY <2>1 DEF Inv, CommandsInv, UsedWhileWorking, OnlyMcp
  <2>6. QED
    BY <2>2, <2>3, <2>4, <2>5 DEF Inv, CommandsInv
<1>2. ASSUME NEW h \in Handlers, NEW pool \in Pools, HandlerAcquires(h, pool)
      PROVE  Inv'
  <2>1. /\ pc = "work" /\ cmd = "mcp"
        /\ using' = [using EXCEPT ![h] = pool]
        /\ UNCHANGED <<cmd, pc, deferred, open, signalled, result>>
    BY <1>2 DEF HandlerAcquires
  <2>2. TypeOK'
    BY <2>1 DEF Inv, TypeOK
  <2>3. Started' /\ OnlyMcp' /\ Ended'
    BY <2>1 DEF Inv, CommandsInv, Started, OnlyMcp, Ended
  <2>4. StopLast' /\ ClosingNotKilled'
    BY <2>1 DEF Inv, CommandsInv, StopLast, ClosingNotKilled, SignalHandled
  <2>5. UsedWhileWorking'
    BY <2>1 DEF Inv, TypeOK, CommandsInv, UsedWhileWorking
  <2>6. QED
    BY <2>2, <2>3, <2>4, <2>5 DEF Inv, CommandsInv
<1>3. ASSUME NEW h \in Handlers, HandlerReleases(h)
      PROVE  Inv'
  <2>1. /\ using' = [using EXCEPT ![h] = "none"]
        /\ UNCHANGED <<cmd, pc, deferred, open, signalled, result>>
    BY <1>3 DEF HandlerReleases
  <2>2. TypeOK'
    BY <2>1 DEF Inv, TypeOK
  <2>3. Started' /\ OnlyMcp' /\ Ended'
    BY <2>1 DEF Inv, TypeOK, CommandsInv, Started, OnlyMcp, Ended
  <2>4. StopLast' /\ ClosingNotKilled'
    BY <2>1 DEF Inv, CommandsInv, StopLast, ClosingNotKilled, SignalHandled
  <2>5. UsedWhileWorking'
    BY <2>1 DEF Inv, TypeOK, CommandsInv, UsedWhileWorking
  <2>6. QED
    BY <2>2, <2>3, <2>4, <2>5 DEF Inv, CommandsInv
<1>4. QED
  BY <1>1, <1>2, <1>3

-----------------------------------------------------------------------------
LEMMA InvNext == Inv /\ [Next]_vars => Inv'
<1>1. ASSUME Inv, UNCHANGED vars
      PROVE  Inv'
  <2>1. TypeOK'
    BY <1>1 DEF vars, Inv, TypeOK
  <2>2. CommandsInv'
    BY <1>1 DEF vars, Inv, CommandsInv, Started, OnlyMcp, Ended, StopLast, UsedWhileWorking,
       ClosingNotKilled, SignalHandled
  <2>3. QED
    BY <2>1, <2>2 DEF Inv
<1>2. QED
  BY <1>1, InvStartUp, InvUnwinding, InvOthers DEF Next, Main

LEMMA InvAlways == Spec => []Inv
  BY InvInit, InvNext, PTL DEF Spec

\* Every variable has its type, and every open pool has its Close deferred but
\* for the one that is being pinged.
THEOREM TypeCorrect == Spec => []TypeOK
<1>1. Inv => TypeOK
  BY DEF Inv
<1>2. QED
  BY InvAlways, <1>1, PTL

\* A process that is not killed exits with every pool closed, wherever its
\* start-up failed.
THEOREM PoolsAreClosedAtExit == Spec => []PoolsClosedAtExit
<1>1. Inv => PoolsClosedAtExit
  <2> SUFFICES ASSUME Inv, pc = "exited", result # "killed", NEW pool \in open
               PROVE  FALSE
    BY DEF PoolsClosedAtExit
  <2>1. deferred = <<>>
    BY DEF Inv, CommandsInv, Ended
  <2>2. \E i \in 1..Len(deferred) : deferred[i] = pool
    BY DEF Inv, TypeOK
  <2>3. QED
    BY <2>1, <2>2
<1>2. QED
  BY InvAlways, <1>1, PTL

\* As long as watch has a pool open, a signal only cancels its context.
THEOREM ClosingIsNotKilled == Spec => []ClosingNotKilled
<1>1. Inv => ClosingNotKilled
  BY DEF Inv, CommandsInv
<1>2. QED
  BY InvAlways, <1>1, PTL
=============================================================================
