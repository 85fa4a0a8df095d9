--------------------------- MODULE BurstAgentsProofs ---------------------------
(***************************************************************************)
(* A burst test that passes has had every message received, and a robust   *)
(* test that passes has recovered a lock: for any number of agents,        *)
(* iterations, slots and messages, and whoever is killed.                  *)
(***************************************************************************)
EXTENDS BurstAgents, FiniteSetTheorems, TLAPS

(* The labels of readers, of those of them that are not counted yet, and   *)
(* of writers.                                                             *)
Early == {"none", "open", "alloc", "consist", "load", "activate", "ready"}

ReaderLabels == Early \cup {"top", "wait", "run", "blocked", "leave", "main", "exited"}

WriterLabels == {"none", "open", "lock", "consist", "scan", "backpressure", "handler", "write",
                 "unlock", "notify", "main", "exited"}

(* It ended as it should.                                                  *)
Passed(p) == Gone(p) /\ ag[p].code = EC_SUCCESS

(* What the control of an agent says of its locals, whoever may have been  *)
(* killed.                                                                 *)
Control(p) ==
    /\ ~Gone(p) => ag[p].code = EC_SUCCESS
    /\ p[1] = "reader" =>
        /\ ag[p].pc \in ReaderLabels
        /\ ag[p].pc \in Early => ag[p].rcved = 0
        /\ ag[p].pos <= end
        /\ ag[p].pc \in {"leave", "main"} => ag[p].flavor # "ROBUST_READER"
        /\ ag[p].pc \in {"leave", "main"} \/ (Passed(p) /\ ag[p].flavor # "ROBUST_READER") =>
            ag[p].rcved >= All
    /\ p[1] = "writer" =>
        /\ ag[p].pc \in WriterLabels
        /\ ag[p].rcved = 0 /\ ag[p].todo <= test.messages
        /\ ag[p].pc \in {"none", "open"} => ag[p].todo = test.messages
        /\ ag[p].pc \in {"lock", "consist", "scan", "backpressure", "handler", "write"} =>
            ag[p].todo > 0
        /\ ag[p].pc \in {"notify", "main"} \/ (Passed(p) /\ ag[p].flavor # "ROBUST_WRITER") =>
            ag[p].todo = 0

AgentInv == \A p \in Agents : Control(p)

(* The lock of an agent, if it is inside.                                  *)
Mutex(p) == IF p[1] = "writer" THEN writerMtx ELSE info[ag[p].id].lock

(* No mutex is lost; who is inside owns its mutex, which it has made       *)
(* consistent if it was given it from a dead owner.                        *)
LockInv ==
    /\ ~writerMtx.lost /\ \A s \in 1 .. MaxSlots : ~info[s].lock.lost
    /\ \A p \in Agents : Inside(p) =>
        /\ Mutex(p).owner = p
        /\ ~At(p, "consist") => Mutex(p).consistent

(* A reader that was counted as expired ended with that code.              *)
ExpiredInv ==
    stats.expiredReaders > 0 => \E p \in Agents : p[1] = "reader" /\ ag[p].code = EC_READER_EXPIRED

------------------------------------------------------------------------------
(* bench-cell.sh.                                                          *)

(* How many agents of the kind of p an iteration has, and the lines that   *)
(* start p and wait for it.                                                *)
Many(p) == IF p[1] = "reader" THEN test.readers ELSE test.writers

StartLine(p) == IF p[1] = "reader" THEN p[2] ELSE test.readers + 1 + p[2]

WaitLine(p) ==
    IF p[1] = "reader" THEN test.readers + 1 + 2 * test.writers + p[2]
    ELSE test.readers + 1 + test.writers + p[2]

BodyLines == 2 * test.readers + 2 * test.writers + 3

(* Agents are started and waited for in the order of the script.           *)
BenchScript ==
    \A p \in Agents :
        /\ p[2] > Many(p) \/ p[3] > iter => At(p, "none")
        /\ p[2] <= Many(p) /\ p[3] = iter => (At(p, "none") <=> line <= StartLine(p))
        /\ p[2] <= Many(p) /\ (p[3] < iter \/ (p[3] = iter /\ line > WaitLine(p))) => Passed(p)
        /\ ~At(p, "none") => ag[p].flavor = test.flavor

(* The readers of this iteration that are counted, ...                     *)
Counted1 == {a \in 1 .. test.readers : ag[<<"reader", a, iter>>].pc \notin Early}

(* ... without which no writer is started.                                 *)
BarrierInv ==
    /\ stats.readersReady <= Cardinality(Counted1)
    /\ line >= BodyLines => stats.readersReady = 0
    /\ line > test.readers + 1 =>
        \A a \in 1 .. test.readers : ag[<<"reader", a, iter>>].pc \notin Early

(* The messages written in this iteration: by whom, and how many it had    *)
(* still to write.                                                         *)
Written ==
    {x \in (1 .. test.writers) \X (1 .. test.messages) : x[2] > ag[<<"writer", x[1], iter>>].todo}

StreamInv == end = All * (iter - 1) + Cardinality(Written)

(* A reader has loaded the end of the stream and was not killed.           *)
Reading(p) ==
    /\ p[1] = "reader" /\ ag[p].pc \notin {"none", "open", "alloc", "consist", "load"}
    /\ ag[p].code \notin {Abort, Killed}

OwnInv ==
    \A p \in Agents : Reading(p) =>
        /\ ag[p].pos - ag[p].rcved = All * (p[3] - 1)
        /\ ag[p].rcved <= All

(* The readers that have added what they received to msgCount.             *)
HasAdded(p) ==
    IF test.flavor = "LATENCY" THEN Passed(p) ELSE ag[p].rcved = All

Added == {a \in 1 .. test.readers : HasAdded(<<"reader", a, iter>>)}

CountInv ==
    All > 1 \/ test.flavor = "LATENCY" =>
        stats.msgCount = test.readers * All * (iter - 1) + All * Cardinality(Added)

BenchInv ==
    test.script = "bench-cell" =>
        /\ BenchScript /\ BarrierInv /\ StreamInv /\ OwnInv /\ CountInv
        /\ line > BodyLines => iter = test.iterations

------------------------------------------------------------------------------
(* robust-reader.sh and robust-writer.sh.                                  *)

First == <<"reader", 1, 1>>
Second == <<"reader", 2, 1>>

(* What comes before the crash is over: lines, and the writer after it.    *)
Before == IF test.script = "robust-reader" THEN 2 ELSE 4
LastWriter == <<"writer", IF test.script = "robust-reader" THEN 1 ELSE 2, 1>>

RobustScript ==
    /\ iter = 1
    /\ \A p \in Agents : ~At(p, "none") =>
        \/ p = First /\ ag[p].flavor \in {"ROBUST_READER", "ROBUST_WRITER"}
        \/ p \in {Second, LastWriter} /\ ag[p].flavor = "LATENCY"
        \/ p = <<"writer", 1, 1>> /\ test.script = "robust-writer" /\ ag[p].flavor = "ROBUST_WRITER"
    /\ At(First, "none") <=> line <= 1
    /\ At(Second, "none") <=> line <= Before + 2
    /\ At(LastWriter, "none") <=> line <= Before + 4
    /\ line > Before => ag[First].code # EC_READER_EXPIRED /\ Gone(First)
    /\ line > Before + 5 => Passed(LastWriter)
    /\ line > Before + 6 => Passed(Second)
    /\ test.script = "robust-reader" =>
        /\ ~At(First, "none") => ag[First].flavor = "ROBUST_READER"
        /\ line > 2 => Passed(First)
    /\ test.script = "robust-writer" =>
        /\ At(<<"writer", 1, 1>>, "none") <=> line <= 2
        /\ line > 3 => Passed(<<"writer", 1, 1>>)

(* Only the second reader counts, what it has received.                    *)
RobustCount ==
    /\ stats.msgCount = IF Passed(Second) THEN ag[Second].rcved ELSE 0
    /\ line > Before + 7 => stats.msgCount = test.messages

(* The first reader of robust-reader.sh takes the only slot with it.       *)
RecoveredInv ==
    test.script = "robust-reader" =>
        /\ ag[First].pc \notin {"wait", "run", "blocked", "leave", "main"}
        /\ Passed(First) => info[1].lock.owner = First \/ "info" \in recovered
        /\ Inside(Second) \/ At(Second, "main") \/ Passed(Second) => "info" \in recovered

RobustInv ==
    test.script # "bench-cell" => RobustScript /\ RobustCount /\ RecoveredInv

(* A script passes at its end only.                                        *)
ExitInv == exit = EC_SUCCESS => line > Len(Script(test, iter))

BurstInv ==
    TypeOK /\ AgentInv /\ LockInv /\ ExpiredInv /\ BenchInv /\ RobustInv /\ ExitInv

------------------------------------------------------------------------------
(* What is known of a test.                                                *)
LEMMA TestIs ==
    ASSUME NEW t \in Tests
    PROVE  /\ t.messages \in Nat \ {0} /\ t.slots \in 1 .. MaxSlots
           /\ t.readers \in Nat \ {0} /\ t.readers <= MaxAgents
           /\ t.writers \in Nat \ {0} /\ t.writers <= MaxAgents
           /\ t.iterations \in Nat \ {0} /\ t.iterations <= MaxIterations
           /\ MaxAgents \in Nat /\ MaxAgents >= 2 /\ MaxIterations \in Nat /\ MaxIterations >= 1
           /\ MaxSlots \in Nat /\ MaxSlots >= 1
           /\ t.script \in {"bench-cell", "robust-reader", "robust-writer"}
           /\ t.script = "bench-cell" => t.flavor \in {"FIRST_LAST_DURATION", "LATENCY"}
           /\ t.script # "bench-cell" => t.readers = 1 /\ t.writers = 1 /\ t.iterations = 1
           /\ t.script = "robust-reader" => t.slots = 1
BY BurstAssumption

(* What an agent is made of.                                               *)
LEMMA AgentsAre ==
    /\ \A p \in Agents : /\ p[1] \in {"reader", "writer"}
                         /\ p[2] \in 1 .. MaxAgents /\ p[3] \in 1 .. MaxIterations
                         /\ p = <<p[1], p[2], p[3]>>
    /\ \A k \in {"reader", "writer"}, n \in 1 .. MaxAgents, i \in 1 .. MaxIterations :
        <<k, n, i>> \in Agents
    /\ Nobody \notin Agents
<1>1. Nobody[1] = "nobody"
  BY DEF Nobody
<1>2. \A p \in Agents : p[1] # "nobody"
  BY DEF Agents
<1> QED
  BY <1>1, <1>2 DEF Agents

------------------------------------------------------------------------------
(* The lines of the scripts.                                               *)
Commands ==
    [do : {"start"}, p : Agents, flavor : Flavors] \cup [do : {"wait", "kill"}, p : Agents]
    \cup [do : {"cmprcved"}, n : Nat]
    \cup [do : {"waitreaders", "resetiter", "loop", "expired", "unlink", "sleep"}]

(* The commands are commands.                                              *)
LEMMA CommandsAre ==
    /\ \A p \in Agents, f \in Flavors : Start(p, f) \in Commands
    /\ \A p \in Agents : Wait(p) \in Commands /\ Kill(p) \in Commands
    /\ \A n \in Nat : Cmp(n) \in Commands
    /\ \A d \in {"waitreaders", "resetiter", "loop", "expired", "unlink", "sleep"} :
        Agent(d) \in Commands
BY DEF Commands, Start, Wait, Kill, Cmp, Agent

(* Joining sequences of them.                                              *)
LEMMA Joined ==
    ASSUME NEW s \in Seq(Commands), NEW t \in Seq(Commands)
    PROVE  /\ s \o t \in Seq(Commands) /\ Len(s \o t) = Len(s) + Len(t)
           /\ \A i \in 1 .. Len(s) : (s \o t)[i] = s[i]
           /\ \A i \in 1 .. Len(t) : (s \o t)[Len(s) + i] = t[i]
OBVIOUS

(* A function on 1 .. n is a sequence of n.                                *)
LEMMA Listed ==
    ASSUME NEW n \in Nat, NEW s \in [1 .. n -> Commands]
    PROVE  s \in Seq(Commands) /\ Len(s) = n
OBVIOUS

(* The script bench-cell.sh, line by line.                                 *)
LEMMA BenchLines ==
    ASSUME NEW t \in Tests, t.script = "bench-cell", NEW i \in 1 .. t.iterations
    PROVE  LET R == t.readers
               W == t.writers
               s == BenchCell(t, i)
           IN  /\ Len(s) = 2 * R + 2 * W + 5
               /\ \A a \in 1 .. R : /\ s[a] = Start(<<"reader", a, i>>, t.flavor)
                                     /\ s[R + 1 + 2 * W + a] = Wait(<<"reader", a, i>>)
               /\ \A a \in 1 .. W : /\ s[R + 1 + a] = Start(<<"writer", a, i>>, t.flavor)
                                     /\ s[R + 1 + W + a] = Wait(<<"writer", a, i>>)
               /\ s[R + 1] = Agent("waitreaders")
               /\ s[2 * R + 2 * W + 2] = Agent("resetiter")
               /\ s[2 * R + 2 * W + 3] = Agent("loop")
               /\ s[2 * R + 2 * W + 4] = Agent("expired")
               /\ s[2 * R + 2 * W + 5] = Agent("unlink")
<1> DEFINE R == t.readers
           W == t.writers
           s == BenchCell(t, i)
<1> DEFINE sr == [a \in 1 .. R |-> Start(<<"reader", a, i>>, t.flavor)]
           sw == [a \in 1 .. W |-> Start(<<"writer", a, i>>, t.flavor)]
           ww == [a \in 1 .. W |-> Wait(<<"writer", a, i>>)]
           wr == [a \in 1 .. R |-> Wait(<<"reader", a, i>>)]
           bar == <<Agent("waitreaders")>>
           rest == <<Agent("resetiter"), Agent("loop"), Agent("expired"), Agent("unlink")>>
<1>1. "reader" \in {"reader", "writer"} /\ "writer" \in {"reader", "writer"}
  OBVIOUS
<1>2. /\ R \in 1 .. MaxAgents /\ W \in 1 .. MaxAgents /\ i \in 1 .. MaxIterations
      /\ t.flavor \in Flavors /\ R \in Nat /\ W \in Nat
  BY TestIs DEF Flavors
<1> HIDE DEF R, W
<1>3. ASSUME NEW kind \in {"reader", "writer"}, NEW a \in Nat, 1 <= a, a <= MaxAgents
       PROVE  /\ Start(<<kind, a, i>>, t.flavor) \in Commands
              /\ Wait(<<kind, a, i>>) \in Commands
  <2>1. <<kind, a, i>> \in Agents
    BY <1>2, <1>3, AgentsAre
  <2> QED
    BY <1>2, <2>1, CommandsAre
<1>4. /\ sr \in Seq(Commands) /\ Len(sr) = R
      /\ \A a \in 1 .. R : sr[a] = Start(<<"reader", a, i>>, t.flavor)
  <2>1. ASSUME NEW a \in 1 .. R
        PROVE  Start(<<"reader", a, i>>, t.flavor) \in Commands
    <3>1. a \in Nat /\ 1 <= a /\ a <= MaxAgents
      BY <1>2, BurstAssumption
    <3> QED
      BY <1>1, <1>3, <3>1
  <2>2. sr \in [1 .. R -> Commands]
    BY <2>1
  <2> QED
    BY <1>2, <2>2, Listed
<1>5. /\ sw \in Seq(Commands) /\ Len(sw) = W
      /\ \A a \in 1 .. W : sw[a] = Start(<<"writer", a, i>>, t.flavor)
  <2>1. ASSUME NEW a \in 1 .. W
        PROVE  Start(<<"writer", a, i>>, t.flavor) \in Commands
    <3>1. a \in Nat /\ 1 <= a /\ a <= MaxAgents
      BY <1>2, BurstAssumption
    <3> QED
      BY <1>1, <1>3, <3>1
  <2>2. sw \in [1 .. W -> Commands]
    BY <2>1
  <2> QED
    BY <1>2, <2>2, Listed
<1>6. ww \in Seq(Commands) /\ Len(ww) = W /\ \A a \in 1 .. W : ww[a] = Wait(<<"writer", a, i>>)
  <2>1. ASSUME NEW a \in 1 .. W
        PROVE  Wait(<<"writer", a, i>>) \in Commands
    <3>1. a \in Nat /\ 1 <= a /\ a <= MaxAgents
      BY <1>2, BurstAssumption
    <3> QED
      BY <1>1, <1>3, <3>1
  <2>2. ww \in [1 .. W -> Commands]
    BY <2>1
  <2> QED
    BY <1>2, <2>2, Listed
<1>7. wr \in Seq(Commands) /\ Len(wr) = R /\ \A a \in 1 .. R : wr[a] = Wait(<<"reader", a, i>>)
  <2>1. ASSUME NEW a \in 1 .. R
        PROVE  Wait(<<"reader", a, i>>) \in Commands
    <3>1. a \in Nat /\ 1 <= a /\ a <= MaxAgents
      BY <1>2, BurstAssumption
    <3> QED
      BY <1>1, <1>3, <3>1
  <2>2. wr \in [1 .. R -> Commands]
    BY <2>1
  <2> QED
    BY <1>2, <2>2, Listed
<1>8. \A d \in {"waitreaders", "resetiter", "loop", "expired", "unlink", "sleep"} :
        Agent(d) \in Commands
  BY CommandsAre
<1>9. bar \in Seq(Commands) /\ Len(bar) = 1 /\ bar[1] = Agent("waitreaders")
  BY <1>8
<1>10. /\ rest \in Seq(Commands) /\ Len(rest) = 4
      /\ rest[1] = Agent("resetiter") /\ rest[2] = Agent("loop")
      /\ rest[3] = Agent("expired") /\ rest[4] = Agent("unlink")
  BY <1>8
<1>11. s = sr \o bar \o sw \o ww \o wr \o rest
  BY Zenon DEF BenchCell, R, W
<1> DEFINE s1 == sr \o bar
           s2 == s1 \o sw
           s3 == s2 \o ww
           s4 == s3 \o wr
<1> HIDE DEF sr, sw, ww, wr, bar, rest, s
<1> DEFINE n1 == R + 1
           n2 == n1 + W
           n3 == n2 + W
           n4 == n3 + R
<1>12. n1 \in Nat /\ n2 \in Nat /\ n3 \in Nat /\ n4 \in Nat
  BY <1>2
<1>13. /\ n1 = R + 1 /\ n2 = n1 + W /\ n3 = n2 + W /\ n4 = n3 + R
      /\ n3 = R + 1 + 2 * W /\ n4 = 2 * R + 2 * W + 1
  BY <1>2
<1> HIDE DEF n1, n2, n3, n4
<1>14. /\ s1 \in Seq(Commands) /\ Len(s1) = n1
       /\ \A a \in 1 .. R : s1[a] = sr[a]
       /\ \A a \in 1 .. 1 : s1[R + a] = bar[a]
  <2>1. /\ s1 \in Seq(Commands) /\ Len(s1) = Len(sr) + Len(bar)
        /\ \A a \in 1 .. Len(sr) : s1[a] = sr[a]
        /\ \A a \in 1 .. Len(bar) : s1[Len(sr) + a] = bar[a]
    BY <1>4, <1>9, Joined, Zenon
  <2> HIDE DEF s1
  <2> QED
    BY <1>12, <1>13, <1>4, <1>9, <2>1
<1> HIDE DEF s1
<1>15. /\ s2 \in Seq(Commands) /\ Len(s2) = n2
       /\ \A a \in 1 .. n1 : s2[a] = s1[a]
       /\ \A a \in 1 .. W : s2[n1 + a] = sw[a]
  <2>1. /\ s2 \in Seq(Commands) /\ Len(s2) = Len(s1) + Len(sw)
        /\ \A a \in 1 .. Len(s1) : s2[a] = s1[a]
        /\ \A a \in 1 .. Len(sw) : s2[Len(s1) + a] = sw[a]
    BY <1>14, <1>5, Joined, Zenon
  <2> HIDE DEF s2
  <2> QED
    BY <1>12, <1>13, <1>14, <1>5, <2>1
<1> HIDE DEF s2
<1>16. /\ s3 \in Seq(Commands) /\ Len(s3) = n3
       /\ \A a \in 1 .. n2 : s3[a] = s2[a]
       /\ \A a \in 1 .. W : s3[n2 + a] = ww[a]
  <2>1. /\ s3 \in Seq(Commands) /\ Len(s3) = Len(s2) + Len(ww)
        /\ \A a \in 1 .. Len(s2) : s3[a] = s2[a]
        /\ \A a \in 1 .. Len(ww) : s3[Len(s2) + a] = ww[a]
    BY <1>15, <1>6, Joined, Zenon
  <2> HIDE DEF s3
  <2> QED
    BY <1>12, <1>13, <1>15, <1>6, <2>1
<1> HIDE DEF s3
<1>17. /\ s4 \in Seq(Commands) /\ Len(s4) = n4
       /\ \A a \in 1 .. n3 : s4[a] = s3[a]
       /\ \A a \in 1 .. R : s4[n3 + a] = wr[a]
  <2>1. /\ s4 \in Seq(Commands) /\ Len(s4) = Len(s3) + Len(wr)
        /\ \A a \in 1 .. Len(s3) : s4[a] = s3[a]
        /\ \A a \in 1 .. Len(wr) : s4[Len(s3) + a] = wr[a]
    BY <1>16, <1>7, Joined, Zenon
  <2> HIDE DEF s4
  <2> QED
    BY <1>12, <1>13, <1>16, <1>7, <2>1
<1>18. s = s4 \o rest
  BY <1>11 DEF s1, s2, s3
<1> HIDE DEF s4
<1>19. /\ Len(s) = n4 + 4
       /\ \A a \in 1 .. n4 : s[a] = s4[a]
       /\ \A a \in 1 .. 4 : s[n4 + a] = rest[a]
  <2>1. /\ Len(s4 \o rest) = Len(s4) + Len(rest)
        /\ \A a \in 1 .. Len(s4) : (s4 \o rest)[a] = s4[a]
        /\ \A a \in 1 .. Len(rest) : (s4 \o rest)[Len(s4) + a] = rest[a]
    BY <1>10, <1>17, Joined, Zenon
  <2> QED
    BY <1>12, <1>10, <1>17, <1>18, <2>1
<1>20. ASSUME NEW a \in 1 .. R
       PROVE  s[a] = Start(<<"reader", a, i>>, t.flavor) /\ s[n3 + a] = Wait(<<"reader", a, i>>)
  <2>1. /\ a \in 1 .. n1 /\ a \in 1 .. n2 /\ a \in 1 .. n3 /\ a \in 1 .. n4
        /\ n3 + a \in 1 .. n4
    BY <1>2, <1>12, <1>13
  <2>2. s[a] = s4[a] /\ s4[a] = s3[a] /\ s3[a] = s2[a] /\ s2[a] = s1[a] /\ s1[a] = sr[a]
    BY <1>14, <1>15, <1>16, <1>17, <1>19, <2>1
  <2>3. s[n3 + a] = s4[n3 + a] /\ s4[n3 + a] = wr[a]
    BY <1>17, <1>19, <2>1
  <2> QED
    BY <1>4, <1>7, <2>2, <2>3, Zenon
<1>21. ASSUME NEW a \in 1 .. W
       PROVE  /\ s[n1 + a] = Start(<<"writer", a, i>>, t.flavor)
              /\ s[n2 + a] = Wait(<<"writer", a, i>>)
  <2>1. /\ n1 + a \in 1 .. n2 /\ n1 + a \in 1 .. n3 /\ n1 + a \in 1 .. n4
        /\ n2 + a \in 1 .. n3 /\ n2 + a \in 1 .. n4
    BY <1>2, <1>12, <1>13
  <2>2. /\ s[n1 + a] = s4[n1 + a] /\ s4[n1 + a] = s3[n1 + a] /\ s3[n1 + a] = s2[n1 + a]
        /\ s2[n1 + a] = sw[a]
    BY <1>15, <1>16, <1>17, <1>19, <2>1
  <2>3. s[n2 + a] = s4[n2 + a] /\ s4[n2 + a] = s3[n2 + a] /\ s3[n2 + a] = ww[a]
    BY <1>16, <1>17, <1>19, <2>1
  <2> QED
    BY <1>5, <1>6, <2>2, <2>3, Zenon
<1>22. s[n1] = Agent("waitreaders")
  <2>1. n1 \in 1 .. n1 /\ n1 \in 1 .. n2 /\ n1 \in 1 .. n3 /\ n1 \in 1 .. n4 /\ n1 = R + 1
    BY <1>2, <1>12, <1>13
  <2> QED
    BY <1>9, <1>14, <1>15, <1>16, <1>17, <1>19, <2>1
<1>23. /\ s[n4 + 1] = rest[1] /\ s[n4 + 2] = rest[2]
       /\ s[n4 + 3] = rest[3] /\ s[n4 + 4] = rest[4]
  BY <1>19
<1>24. /\ n1 = R + 1 /\ n2 = R + 1 + W /\ n3 = R + 1 + 2 * W
       /\ n4 + 1 = 2 * R + 2 * W + 2 /\ n4 + 2 = 2 * R + 2 * W + 3
       /\ n4 + 3 = 2 * R + 2 * W + 4 /\ n4 + 4 = 2 * R + 2 * W + 5
  BY <1>2, <1>12, <1>13
<1>25. /\ Len(s) = 2 * R + 2 * W + 5
       /\ \A a \in 1 .. R : /\ s[a] = Start(<<"reader", a, i>>, t.flavor)
                             /\ s[R + 1 + 2 * W + a] = Wait(<<"reader", a, i>>)
       /\ \A a \in 1 .. W : /\ s[R + 1 + a] = Start(<<"writer", a, i>>, t.flavor)
                             /\ s[R + 1 + W + a] = Wait(<<"writer", a, i>>)
       /\ s[R + 1] = Agent("waitreaders")
       /\ s[2 * R + 2 * W + 2] = Agent("resetiter")
       /\ s[2 * R + 2 * W + 3] = Agent("loop")
       /\ s[2 * R + 2 * W + 4] = Agent("expired")
       /\ s[2 * R + 2 * W + 5] = Agent("unlink")
  BY <1>10, <1>19, <1>20, <1>21, <1>22, <1>23, <1>24
<1> QED
  BY <1>25, Zenon DEF R, W, s

(* What bench-cell.sh does at its line.                                    *)
LEMMA BenchCommand ==
    ASSUME TypeOK, test.script = "bench-cell"
    PROVE  /\ Len(Script(test, iter)) = BodyLines + 2
           /\ line <= BodyLines + 2 =>
                /\ Command.do \in {"start", "wait", "waitreaders", "resetiter", "loop", "expired",
                                   "unlink"}
                /\ Command.do \in {"start", "wait"} =>
                    /\ Command.p \in Agents /\ Command.p[3] = iter
                    /\ Command.p[2] <= Many(Command.p)
                    /\ line = (IF Command.do = "start" THEN StartLine(Command.p)
                               ELSE WaitLine(Command.p))
                    /\ Command.do = "start" => Command.flavor = test.flavor
                /\ Command.do = "waitreaders" => line = test.readers + 1
                /\ Command.do = "resetiter" => line = BodyLines - 1
                /\ Command.do = "loop" => line = BodyLines
                /\ Command.do \in {"expired", "unlink"} => line > BodyLines
<1> DEFINE R == test.readers
           W == test.writers
           s == Script(test, iter)
           w2 == R + 1 + 2 * W
           b == 2 * R + 2 * W
<1>1. /\ test \in Tests /\ iter \in 1 .. test.iterations /\ iter \in 1 .. MaxIterations
      /\ R \in Nat \ {0} /\ R <= MaxAgents /\ W \in Nat \ {0} /\ W <= MaxAgents
      /\ line \in Nat /\ line >= 1 /\ MaxAgents \in Nat
  <2>1. test \in Tests /\ iter \in 1 .. test.iterations /\ line \in 1 .. Len(Script(test, iter)) + 1
    BY DEF TypeOK
  <2> QED
    BY <2>1, TestIs
<1>2. s = BenchCell(test, iter)
  BY DEF Script
<1>3. /\ Len(s) = b + 5
      /\ \A a \in 1 .. R : /\ s[a] = Start(<<"reader", a, iter>>, test.flavor)
                           /\ s[w2 + a] = Wait(<<"reader", a, iter>>)
      /\ \A a \in 1 .. W : /\ s[R + 1 + a] = Start(<<"writer", a, iter>>, test.flavor)
                           /\ s[R + 1 + W + a] = Wait(<<"writer", a, iter>>)
      /\ s[R + 1] = Agent("waitreaders")
      /\ s[b + 2] = Agent("resetiter") /\ s[b + 3] = Agent("loop")
      /\ s[b + 4] = Agent("expired") /\ s[b + 5] = Agent("unlink")
  BY <1>1, <1>2, BenchLines, Zenon
<1>4. BodyLines = b + 3 /\ Command = s[line]
  BY DEF BodyLines, Command
<1>5. b \in Nat /\ w2 \in Nat /\ b + 1 = w2 + R /\ w2 = R + 1 + W + W
  BY <1>1
<1> HIDE DEF b, w2, s
<1>6. \A k \in {"reader", "writer"}, a \in Nat :
        1 <= a /\ a <= MaxAgents => <<k, a, iter>> \in Agents
  BY <1>1, AgentsAre
<1>7. SUFFICES ASSUME line <= b + 5
      PROVE  /\ Command.do \in {"start", "wait", "waitreaders", "resetiter", "loop", "expired",
                                "unlink"}
             /\ Command.do \in {"start", "wait"} =>
                    /\ Command.p \in Agents /\ Command.p[3] = iter
                    /\ Command.p[2] <= Many(Command.p)
                    /\ line = (IF Command.do = "start" THEN StartLine(Command.p)
                               ELSE WaitLine(Command.p))
                    /\ Command.do = "start" => Command.flavor = test.flavor
             /\ Command.do = "waitreaders" => line = R + 1
             /\ Command.do = "resetiter" => line = b + 2
             /\ Command.do = "loop" => line = b + 3
             /\ Command.do \in {"expired", "unlink"} => line > b + 3
  BY <1>3, <1>4, <1>5 DEF s
<1>8. CASE line <= R
  <2>1. Command = Start(<<"reader", line, iter>>, test.flavor)
    BY <1>1, <1>3, <1>4, <1>8
  <2>2. Command.do = "start" /\ Command.p = <<"reader", line, iter>> /\ Command.flavor = test.flavor
    BY <2>1 DEF Start
  <2> QED
    BY <1>1, <1>6, <1>8, <2>2 DEF Many, StartLine
<1>9. CASE line = R + 1
  BY <1>3, <1>4, <1>9 DEF Agent
<1>10. CASE line > R + 1 /\ line <= R + 1 + W
  <2> DEFINE a == line - (R + 1)
  <2>1. a \in 1 .. W /\ a <= MaxAgents /\ line = R + 1 + a
    BY <1>1, <1>10
  <2>2. Command = Start(<<"writer", a, iter>>, test.flavor)
    BY <1>3, <1>4, <2>1
  <2> HIDE DEF a
  <2>3. Command.do = "start" /\ Command.p = <<"writer", a, iter>> /\ Command.flavor = test.flavor
    BY <2>2 DEF Start
  <2>4. Command.p \in Agents /\ Command.p[1] = "writer" /\ Command.p[2] = a /\ Command.p[3] = iter
    BY <1>1, <1>6, <2>1, <2>3
  <2> QED
    BY <1>1, <2>1, <2>3, <2>4 DEF Many, StartLine
<1>11. CASE line > R + 1 + W /\ line <= w2
  <2> DEFINE a == line - (R + 1 + W)
  <2>1. a \in 1 .. W /\ a <= MaxAgents /\ line = R + 1 + W + a
    BY <1>1, <1>5, <1>11
  <2>2. Command = Wait(<<"writer", a, iter>>)
    BY <1>3, <1>4, <2>1
  <2> HIDE DEF a
  <2>3. Command.do = "wait" /\ Command.p = <<"writer", a, iter>>
    BY <2>2 DEF Wait
  <2>4. Command.p \in Agents /\ Command.p[1] = "writer" /\ Command.p[2] = a /\ Command.p[3] = iter
    BY <1>1, <1>6, <2>1, <2>3
  <2> QED
    BY <1>1, <2>1, <2>3, <2>4 DEF Many, WaitLine
<1>12. CASE line > w2 /\ line <= w2 + R
  <2> DEFINE a == line - w2
  <2>1. a \in 1 .. R /\ a <= MaxAgents /\ line = w2 + a
    BY <1>1, <1>5, <1>12
  <2>2. Command = Wait(<<"reader", a, iter>>)
    BY <1>3, <1>4, <2>1
  <2> HIDE DEF a
  <2>3. Command.do = "wait" /\ Command.p = <<"reader", a, iter>>
    BY <2>2 DEF Wait
  <2>4. Command.p \in Agents /\ Command.p[1] = "reader" /\ Command.p[2] = a /\ Command.p[3] = iter
    BY <1>1, <1>6, <2>1, <2>3
  <2> QED
    BY <1>1, <2>1, <2>3, <2>4 DEF Many, WaitLine, w2
<1>13. CASE line > w2 + R
  <2>1. line \in {b + 2, b + 3, b + 4, b + 5}
    BY <1>1, <1>5, <1>7, <1>13
  <2>2. CASE line = b + 2
    BY <1>3, <1>4, <1>5, <2>2 DEF Agent
  <2>3. CASE line = b + 3
    BY <1>3, <1>4, <1>5, <2>3 DEF Agent
  <2>4. CASE line = b + 4
    BY <1>3, <1>4, <1>5, <2>4 DEF Agent
  <2>5. CASE line = b + 5
    BY <1>3, <1>4, <1>5, <2>5 DEF Agent
  <2> QED
    BY <2>1, <2>2, <2>3, <2>4, <2>5
<1> QED
  BY <1>1, <1>5, <1>8, <1>9, <1>10, <1>11, <1>12, <1>13

(* What robust-reader.sh and robust-writer.sh do at theirs.                *)
RobustLine(l) ==
    IF l <= Before
    THEN IF test.script = "robust-reader"
         THEN IF l = 1 THEN Start(First, "ROBUST_READER") ELSE Wait(First)
         ELSE CASE l = 1 -> Start(First, "ROBUST_WRITER")
                [] l = 2 -> Start(<<"writer", 1, 1>>, "ROBUST_WRITER")
                [] l = 3 -> Wait(<<"writer", 1, 1>>)
                [] OTHER -> Kill(First)
    ELSE CASE l = Before + 1 -> Cmp(0)
           [] l = Before + 2 -> Start(Second, "LATENCY")
           [] l = Before + 3 -> Agent("sleep")
           [] l = Before + 4 -> Start(LastWriter, "LATENCY")
           [] l = Before + 5 -> Wait(LastWriter)
           [] l = Before + 6 -> Wait(Second)
           [] l = Before + 7 -> Cmp(test.messages)
           [] OTHER -> Agent("unlink")

(* A robust script has eight lines after the crash.                        *)
LEMMA RobustCommand ==
    ASSUME TypeOK, test.script # "bench-cell"
    PROVE  /\ First \in Agents /\ Second \in Agents /\ LastWriter \in Agents
           /\ <<"writer", 1, 1>> \in Agents
           /\ Len(Script(test, iter)) = Before + 8
           /\ line <= Before + 8 => Command = RobustLine(line)
<1>1. test \in Tests /\ line \in Nat /\ line >= 1
  BY DEF TypeOK
<1>2. /\ First \in Agents /\ Second \in Agents /\ LastWriter \in Agents
      /\ <<"writer", 1, 1>> \in Agents
  BY <1>1, TestIs, AgentsAre DEF First, Second, LastWriter
<1> DEFINE tail == AfterCrash(test, LastWriter)
<1>3. /\ \A f \in Flavors : /\ Start(First, f) \in Commands
                           /\ Start(<<"writer", 1, 1>>, f) \in Commands
      /\ Start(Second, "LATENCY") \in Commands /\ Start(LastWriter, "LATENCY") \in Commands
      /\ Wait(First) \in Commands /\ Wait(<<"writer", 1, 1>>) \in Commands
      /\ Kill(First) \in Commands /\ Cmp(0) \in Commands /\ Cmp(test.messages) \in Commands
      /\ Agent("sleep") \in Commands /\ Agent("unlink") \in Commands
      /\ Wait(LastWriter) \in Commands /\ Wait(Second) \in Commands
  BY <1>1, <1>2, TestIs, CommandsAre DEF Flavors
<1>4. tail = <<Cmp(0), Start(Second, "LATENCY"), Agent("sleep"), Start(LastWriter, "LATENCY"),
               Wait(LastWriter), Wait(Second), Cmp(test.messages), Agent("unlink")>>
  BY Zenon DEF AfterCrash, Second
<1> HIDE DEF tail
<1>5. /\ tail \in Seq(Commands) /\ Len(tail) = 8
      /\ tail[1] = Cmp(0) /\ tail[2] = Start(Second, "LATENCY") /\ tail[3] = Agent("sleep")
      /\ tail[4] = Start(LastWriter, "LATENCY") /\ tail[5] = Wait(LastWriter)
      /\ tail[6] = Wait(Second) /\ tail[7] = Cmp(test.messages) /\ tail[8] = Agent("unlink")
  BY <1>3, <1>4
<1>6. CASE test.script = "robust-reader"
  <2> DEFINE head == <<Start(First, "ROBUST_READER"), Wait(First)>>
  <2>1. Script(test, iter) = head \o tail
    BY <1>6 DEF Script, RobustReader, tail, First, LastWriter
  <2>2. /\ head \in Seq(Commands) /\ Len(head) = 2
        /\ head[1] = Start(First, "ROBUST_READER") /\ head[2] = Wait(First)
    BY <1>3 DEF Flavors
  <2> DEFINE s == head \o tail
  <2> HIDE DEF head
  <2>3. /\ Len(s) = Len(head) + Len(tail)
        /\ \A i \in 1 .. Len(head) : s[i] = head[i]
        /\ \A i \in 1 .. Len(tail) : s[Len(head) + i] = tail[i]
    BY <1>5, <2>2, Joined, Zenon
  <2> HIDE DEF s
  <2>4. /\ Len(s) = 10 /\ s[1] = head[1] /\ s[2] = head[2]
        /\ s[3] = tail[1] /\ s[4] = tail[2] /\ s[5] = tail[3] /\ s[6] = tail[4]
        /\ s[7] = tail[5] /\ s[8] = tail[6] /\ s[9] = tail[7] /\ s[10] = tail[8]
    BY <1>5, <2>2, <2>3
  <2>5. Before = 2
    BY <1>6 DEF Before
  <2>6. Command = s[line] /\ Script(test, iter) = s
    BY <2>1 DEF Command, s
  <2>7. line <= 10 => line \in {1, 2, 3, 4, 5, 6, 7, 8, 9, 10}
    BY <1>1
  <2> QED
    BY <1>2, <1>5, <1>6, <2>2, <2>4, <2>5, <2>6, <2>7 DEF RobustLine
<1>7. CASE test.script = "robust-writer"
  <2> DEFINE head == <<Start(First, "ROBUST_WRITER"), Start(<<"writer", 1, 1>>, "ROBUST_WRITER"),
                       Wait(<<"writer", 1, 1>>), Kill(First)>>
  <2>1. Script(test, iter) = head \o tail
    BY <1>7 DEF Script, RobustWriter, tail, First, LastWriter
  <2>2. /\ head \in Seq(Commands) /\ Len(head) = 4
        /\ head[1] = Start(First, "ROBUST_WRITER")
        /\ head[2] = Start(<<"writer", 1, 1>>, "ROBUST_WRITER")
        /\ head[3] = Wait(<<"writer", 1, 1>>) /\ head[4] = Kill(First)
    BY <1>3 DEF Flavors
  <2> DEFINE s == head \o tail
  <2> HIDE DEF head
  <2>3. /\ Len(s) = Len(head) + Len(tail)
        /\ \A i \in 1 .. Len(head) : s[i] = head[i]
        /\ \A i \in 1 .. Len(tail) : s[Len(head) + i] = tail[i]
    BY <1>5, <2>2, Joined, Zenon
  <2> HIDE DEF s
  <2>4. /\ Len(s) = 12 /\ s[1] = head[1] /\ s[2] = head[2] /\ s[3] = head[3] /\ s[4] = head[4]
        /\ s[5] = tail[1] /\ s[6] = tail[2] /\ s[7] = tail[3] /\ s[8] = tail[4]
        /\ s[9] = tail[5] /\ s[10] = tail[6] /\ s[11] = tail[7] /\ s[12] = tail[8]
    BY <1>5, <2>2, <2>3
  <2>5. Before = 4
    BY <1>7 DEF Before
  <2>6. Command = s[line] /\ Script(test, iter) = s
    BY <2>1 DEF Command, s
  <2>7. line <= 12 => line \in {1, 2, 3, 4, 5, 6, 7, 8, 9, 10, 11, 12}
    BY <1>1
  <2> QED
    BY <1>2, <1>5, <1>7, <2>2, <2>4, <2>5, <2>6, <2>7 DEF RobustLine
<1> QED
  BY <1>1, <1>6, <1>7, TestIs

------------------------------------------------------------------------------
(* The steps of the agents.                                                *)

(* A process takes a step: the script and the other agents do not.         *)
Steps(p) ==
    /\ UNCHANGED scriptVars
    /\ \A q \in Agents : q # p => ag'[q] = ag[q]
    /\ Alive(p) /\ ag'[p].pc # "none" /\ ag'[p].flavor = ag[p].flavor
    /\ recovered \subseteq recovered'

AgentRecord ==
    [pc : Labels, flavor : Flavors \cup {"none"}, id : Slots, pos : Nat, rcved : Nat, todo : Nat,
     code : {EC_SUCCESS, EC_READER_EXPIRED, Abort, Killed}]

SlotRecord == [lock : Mutexes(Agents), isActive : BOOLEAN, position : Nat]

StatsRecord == [msgCount : Nat, readersReady : Nat, expiredReaders : Nat]

(* The variables of the agents have their types.                           *)
AgentTypes ==
    /\ ag \in [Agents -> AgentRecord]
    /\ end \in Nat /\ writerMtx \in Mutexes(Agents) /\ info \in [1 .. MaxSlots -> SlotRecord]
    /\ stats \in StatsRecord /\ recovered \subseteq {"writerMtx", "info"}

(* The actions of an agent.                                                *)
LEMMA AgentCases ==
    ASSUME NEW p \in Agents, AgentStep(p) \/ Die(p)
    PROVE  \/ OpenSocket(p) \/ Alloc(p) \/ MakeConsistent(p) \/ LoadFreePos(p)
           \/ Activate(p) \/ CountReady(p) \/ ReadMore(p) \/ WaitNotification(p)
           \/ RunEnds(p) \/ Expire(p) \/ ReadMessage(p) \/ Free(p)
           \/ Lock(p) \/ Scan(p) \/ NotifyBackpressure(p) \/ OnBackpressure(p)
           \/ Write(p) \/ Unlock(p) \/ NotifyAtEnd(p) \/ Main(p)
           \/ Die(p)
BY DEF AgentStep, ReaderStep, WriterStep

(* What the calls of a mutex make of it.                                   *)
LEMMA MutexesAre ==
    ASSUME NEW m \in Mutexes(Agents), NEW p \in Agents, NEW code
    PROVE  /\ Taken(m, p, code) \in Mutexes(Agents)
           /\ Taken(m, p, code).owner = p /\ Taken(m, p, code).lost = m.lost
           /\ Taken(m, p, code).consistent <=> code = "0"
           /\ MadeConsistent(m) \in Mutexes(Agents) /\ MadeConsistent(m).owner = m.owner
           /\ MadeConsistent(m).consistent /\ MadeConsistent(m).lost = m.lost
           /\ Unlocked(m) \in Mutexes(Agents) /\ Unlocked(m).owner = Nobody
           /\ Unlocked(m).lost <=> ~m.consistent
           /\ NewMutex \in Mutexes(Agents) /\ NewMutex.owner = Nobody
           /\ m.owner \in Agents \cup {Nobody} /\ m.lost \in BOOLEAN /\ m.consistent \in BOOLEAN
BY DEF Mutexes, Taken, MadeConsistent, Unlocked, NewMutex

(* Only the control of p changes, ...                                      *)
LEMMA ToIs ==
    ASSUME ag \in [Agents -> AgentRecord], NEW p \in Agents, NEW l \in Labels, To(p, l)
    PROVE  /\ ag' \in [Agents -> AgentRecord] /\ \A q \in Agents : q # p => ag'[q] = ag[q]
           /\ ag'[p].pc = l /\ ag'[p].code = ag[p].code /\ ag'[p].flavor = ag[p].flavor
           /\ ag'[p].id = ag[p].id /\ ag'[p].pos = ag[p].pos
           /\ ag'[p].rcved = ag[p].rcved /\ ag'[p].todo = ag[p].todo
BY DEF AgentRecord, To

(* ... and its code, when it ends.                                         *)
LEMMA ExitsIs ==
    ASSUME ag \in [Agents -> AgentRecord], NEW p \in Agents,
           NEW code \in {EC_SUCCESS, EC_READER_EXPIRED, Abort, Killed}, Exits(p, code)
    PROVE  /\ ag' \in [Agents -> AgentRecord] /\ \A q \in Agents : q # p => ag'[q] = ag[q]
           /\ ag'[p].pc = "exited" /\ ag'[p].code = code /\ ag'[p].flavor = ag[p].flavor
           /\ ag'[p].id = ag[p].id /\ ag'[p].pos = ag[p].pos
           /\ ag'[p].rcved = ag[p].rcved /\ ag'[p].todo = ag[p].todo
<1>1. code \in {EC_SUCCESS, EC_READER_EXPIRED, Abort, Killed} /\ ag[p] \in AgentRecord
      /\ "exited" \in Labels
  BY DEF Labels
<1>2. ag' = [ag EXCEPT ![p] = [@ EXCEPT !.pc = "exited", !.code = code]]
  BY DEF Exits
<1>3. [ag[p] EXCEPT !.pc = "exited", !.code = code] \in AgentRecord
  BY <1>1 DEF AgentRecord
<1> QED
  BY <1>1, <1>2, <1>3 DEF AgentRecord

(* Agents take steps one at a time, and stay what they are.                *)
LEMMA StepsAre ==
    ASSUME ag \in [Agents -> AgentRecord], end \in Nat, test \in Tests, NEW p \in Agents, AgentInv,
           AgentStep(p) \/ Die(p)
    PROVE  ag' \in [Agents -> AgentRecord] /\ Steps(p)
<1>1. /\ ag[p] \in AgentRecord
      /\ At(p, "write") => ag[p].todo > 0
      /\ \A s \in Slots : s < test.slots => s + 1 \in Slots
      /\ recovered \subseteq recovered' <=> \A x \in recovered : x \in recovered'
  BY AgentsAre, TestIs DEF AgentInv, Control, At, Slots, ReaderLabels, Early
<1>2. CASE OpenSocket(p)
  BY <1>1, <1>2, ToIs, ExitsIs
     DEF OpenSocket, Steps, Alive, Gone, At, Labels, scriptVars, shmVars, EC_SUCCESS,
         EC_READER_EXPIRED, Abort, Killed
<1>3. CASE Alloc(p)
  BY <1>1, <1>3, ToIs, ExitsIs
     DEF Alloc, AfterLock, LockCode, Steps, Alive, Gone, At, Labels, scriptVars, shmVars,
         EC_SUCCESS, EC_READER_EXPIRED, Abort, Killed, AgentRecord
<1>4. CASE MakeConsistent(p)
  BY <1>1, <1>4, ToIs DEF MakeConsistent, Steps, Alive, Gone, At, Labels, scriptVars, shmVars
<1>5. CASE LoadFreePos(p)
  BY <1>1, <1>5
     DEF LoadFreePos, Steps, Alive, Gone, At, Labels, scriptVars, shmVars, AgentRecord
<1>6. CASE Activate(p)
  BY <1>1, <1>6, ToIs DEF Activate, Steps, Alive, Gone, At, Labels, scriptVars, shmVars
<1>7. CASE CountReady(p)
  BY <1>1, <1>7, ToIs DEF CountReady, Steps, Alive, Gone, At, Labels, scriptVars, shmVars
<1>8. CASE ReadMore(p)
  BY <1>1, <1>8, ToIs, ExitsIs
     DEF ReadMore, Steps, Alive, Gone, At, Labels, scriptVars, shmVars, EC_SUCCESS,
         EC_READER_EXPIRED, Abort, Killed
<1>9. CASE WaitNotification(p)
  BY <1>1, <1>9, ToIs DEF WaitNotification, Steps, Alive, Gone, At, Labels, scriptVars, shmVars
<1>10. CASE RunEnds(p)
  BY <1>1, <1>10, ToIs DEF RunEnds, Steps, Alive, Gone, At, Labels, scriptVars, shmVars
<1>11. CASE Expire(p)
  BY <1>1, <1>11, ExitsIs
     DEF Expire, Steps, Alive, Gone, At, Labels, scriptVars, shmVars, EC_SUCCESS,
         EC_READER_EXPIRED, Abort, Killed
<1>12. CASE ReadMessage(p)
  BY <1>1, <1>12, ToIs
     DEF ReadMessage, Steps, Alive, Gone, At, Labels, scriptVars, shmVars, AgentRecord
<1>13. CASE Free(p)
  BY <1>1, <1>13, ToIs DEF Free, Steps, Alive, Gone, At, Labels, scriptVars, shmVars
<1>14. CASE Lock(p)
  BY <1>1, <1>14, ToIs
     DEF Lock, AfterLock, LockCode, Steps, Alive, Gone, At, Labels, scriptVars, shmVars
<1>15. CASE Scan(p)
  BY <1>1, <1>15, ToIs DEF Scan, Steps, Alive, Gone, At, Labels, scriptVars, shmVars
<1>16. CASE NotifyBackpressure(p)
  BY <1>1, <1>16, ToIs
     DEF NotifyBackpressure, Steps, Alive, Gone, At, Labels, scriptVars, shmVars
<1>17. CASE OnBackpressure(p)
  BY <1>1, <1>17, ToIs, ExitsIs
     DEF OnBackpressure, Steps, Alive, Gone, At, Labels, scriptVars, shmVars, EC_SUCCESS,
         EC_READER_EXPIRED, Abort, Killed
<1>18. CASE Write(p)
  BY <1>1, <1>18 DEF Write, Steps, Alive, Gone, At, Labels, scriptVars, shmVars, AgentRecord
<1>19. CASE Unlock(p)
  BY <1>1, <1>19, ToIs DEF Unlock, Steps, Alive, Gone, At, Labels, scriptVars, shmVars
<1>20. CASE NotifyAtEnd(p)
  BY <1>1, <1>20, ToIs DEF NotifyAtEnd, Steps, Alive, Gone, At, Labels, scriptVars, shmVars
<1>21. CASE Main(p)
  BY <1>1, <1>21, ExitsIs
     DEF Main, Steps, Alive, Gone, At, Labels, scriptVars, shmVars, EC_SUCCESS,
         EC_READER_EXPIRED, Abort, Killed
<1>22. CASE Die(p)
  BY <1>1, <1>22, ExitsIs
     DEF Die, Steps, Alive, Gone, At, Labels, scriptVars, shmVars, EC_SUCCESS,
         EC_READER_EXPIRED, Abort, Killed
<1> QED
  BY AgentCases, <1>2, <1>3, <1>4, <1>5, <1>6, <1>7, <1>8, <1>9, <1>10, <1>11, <1>12, <1>13,
     <1>14, <1>15, <1>16, <1>17, <1>18, <1>19, <1>20, <1>21, <1>22

(* Agents keep the types.                                                  *)
LEMMA StepTypes ==
    ASSUME AgentTypes, test \in Tests, NEW p \in Agents, AgentInv, AgentStep(p) \/ Die(p)
    PROVE  AgentTypes'
<1>1. ag' \in [Agents -> AgentRecord] /\ Steps(p)
  BY StepsAre DEF AgentTypes
<1>2. test' = test /\ AgentRecord' = AgentRecord
  BY <1>1 DEF AgentRecord, Slots, Steps, scriptVars
<1>3. ag[p] \in AgentRecord /\ Slots \subseteq 1 .. MaxSlots
  BY TestIs DEF AgentTypes, Slots
<1>4. /\ ag[p].id \in 1 .. MaxSlots /\ ag[p].pos \in Nat /\ ag[p].rcved \in Nat
  BY <1>3 DEF AgentRecord
<1>5. /\ end \in Nat /\ info \in [1 .. MaxSlots -> SlotRecord]
      /\ info[ag[p].id].lock \in Mutexes(Agents) /\ writerMtx \in Mutexes(Agents)
  BY <1>4 DEF AgentTypes, SlotRecord
<1>6. /\ ag' \in [Agents -> AgentRecord'] /\ ag[p].id \in 1 .. MaxSlots
      /\ end \in Nat /\ ag[p].pos \in Nat /\ ag[p].rcved \in Nat
  BY <1>1, <1>2, <1>4, <1>5
<1>7. CASE OpenSocket(p)
  BY <1>6, <1>5, MutexesAre, <1>7 DEF OpenSocket, AgentTypes, SlotRecord, StatsRecord, shmVars
<1>8. CASE Alloc(p)
  <2> DEFINE code == LockCode(info[ag[p].id].lock, Dead)
             m == Taken(info[ag[p].id].lock, p, code)
  <2>1. m \in Mutexes(Agents)
    BY <1>5, MutexesAre
  <2>2. info' = info \/ info' = [info EXCEPT ![ag[p].id].lock = m]
    BY <1>8 DEF Alloc
  <2> HIDE DEF m, code
  <2>3. info' \in [1 .. MaxSlots -> SlotRecord]
    BY <1>6, <1>5, <2>1, <2>2 DEF SlotRecord
  <2>4. recovered' \subseteq {"writerMtx", "info"}
    BY <1>8 DEF Alloc, AgentTypes
  <2> QED
    BY <1>6, <1>8, <2>3, <2>4 DEF Alloc, AgentTypes
<1>9. CASE MakeConsistent(p)
  <2> DEFINE m == MadeConsistent(info[ag[p].id].lock)
  <2>1. m \in Mutexes(Agents) /\ MadeConsistent(writerMtx) \in Mutexes(Agents)
    BY <1>5, MutexesAre
  <2>2. /\ info' = info \/ info' = [info EXCEPT ![ag[p].id].lock = m]
        /\ writerMtx' = writerMtx \/ writerMtx' = MadeConsistent(writerMtx)
    BY <1>9 DEF MakeConsistent
  <2> HIDE DEF m
  <2>3. info' \in [1 .. MaxSlots -> SlotRecord]
    BY <1>6, <1>5, <2>1, <2>2 DEF SlotRecord
  <2> QED
    BY <1>6, <1>5, <1>9, <2>1, <2>2, <2>3 DEF MakeConsistent, AgentTypes
<1>10. CASE LoadFreePos(p)
  BY <1>6, <1>5, MutexesAre, <1>10 DEF LoadFreePos, AgentTypes, SlotRecord, StatsRecord, shmVars
<1>11. CASE Activate(p)
  BY <1>6, <1>5, MutexesAre, <1>11 DEF Activate, AgentTypes, SlotRecord, StatsRecord, shmVars
<1>12. CASE CountReady(p)
  BY <1>6, <1>5, MutexesAre, <1>12 DEF CountReady, AgentTypes, SlotRecord, StatsRecord, shmVars
<1>13. CASE ReadMore(p)
  BY <1>6, <1>5, MutexesAre, <1>13 DEF ReadMore, AgentTypes, SlotRecord, StatsRecord, shmVars
<1>14. CASE WaitNotification(p)
  BY <1>6, <1>5, MutexesAre, <1>14
     DEF WaitNotification, AgentTypes, SlotRecord, StatsRecord, shmVars
<1>15. CASE RunEnds(p)
  BY <1>6, <1>5, MutexesAre, <1>15 DEF RunEnds, AgentTypes, SlotRecord, StatsRecord, shmVars
<1>16. CASE Expire(p)
  BY <1>6, <1>5, MutexesAre, <1>16 DEF Expire, AgentTypes, SlotRecord, StatsRecord, shmVars
<1>17. CASE ReadMessage(p)
  <2>1. Counted(p, ag[p].rcved + 1) \in Nat
    BY <1>6 DEF Counted
  <2>2. stats' \in StatsRecord
    BY <1>17, <2>1 DEF ReadMessage, AgentTypes, StatsRecord
  <2>3. info[ag[p].id].position \in Nat
    BY <1>6, <1>5 DEF SlotRecord
  <2>4. info' \in [1 .. MaxSlots -> SlotRecord]
    <3>1. CASE ag[p].flavor = "ROBUST_WRITER"
      BY <1>5, <1>17, <3>1 DEF ReadMessage
    <3>2. CASE ag[p].flavor # "ROBUST_WRITER"
      <4> DEFINE n == Published(ag[p].pos + 1, info[ag[p].id].position)
      <4>1. n \in Nat
        BY <1>6, <2>3 DEF Published
      <4>2. info' = [info EXCEPT ![ag[p].id].position = n]
        BY <1>17, <3>2 DEF ReadMessage
      <4> HIDE DEF n
      <4> QED
        BY <1>6, <1>5, <4>1, <4>2 DEF SlotRecord
    <3> QED
      BY <3>1, <3>2
  <2> QED
    BY <1>6, <1>17, <2>2, <2>4 DEF ReadMessage, AgentTypes
<1>18. CASE Free(p)
  <2> DEFINE m == Unlocked(info[ag[p].id].lock)
  <2>1. m \in Mutexes(Agents)
    BY <1>5, MutexesAre
  <2>2. info' = [info EXCEPT ![ag[p].id].isActive = FALSE, ![ag[p].id].lock = m]
    BY <1>18 DEF Free
  <2> HIDE DEF m
  <2>3. info' \in [1 .. MaxSlots -> SlotRecord]
    BY <1>6, <1>5, <2>1, <2>2 DEF SlotRecord
  <2> QED
    BY <1>6, <1>18, <2>3 DEF Free, AgentTypes
<1>19. CASE Lock(p)
  BY <1>6, <1>5, MutexesAre, <1>19 DEF Lock, AgentTypes, SlotRecord, StatsRecord, shmVars
<1>20. CASE Scan(p)
  BY <1>6, <1>5, MutexesAre, <1>20 DEF Scan, AgentTypes, SlotRecord, StatsRecord, shmVars
<1>21. CASE NotifyBackpressure(p)
  BY <1>6, <1>5, MutexesAre, <1>21
     DEF NotifyBackpressure, AgentTypes, SlotRecord, StatsRecord, shmVars
<1>22. CASE OnBackpressure(p)
  BY <1>6, <1>5, MutexesAre, <1>22
     DEF OnBackpressure, AgentTypes, SlotRecord, StatsRecord, shmVars
<1>23. CASE Write(p)
  BY <1>6, <1>5, MutexesAre, <1>23 DEF Write, AgentTypes, SlotRecord, StatsRecord, shmVars
<1>24. CASE Unlock(p)
  BY <1>6, <1>5, MutexesAre, <1>24 DEF Unlock, AgentTypes, SlotRecord, StatsRecord, shmVars
<1>25. CASE NotifyAtEnd(p)
  BY <1>6, <1>5, MutexesAre, <1>25 DEF NotifyAtEnd, AgentTypes, SlotRecord, StatsRecord, shmVars
<1>26. CASE Main(p)
  BY <1>6, <1>5, MutexesAre, <1>26 DEF Main, AgentTypes, SlotRecord, StatsRecord, shmVars
<1>27. CASE Die(p)
  BY <1>6, <1>5, MutexesAre, <1>27 DEF Die, AgentTypes, SlotRecord, StatsRecord, shmVars
<1> QED
  BY AgentCases, <1>7, <1>8, <1>9, <1>10, <1>11, <1>12, <1>13, <1>14, <1>15, <1>16, <1>17,
     <1>18, <1>19, <1>20, <1>21, <1>22, <1>23, <1>24, <1>25, <1>26, <1>27

(* A step of an agent keeps what its control says.                         *)
LEMMA ControlStep ==
    ASSUME AgentTypes, test \in Tests, AgentInv, LockInv, NEW p \in Agents, AgentStep(p) \/ Die(p)
    PROVE  AgentInv'
<1>1. /\ ag' \in [Agents -> AgentRecord] /\ Steps(p) /\ AgentTypes'
  BY StepsAre, StepTypes DEF AgentTypes
<1>2. test' = test /\ All' = All /\ All \in Nat /\ test.messages \in Nat \ {0}
  BY <1>1, TestIs DEF All, Steps, scriptVars
<1>3. /\ ag[p].pos \in Nat /\ ag[p].rcved \in Nat /\ ag[p].todo \in Nat
      /\ ag'[p].pos \in Nat /\ ag'[p].rcved \in Nat /\ ag'[p].todo \in Nat
      /\ end \in Nat /\ end' \in Nat /\ ag[p].id \in 1 .. MaxSlots
  <2>1. ag[p] \in AgentRecord /\ ag'[p] \in AgentRecord /\ Slots \subseteq 1 .. MaxSlots
    BY <1>1, TestIs DEF AgentTypes, Slots
  <2> QED
    BY <1>1, <2>1 DEF AgentTypes, AgentRecord
<1>4. end' >= end
  <2>1. end' = end \/ end' = end + 1
    BY AgentCases DEF Write, shmVars, OpenSocket, Alloc, MakeConsistent, LoadFreePos, Activate,
       CountReady, ReadMore, WaitNotification, RunEnds, Expire, ReadMessage, Free, Lock, Scan,
       NotifyBackpressure, OnBackpressure, Unlock, NotifyAtEnd, Main, Die
  <2> QED
    BY <1>3, <2>1
<1>5. SUFFICES Control(p)'
  <2>1. ASSUME NEW q \in Agents, q # p
        PROVE  Control(q)'
    <3>1. ag'[q] = ag[q] /\ ag[q].pos \in Nat
      BY <1>1, <2>1 DEF Steps, AgentTypes, AgentRecord
    <3> QED
      BY <1>2, <1>3, <1>4, <2>1, <3>1 DEF AgentInv, Control, Passed, Gone, At
  <2> QED
    BY <2>1 DEF AgentInv
<1>6. /\ ag \in [Agents -> AgentRecord] /\ ~writerMtx.lost /\ ~info[ag[p].id].lock.lost
      /\ p[1] \in {"reader", "writer"} /\ Control(p)
  BY <1>3, AgentsAre DEF AgentTypes, LockInv, AgentInv
<1>7. CASE OpenSocket(p)
  <2>1. /\ At(p, "open") /\ end' = end
        /\ Exits(p, Abort) \/ To(p, IF p[1] = "reader" THEN "alloc" ELSE "lock")
    BY <1>7 DEF OpenSocket, shmVars
  <2>2. CASE Exits(p, Abort)
    BY <1>1, <1>2, <1>3, <1>6, <2>1, <2>2, ExitsIs
       DEF Control, Passed, Gone, At, ReaderLabels, WriterLabels, EC_SUCCESS, Early, Abort
  <2>3. CASE To(p, IF p[1] = "reader" THEN "alloc" ELSE "lock")
    <3>1. CASE p[1] = "reader"
      <4>1. To(p, "alloc") /\ "alloc" \in Labels
        BY <2>3, <3>1 DEF Labels
      <4> QED
        BY <1>1, <1>2, <1>3, <1>6, <2>1, <3>1, <4>1, ToIs
           DEF Control, Passed, Gone, At, ReaderLabels, Early
    <3>2. CASE p[1] = "writer"
      <4>1. To(p, "lock") /\ "lock" \in Labels
        BY <2>3, <3>2 DEF Labels
      <4> QED
        BY <1>1, <1>2, <1>3, <1>6, <2>1, <3>2, <4>1, ToIs
           DEF Control, Passed, Gone, At, WriterLabels
    <3> QED
      BY <1>6, <3>1, <3>2
  <2> QED
    BY <2>1, <2>2, <2>3
<1>8. CASE Alloc(p)
  BY <1>1, <1>2, <1>3, <1>4, <1>6, <1>8, ToIs, ExitsIs
     DEF Alloc, AfterLock, LockCode, Control, Passed, Gone, At, ReaderLabels, WriterLabels,
         Early, Labels, EC_SUCCESS, EC_READER_EXPIRED, Abort, Killed, AgentRecord, shmVars
<1>9. CASE MakeConsistent(p)
  BY <1>1, <1>2, <1>3, <1>4, <1>6, <1>9, ToIs
     DEF MakeConsistent, Control, Passed, Gone, At, ReaderLabels, WriterLabels, Early, Labels,
         EC_SUCCESS, EC_READER_EXPIRED, Abort, Killed, shmVars
<1>10. CASE LoadFreePos(p)
  BY <1>1, <1>2, <1>3, <1>4, <1>6, <1>10
     DEF LoadFreePos, Control, Passed, Gone, At, ReaderLabels, WriterLabels, Early, Labels,
         EC_SUCCESS, EC_READER_EXPIRED, Abort, Killed, AgentRecord, shmVars
<1>11. CASE Activate(p)
  BY <1>1, <1>2, <1>3, <1>4, <1>6, <1>11, ToIs
     DEF Activate, Control, Passed, Gone, At, ReaderLabels, WriterLabels, Early, Labels,
         EC_SUCCESS, EC_READER_EXPIRED, Abort, Killed, shmVars
<1>12. CASE CountReady(p)
  BY <1>1, <1>2, <1>3, <1>4, <1>6, <1>12, ToIs
     DEF CountReady, Control, Passed, Gone, At, ReaderLabels, WriterLabels, Early, Labels,
         EC_SUCCESS, EC_READER_EXPIRED, Abort, Killed, shmVars
<1>13. CASE ReadMore(p)
  BY <1>1, <1>2, <1>3, <1>4, <1>6, <1>13, ToIs, ExitsIs
     DEF ReadMore, Control, Passed, Gone, At, ReaderLabels, WriterLabels, Early, Labels,
         EC_SUCCESS, EC_READER_EXPIRED, Abort, Killed, shmVars
<1>14. CASE WaitNotification(p)
  BY <1>1, <1>2, <1>3, <1>4, <1>6, <1>14, ToIs
     DEF WaitNotification, Control, Passed, Gone, At, ReaderLabels, WriterLabels, Early,
         Labels, EC_SUCCESS, EC_READER_EXPIRED, Abort, Killed, shmVars
<1>15. CASE RunEnds(p)
  BY <1>1, <1>2, <1>3, <1>4, <1>6, <1>15, ToIs
     DEF RunEnds, Control, Passed, Gone, At, ReaderLabels, WriterLabels, Early, Labels,
         EC_SUCCESS, EC_READER_EXPIRED, Abort, Killed, shmVars
<1>16. CASE Expire(p)
  BY <1>1, <1>2, <1>3, <1>4, <1>6, <1>16, ExitsIs
     DEF Expire, Control, Passed, Gone, At, ReaderLabels, WriterLabels, Early, Labels,
         EC_SUCCESS, EC_READER_EXPIRED, Abort, Killed, shmVars
<1>17. CASE ReadMessage(p)
  BY <1>1, <1>2, <1>3, <1>4, <1>6, <1>17, ToIs
     DEF ReadMessage, Control, Passed, Gone, At, ReaderLabels, WriterLabels, Early, Labels,
         EC_SUCCESS, EC_READER_EXPIRED, Abort, Killed, AgentRecord, shmVars
<1>18. CASE Free(p)
  BY <1>1, <1>2, <1>3, <1>4, <1>6, <1>18, ToIs
     DEF Free, Control, Passed, Gone, At, ReaderLabels, WriterLabels, Early, Labels,
         EC_SUCCESS, EC_READER_EXPIRED, Abort, Killed, shmVars
<1>19. CASE Lock(p)
  BY <1>1, <1>2, <1>3, <1>4, <1>6, <1>19, ToIs
     DEF Lock, AfterLock, LockCode, Control, Passed, Gone, At, ReaderLabels, WriterLabels,
         Early, Labels, EC_SUCCESS, EC_READER_EXPIRED, Abort, Killed, shmVars
<1>20. CASE Scan(p)
  BY <1>1, <1>2, <1>3, <1>4, <1>6, <1>20, ToIs
     DEF Scan, Control, Passed, Gone, At, ReaderLabels, WriterLabels, Early, Labels,
         EC_SUCCESS, EC_READER_EXPIRED, Abort, Killed, shmVars
<1>21. CASE NotifyBackpressure(p)
  BY <1>1, <1>2, <1>3, <1>4, <1>6, <1>21, ToIs
     DEF NotifyBackpressure, Control, Passed, Gone, At, ReaderLabels, WriterLabels, Early,
         Labels, EC_SUCCESS, EC_READER_EXPIRED, Abort, Killed, shmVars
<1>22. CASE OnBackpressure(p)
  BY <1>1, <1>2, <1>3, <1>4, <1>6, <1>22, ToIs, ExitsIs
     DEF OnBackpressure, Control, Passed, Gone, At, ReaderLabels, WriterLabels, Early, Labels,
         EC_SUCCESS, EC_READER_EXPIRED, Abort, Killed, shmVars
<1>23. CASE Write(p)
  BY <1>1, <1>2, <1>3, <1>4, <1>6, <1>23
     DEF Write, Control, Passed, Gone, At, ReaderLabels, WriterLabels, Early, Labels,
         EC_SUCCESS, EC_READER_EXPIRED, Abort, Killed, AgentRecord, shmVars
<1>24. CASE Unlock(p)
  BY <1>1, <1>2, <1>3, <1>4, <1>6, <1>24, ToIs
     DEF Unlock, Control, Passed, Gone, At, ReaderLabels, WriterLabels, Early, Labels,
         EC_SUCCESS, EC_READER_EXPIRED, Abort, Killed, shmVars
<1>25. CASE NotifyAtEnd(p)
  BY <1>1, <1>2, <1>3, <1>4, <1>6, <1>25, ToIs
     DEF NotifyAtEnd, Control, Passed, Gone, At, ReaderLabels, WriterLabels, Early, Labels,
         EC_SUCCESS, EC_READER_EXPIRED, Abort, Killed, shmVars
<1>26. CASE Main(p)
  BY <1>1, <1>2, <1>3, <1>4, <1>6, <1>26, ExitsIs
     DEF Main, Control, Passed, Gone, At, ReaderLabels, WriterLabels, Early, Labels,
         EC_SUCCESS, EC_READER_EXPIRED, Abort, Killed, shmVars
<1>27. CASE Die(p)
  BY <1>1, <1>2, <1>3, <1>4, <1>6, <1>27, ExitsIs
     DEF Die, Control, Passed, Gone, At, ReaderLabels, WriterLabels, Early, Labels, EC_SUCCESS,
         EC_READER_EXPIRED, Abort, Killed, shmVars
<1> QED
  BY AgentCases, <1>7, <1>8, <1>9, <1>10, <1>11, <1>12, <1>13, <1>14, <1>15, <1>16, <1>17,
     <1>18, <1>19, <1>20, <1>21, <1>22, <1>23, <1>24, <1>25, <1>26, <1>27

(* While no lock changes and nobody gets inside, the locks are owned.      *)
LEMMA LocksKept ==
    ASSUME LockInv, writerMtx' = writerMtx,
           \A s \in 1 .. MaxSlots : info'[s].lock = info[s].lock,
           \A q \in Agents : ag[q].id \in 1 .. MaxSlots,
           \A q \in Agents : Inside(q)' =>
                /\ Inside(q) /\ ag'[q].id = ag[q].id
                /\ (At(q, "consist") => At(q, "consist")')
    PROVE  LockInv'
<1>1. ASSUME NEW q \in Agents, Inside(q)'
      PROVE  Mutex(q)'.owner = q /\ (~At(q, "consist")' => Mutex(q)'.consistent)
  <2>1. Inside(q) /\ ag'[q].id = ag[q].id /\ (At(q, "consist") => At(q, "consist")')
    BY <1>1, Zenon
  <2>2. Mutex(q)' = Mutex(q)
    BY <2>1 DEF Mutex
  <2>3. Mutex(q).owner = q /\ (~At(q, "consist") => Mutex(q).consistent)
    BY <2>1 DEF LockInv
  <2> QED
    BY <2>1, <2>2, <2>3 DEF Mutex, At
<1>2. ~writerMtx'.lost /\ \A s \in 1 .. MaxSlots : ~info'[s].lock.lost
  BY DEF LockInv
<1> QED
  BY <1>1, <1>2 DEF LockInv

(* Whom a lock is given by, if not by nobody: one who died.                *)
LEMMA Given ==
    ASSUME NEW m \in Mutexes(Agents), ~m.lost, NEW code, code = LockCode(m, Dead), code # "EBUSY"
    PROVE  /\ code \in {"0", "EOWNERDEAD"}
           /\ code = "0" => m.owner = Nobody
           /\ code = "EOWNERDEAD" => m.owner \in Agents /\ Gone(m.owner)
           /\ \A q \in Agents : Inside(q) => m.owner # q
BY AgentsAre DEF Mutexes, LockCode, Dead, Inside, Gone, At

(* Locking, dying and recovering keeps the locks owned.                    *)
LEMMA LockStep ==
    ASSUME AgentTypes, test \in Tests, AgentInv, LockInv, NEW p \in Agents, AgentStep(p) \/ Die(p)
    PROVE  LockInv'
<1>1. /\ ag' \in [Agents -> AgentRecord] /\ Steps(p) /\ AgentTypes' /\ AgentInv'
  BY StepsAre, StepTypes, ControlStep DEF AgentTypes
<1>2. \A q \in Agents : ag[q].id \in 1 .. MaxSlots
  <2>1. \A q \in Agents : ag[q] \in AgentRecord
    BY DEF AgentTypes
  <2>2. Slots \subseteq 1 .. MaxSlots
    BY TestIs DEF Slots
  <2> QED
    BY <2>1, <2>2 DEF AgentRecord
<1>3. /\ ag \in [Agents -> AgentRecord] /\ info \in [1 .. MaxSlots -> SlotRecord]
      /\ Control(p) /\ p[1] \in {"reader", "writer"} /\ ag[p].id \in 1 .. MaxSlots
  BY <1>2, AgentsAre DEF AgentTypes, AgentInv
<1>4. \A q \in Agents : q # p => ag'[q] = ag[q]
  BY <1>1 DEF Steps
<1>5. CASE OpenSocket(p)
  <2>1. /\ ag'[p].id = ag[p].id
        /\ Inside(p)' => Inside(p) /\ ~At(p, "consist")
        /\ \A s \in 1 .. MaxSlots : info'[s].lock = info[s].lock
        /\ writerMtx' = writerMtx
    BY <1>3, <1>5, ToIs, ExitsIs
       DEF OpenSocket, Inside, At, Labels, shmVars, EC_SUCCESS, EC_READER_EXPIRED, Abort,
           Killed, Control, WriterLabels, ReaderLabels, Early
  <2> QED
    BY <1>2, <1>4, <2>1, LocksKept DEF Inside, At
<1>6. CASE Alloc(p)
  <2> DEFINE s == ag[p].id
             code == LockCode(info[s].lock, Dead)
  <2>1. /\ At(p, "alloc") /\ p[1] = "reader" /\ writerMtx' = writerMtx
    BY <1>3, <1>6 DEF Alloc, Control, At, WriterLabels
  <2>2. CASE code = "EBUSY"
    <3>1. info' = info /\ ~Inside(p)'
      BY <1>1, <1>3, <1>6, <2>1, <2>2, ExitsIs
         DEF Alloc, Inside, At, AgentRecord, EC_SUCCESS, EC_READER_EXPIRED, Abort, Killed
    <3> QED
      BY <1>2, <1>4, <2>1, <3>1, LocksKept DEF Inside, At
  <2>3. CASE code # "EBUSY"
    <3> DEFINE m == Taken(info[s].lock, p, code)
    <3>1. /\ info' = [info EXCEPT ![s].lock = m]
          /\ To(p, AfterLock(code, "load"))
      BY <1>6, <2>3 DEF Alloc
    <3>2. /\ info[s].lock \in Mutexes(Agents) /\ ~info[s].lock.lost
      BY <1>3 DEF SlotRecord, LockInv
    <3>3. /\ code \in {"0", "EOWNERDEAD"}
          /\ \A q \in Agents : Inside(q) => info[s].lock.owner # q
      BY <2>3, <3>2, Given
    <3>4. m.owner = p /\ ~m.lost /\ (m.consistent <=> code = "0")
      BY <3>2, MutexesAre
    <3>5. ag'[p].pc = (IF code = "0" THEN "load" ELSE "consist") /\ ag'[p].id = s
      <4>1. AfterLock(code, "load") = IF code = "0" THEN "load" ELSE "consist"
        BY <3>3 DEF AfterLock
      <4> QED
        BY <1>3, <3>1, <3>3, <4>1, ToIs DEF Labels
    <3> HIDE DEF m, code
    <3>6. /\ info'[s].lock = m
          /\ \A t \in 1 .. MaxSlots : t # s => info'[t].lock = info[t].lock
      BY <1>3, <3>1 DEF SlotRecord
    <3>7. ASSUME NEW q \in Agents, Inside(q)'
          PROVE  Mutex(q)'.owner = q /\ (~At(q, "consist")' => Mutex(q)'.consistent)
      <4>1. CASE q = p
        BY <2>1, <3>4, <3>5, <3>6, <4>1 DEF Mutex, At
      <4>2. CASE q # p
        <5>1. ag'[q] = ag[q] /\ Inside(q)
          BY <1>4, <3>7, <4>2 DEF Inside
        <5>2. Mutex(q).owner = q /\ (~At(q, "consist") => Mutex(q).consistent)
          BY <5>1 DEF LockInv
        <5>3. q[1] = "writer" \/ ag[q].id # s
          BY <3>3, <5>1, <5>2 DEF Mutex
        <5> QED
          BY <1>2, <2>1, <3>6, <5>1, <5>2, <5>3 DEF Mutex, At
      <4> QED
        BY <4>1, <4>2
    <3> QED
      BY <2>1, <3>4, <3>6, <3>7 DEF LockInv
  <2> QED
    BY <2>2, <2>3
<1>7. CASE MakeConsistent(p)
  <2>1. CASE p[1] = "reader"
    <3> DEFINE s == ag[p].id
               m == MadeConsistent(info[s].lock)
    <3>1. info' = [info EXCEPT ![s].lock = m] /\ writerMtx' = writerMtx /\ At(p, "consist")
      BY <1>7, <2>1 DEF MakeConsistent
    <3>2. info[s].lock \in Mutexes(Agents) /\ ~info[s].lock.lost
      BY <1>3 DEF SlotRecord, LockInv
    <3>3. m.owner = info[s].lock.owner /\ m.consistent /\ ~m.lost
      BY <3>2, MutexesAre
    <3> HIDE DEF m
    <3>4. /\ info'[s].lock = m
          /\ \A t \in 1 .. MaxSlots : t # s => info'[t].lock = info[t].lock
      BY <1>3, <3>1 DEF SlotRecord
    <3>5. ag'[p].id = s
      BY <1>3, <1>7, <2>1, ToIs DEF MakeConsistent, Labels
    <3>6. ASSUME NEW q \in Agents, Inside(q)'
          PROVE  Mutex(q)'.owner = q /\ (~At(q, "consist")' => Mutex(q)'.consistent)
      <4>1. Inside(q) /\ ag'[q].id = ag[q].id /\ (q # p => ag'[q] = ag[q])
        BY <1>4, <2>1, <3>1, <3>5, <3>6 DEF Inside, At
      <4>2. Mutex(q).owner = q /\ (~At(q, "consist") => Mutex(q).consistent)
        BY <4>1 DEF LockInv
      <4> QED
        BY <1>2, <2>1, <3>1, <3>3, <3>4, <4>1, <4>2 DEF Mutex, At
    <3> QED
      BY <3>1, <3>3, <3>4, <3>6 DEF LockInv
  <2>2. CASE p[1] = "writer"
    <3> DEFINE m == MadeConsistent(writerMtx)
    <3>1. info' = info /\ writerMtx' = m /\ At(p, "consist")
      BY <1>7, <2>2 DEF MakeConsistent
    <3>2. writerMtx \in Mutexes(Agents) /\ ~writerMtx.lost
      BY DEF AgentTypes, LockInv
    <3>3. m.owner = writerMtx.owner /\ m.consistent /\ ~m.lost
      BY <3>2, MutexesAre
    <3> HIDE DEF m
    <3>4. ASSUME NEW q \in Agents, Inside(q)'
          PROVE  Mutex(q)'.owner = q /\ (~At(q, "consist")' => Mutex(q)'.consistent)
      <4>1. Inside(q) /\ (q # p => ag'[q] = ag[q])
        BY <1>4, <2>2, <3>1, <3>4 DEF Inside, At
      <4>2. Mutex(q).owner = q /\ (~At(q, "consist") => Mutex(q).consistent)
        BY <4>1 DEF LockInv
      <4> QED
        BY <1>2, <2>2, <3>1, <3>3, <4>1, <4>2 DEF Mutex, At
    <3> QED
      BY <3>1, <3>3, <3>4 DEF LockInv
  <2> QED
    BY <1>3, <2>1, <2>2
<1>8. CASE LoadFreePos(p)
  <2>1. /\ ag'[p].id = ag[p].id
        /\ Inside(p)' => Inside(p) /\ ~At(p, "consist")
        /\ \A s \in 1 .. MaxSlots : info'[s].lock = info[s].lock
        /\ writerMtx' = writerMtx
    BY <1>3, <1>8
       DEF LoadFreePos, Inside, At, Labels, shmVars, AgentRecord, Control, WriterLabels,
           ReaderLabels, Early
  <2> QED
    BY <1>2, <1>4, <2>1, LocksKept DEF Inside, At
<1>9. CASE Activate(p)
  <2>1. /\ ag'[p].id = ag[p].id
        /\ Inside(p)' => Inside(p) /\ ~At(p, "consist")
        /\ \A s \in 1 .. MaxSlots : info'[s].lock = info[s].lock
        /\ writerMtx' = writerMtx
    BY <1>3, <1>9, ToIs
       DEF Activate, Inside, At, Labels, shmVars, SlotRecord, Control, WriterLabels,
           ReaderLabels, Early
  <2> QED
    BY <1>2, <1>4, <2>1, LocksKept DEF Inside, At
<1>10. CASE CountReady(p)
  <2>1. /\ ag'[p].id = ag[p].id
        /\ Inside(p)' => Inside(p) /\ ~At(p, "consist")
        /\ \A s \in 1 .. MaxSlots : info'[s].lock = info[s].lock
        /\ writerMtx' = writerMtx
    BY <1>3, <1>10, ToIs
       DEF CountReady, Inside, At, Labels, shmVars, Control, WriterLabels, ReaderLabels, Early
  <2> QED
    BY <1>2, <1>4, <2>1, LocksKept DEF Inside, At
<1>11. CASE ReadMore(p)
  <2>1. /\ ag'[p].id = ag[p].id
        /\ Inside(p)' => Inside(p) /\ ~At(p, "consist")
        /\ \A s \in 1 .. MaxSlots : info'[s].lock = info[s].lock
        /\ writerMtx' = writerMtx
    BY <1>3, <1>11, ToIs, ExitsIs
       DEF ReadMore, Inside, At, Labels, shmVars, EC_SUCCESS, EC_READER_EXPIRED, Abort, Killed,
           Control, WriterLabels, ReaderLabels, Early
  <2> QED
    BY <1>2, <1>4, <2>1, LocksKept DEF Inside, At
<1>12. CASE WaitNotification(p)
  <2>1. /\ ag'[p].id = ag[p].id
        /\ Inside(p)' => Inside(p) /\ ~At(p, "consist")
        /\ \A s \in 1 .. MaxSlots : info'[s].lock = info[s].lock
        /\ writerMtx' = writerMtx
    BY <1>3, <1>12, ToIs
       DEF WaitNotification, Inside, At, Labels, shmVars, Control, WriterLabels, ReaderLabels,
           Early
  <2> QED
    BY <1>2, <1>4, <2>1, LocksKept DEF Inside, At
<1>13. CASE RunEnds(p)
  <2>1. /\ ag'[p].id = ag[p].id
        /\ Inside(p)' => Inside(p) /\ ~At(p, "consist")
        /\ \A s \in 1 .. MaxSlots : info'[s].lock = info[s].lock
        /\ writerMtx' = writerMtx
    BY <1>3, <1>13, ToIs
       DEF RunEnds, Inside, At, Labels, shmVars, SlotRecord, Control, WriterLabels,
           ReaderLabels, Early
  <2> QED
    BY <1>2, <1>4, <2>1, LocksKept DEF Inside, At
<1>14. CASE Expire(p)
  <2>1. /\ ag'[p].id = ag[p].id
        /\ Inside(p)' => Inside(p) /\ ~At(p, "consist")
        /\ \A s \in 1 .. MaxSlots : info'[s].lock = info[s].lock
        /\ writerMtx' = writerMtx
    BY <1>3, <1>14, ExitsIs
       DEF Expire, Inside, At, Labels, shmVars, EC_SUCCESS, EC_READER_EXPIRED, Abort, Killed,
           Control, WriterLabels, ReaderLabels, Early
  <2> QED
    BY <1>2, <1>4, <2>1, LocksKept DEF Inside, At
<1>15. CASE ReadMessage(p)
  <2>1. ag'[p].id = ag[p].id /\ (Inside(p)' => Inside(p) /\ ~At(p, "consist"))
    BY <1>3, <1>15, ToIs DEF ReadMessage, Inside, At, Labels, AgentRecord, Control, WriterLabels
  <2>2. \A s \in 1 .. MaxSlots : info'[s].lock = info[s].lock
    <3>1. CASE ag[p].flavor = "ROBUST_WRITER"
      BY <1>15, <3>1 DEF ReadMessage
    <3>2. CASE ag[p].flavor # "ROBUST_WRITER"
      <4> DEFINE n == Published(ag[p].pos + 1, info[ag[p].id].position)
      <4>1. info' = [info EXCEPT ![ag[p].id].position = n]
        BY <1>15, <3>2 DEF ReadMessage
      <4> HIDE DEF n
      <4> QED
        BY <1>3, <4>1 DEF SlotRecord
    <3> QED
      BY <3>1, <3>2
  <2>3. writerMtx' = writerMtx
    BY <1>15 DEF ReadMessage
  <2> QED
    BY <1>2, <1>4, <2>1, <2>2, <2>3, LocksKept DEF Inside, At
<1>16. CASE Free(p)
  <2> DEFINE s == ag[p].id
             m == Unlocked(info[s].lock)
  <2>1. /\ info' = [info EXCEPT ![s].isActive = FALSE, ![s].lock = m] /\ writerMtx' = writerMtx
        /\ At(p, "leave") /\ p[1] = "reader" /\ Inside(p)
    BY <1>3, <1>16 DEF Free, Control, At, WriterLabels, Inside
  <2>2. info[s].lock \in Mutexes(Agents) /\ info[s].lock.owner = p /\ info[s].lock.consistent
    BY <1>3, <2>1 DEF SlotRecord, LockInv, Mutex, At
  <2>3. ~m.lost
    BY <2>2, MutexesAre
  <2> HIDE DEF m
  <2>4. info'[s].lock = m /\ \A t \in 1 .. MaxSlots : t # s => info'[t].lock = info[t].lock
    BY <1>3, <2>1 DEF SlotRecord
  <2>5. ~Inside(p)'
    BY <1>3, <1>16, <2>1, ToIs DEF Free, Inside, Labels
  <2>6. ASSUME NEW q \in Agents, Inside(q)'
        PROVE  Mutex(q)'.owner = q /\ (~At(q, "consist")' => Mutex(q)'.consistent)
    <3>1. q # p /\ Inside(q) /\ ag'[q] = ag[q]
      BY <1>4, <2>5, <2>6 DEF Inside
    <3>2. Mutex(q).owner = q /\ (~At(q, "consist") => Mutex(q).consistent)
      BY <3>1 DEF LockInv
    <3>3. q[1] = "writer" \/ ag[q].id # s
      BY <2>2, <3>1, <3>2 DEF Mutex
    <3> QED
      BY <1>2, <2>1, <2>4, <3>1, <3>2, <3>3 DEF Mutex, At
  <2>7. \A t \in 1 .. MaxSlots : ~info'[t].lock.lost
    BY <2>3, <2>4 DEF LockInv
  <2> QED
    BY <2>1, <2>6, <2>7 DEF LockInv
<1>17. CASE Lock(p)
  <2> DEFINE code == LockCode(writerMtx, Dead)
             m == Taken(writerMtx, p, code)
  <2>1. /\ p[1] = "writer" /\ info' = info /\ writerMtx' = m
        /\ To(p, AfterLock(code, "scan")) /\ code # "EBUSY"
    BY <1>3, <1>17 DEF Lock, Control, At, ReaderLabels, Early
  <2>2. writerMtx \in Mutexes(Agents) /\ ~writerMtx.lost
    BY DEF AgentTypes, LockInv
  <2>3. /\ code \in {"0", "EOWNERDEAD"}
        /\ \A q \in Agents : Inside(q) => writerMtx.owner # q
    BY <2>1, <2>2, Given
  <2>4. m.owner = p /\ ~m.lost /\ (m.consistent <=> code = "0")
    BY <2>2, MutexesAre
  <2>5. ag'[p].pc = (IF code = "0" THEN "scan" ELSE "consist")
    <3>1. AfterLock(code, "scan") = IF code = "0" THEN "scan" ELSE "consist"
      BY <2>3 DEF AfterLock
    <3> QED
      BY <1>3, <2>1, <2>3, <3>1, ToIs DEF Labels
  <2> HIDE DEF m, code
  <2>6. ASSUME NEW q \in Agents, Inside(q)'
        PROVE  Mutex(q)'.owner = q /\ (~At(q, "consist")' => Mutex(q)'.consistent)
    <3>1. CASE q = p
      BY <2>1, <2>4, <2>5, <3>1 DEF Mutex, At
    <3>2. CASE q # p
      <4>1. ag'[q] = ag[q] /\ Inside(q)
        BY <1>4, <2>6, <3>2 DEF Inside
      <4>2. Mutex(q).owner = q /\ (~At(q, "consist") => Mutex(q).consistent)
        BY <4>1 DEF LockInv
      <4>3. q[1] # "writer"
        BY <2>3, <4>1, <4>2 DEF Mutex
      <4> QED
        BY <2>1, <4>1, <4>2, <4>3 DEF Mutex, At
    <3> QED
      BY <3>1, <3>2
  <2> QED
    BY <2>1, <2>4, <2>6 DEF LockInv
<1>18. CASE Scan(p)
  <2>1. /\ ag'[p].id = ag[p].id
        /\ Inside(p)' => Inside(p) /\ ~At(p, "consist")
        /\ \A s \in 1 .. MaxSlots : info'[s].lock = info[s].lock
        /\ writerMtx' = writerMtx
    BY <1>3, <1>18, ToIs
       DEF Scan, Inside, At, Labels, shmVars, Control, WriterLabels, ReaderLabels, Early
  <2> QED
    BY <1>2, <1>4, <2>1, LocksKept DEF Inside, At
<1>19. CASE NotifyBackpressure(p)
  <2>1. /\ ag'[p].id = ag[p].id
        /\ Inside(p)' => Inside(p) /\ ~At(p, "consist")
        /\ \A s \in 1 .. MaxSlots : info'[s].lock = info[s].lock
        /\ writerMtx' = writerMtx
    BY <1>3, <1>19, ToIs
       DEF NotifyBackpressure, Inside, At, Labels, shmVars, Control, WriterLabels,
           ReaderLabels, Early
  <2> QED
    BY <1>2, <1>4, <2>1, LocksKept DEF Inside, At
<1>20. CASE OnBackpressure(p)
  <2>1. /\ ag'[p].id = ag[p].id
        /\ Inside(p)' => Inside(p) /\ ~At(p, "consist")
        /\ \A s \in 1 .. MaxSlots : info'[s].lock = info[s].lock
        /\ writerMtx' = writerMtx
    BY <1>3, <1>20, ToIs, ExitsIs
       DEF OnBackpressure, Inside, At, Labels, shmVars, EC_SUCCESS, EC_READER_EXPIRED, Abort,
           Killed, Control, WriterLabels, ReaderLabels, Early
  <2> QED
    BY <1>2, <1>4, <2>1, LocksKept DEF Inside, At
<1>21. CASE Write(p)
  <2>1. /\ ag'[p].id = ag[p].id
        /\ Inside(p)' => Inside(p) /\ ~At(p, "consist")
        /\ \A s \in 1 .. MaxSlots : info'[s].lock = info[s].lock
        /\ writerMtx' = writerMtx
    BY <1>3, <1>21
       DEF Write, Inside, At, Labels, shmVars, AgentRecord, Control, WriterLabels,
           ReaderLabels, Early
  <2> QED
    BY <1>2, <1>4, <2>1, LocksKept DEF Inside, At
<1>22. CASE Unlock(p)
  <2> DEFINE m == Unlocked(writerMtx)
  <2>1. /\ info' = info /\ writerMtx' = m /\ At(p, "unlock") /\ p[1] = "writer" /\ Inside(p)
    BY <1>3, <1>22 DEF Unlock, Control, At, ReaderLabels, Early, Inside
  <2>2. writerMtx \in Mutexes(Agents) /\ writerMtx.owner = p /\ writerMtx.consistent
    BY <2>1 DEF AgentTypes, LockInv, Mutex, At
  <2>3. ~m.lost
    BY <2>2, MutexesAre
  <2> HIDE DEF m
  <2>4. ~Inside(p)'
    BY <1>3, <1>22, <2>1, ToIs DEF Unlock, Inside, Labels
  <2>5. ASSUME NEW q \in Agents, Inside(q)'
        PROVE  Mutex(q)'.owner = q /\ (~At(q, "consist")' => Mutex(q)'.consistent)
    <3>1. q # p /\ Inside(q) /\ ag'[q] = ag[q]
      BY <1>4, <2>4, <2>5 DEF Inside
    <3>2. Mutex(q).owner = q /\ (~At(q, "consist") => Mutex(q).consistent)
      BY <3>1 DEF LockInv
    <3>3. q[1] # "writer"
      BY <2>2, <3>1, <3>2 DEF Mutex
    <3> QED
      BY <2>1, <3>1, <3>2, <3>3 DEF Mutex, At
  <2> QED
    BY <2>1, <2>3, <2>5 DEF LockInv
<1>23. CASE NotifyAtEnd(p)
  <2>1. /\ ag'[p].id = ag[p].id
        /\ Inside(p)' => Inside(p) /\ ~At(p, "consist")
        /\ \A s \in 1 .. MaxSlots : info'[s].lock = info[s].lock
        /\ writerMtx' = writerMtx
    BY <1>3, <1>23, ToIs
       DEF NotifyAtEnd, Inside, At, Labels, shmVars, Control, WriterLabels, ReaderLabels, Early
  <2> QED
    BY <1>2, <1>4, <2>1, LocksKept DEF Inside, At
<1>24. CASE Main(p)
  <2>1. /\ ag'[p].id = ag[p].id
        /\ Inside(p)' => Inside(p) /\ ~At(p, "consist")
        /\ \A s \in 1 .. MaxSlots : info'[s].lock = info[s].lock
        /\ writerMtx' = writerMtx
    BY <1>3, <1>24, ExitsIs
       DEF Main, Inside, At, Labels, shmVars, EC_SUCCESS, EC_READER_EXPIRED, Abort, Killed,
           Control, WriterLabels, ReaderLabels, Early
  <2> QED
    BY <1>2, <1>4, <2>1, LocksKept DEF Inside, At
<1>25. CASE Die(p)
  <2>1. /\ ag'[p].id = ag[p].id
        /\ Inside(p)' => Inside(p) /\ ~At(p, "consist")
        /\ \A s \in 1 .. MaxSlots : info'[s].lock = info[s].lock
        /\ writerMtx' = writerMtx
    BY <1>3, <1>25, ExitsIs
       DEF Die, Inside, At, Labels, shmVars, EC_SUCCESS, EC_READER_EXPIRED, Abort, Killed,
           Control, WriterLabels, ReaderLabels, Early, Alive, Gone
  <2> QED
    BY <1>2, <1>4, <2>1, LocksKept DEF Inside, At
<1> QED
  BY AgentCases, <1>5, <1>6, <1>7, <1>8, <1>9, <1>10, <1>11, <1>12, <1>13, <1>14, <1>15, <1>16,
     <1>17, <1>18, <1>19, <1>20, <1>21, <1>22, <1>23, <1>24, <1>25

(* The step of p changes nothing that is counted.                          *)
Quiet(p) ==
    /\ end' = end /\ stats' = stats
    /\ ag'[p].pos = ag[p].pos /\ ag'[p].rcved = ag[p].rcved /\ ag'[p].todo = ag[p].todo
    /\ p[1] = "reader" /\ ag[p].pc \notin Early => ag'[p].pc \notin Early
    /\ Reading(p)' => Reading(p)
    /\ Passed(p)' => ag[p].flavor \in {"ROBUST_READER", "ROBUST_WRITER"}
    /\ ag'[p].code # EC_READER_EXPIRED

(* OnChannelRead returns.                                                  *)
Reads(p) == ReadMessage(p) /\ ag[p].flavor # "ROBUST_WRITER"

(* Six kinds of steps change what is counted.                              *)
LEMMA Effects ==
    ASSUME AgentTypes, test \in Tests, AgentInv, LockInv, NEW p \in Agents, AgentStep(p) \/ Die(p)
    PROVE  \/ Quiet(p) \/ LoadFreePos(p) \/ CountReady(p) \/ Reads(p) \/ Expire(p)
           \/ Write(p) \/ Main(p)
<1>1. /\ ag \in [Agents -> AgentRecord] /\ Control(p) /\ p[1] \in {"reader", "writer"}
  BY AgentsAre DEF AgentTypes, AgentInv
<1>2. CASE OpenSocket(p)
  BY <1>1, <1>2, ToIs, ExitsIs
     DEF OpenSocket, Quiet, Control, Reading, Passed, Gone, At, Labels, ReaderLabels,
         WriterLabels, Early, shmVars, EC_SUCCESS, EC_READER_EXPIRED, Abort, Killed
<1>3. CASE Alloc(p)
  <2> DEFINE l == AfterLock(LockCode(info[ag[p].id].lock, Dead), "load")
  <2>1. /\ At(p, "alloc") /\ p[1] = "reader" /\ end' = end /\ stats' = stats
        /\ \/ ag' = [ag EXCEPT ![p].id = ag[p].id + 1]
           \/ Exits(p, Abort)
           \/ To(p, l)
    BY <1>1, <1>3 DEF Alloc, Control, WriterLabels, At
  <2>2. l \in {"load", "consist", "aborted"} /\ l \in Labels
    BY DEF AfterLock, Labels
  <2>3. ag'[p].pc \in ReaderLabels
    BY <2>1, ControlStep DEF AgentInv, Control
  <2> HIDE DEF l
  <2>4. CASE ag' = [ag EXCEPT ![p].id = ag[p].id + 1]
    <3>1. /\ ag'[p].pc = "alloc" /\ ag'[p].pos = ag[p].pos /\ ag'[p].rcved = ag[p].rcved
          /\ ag'[p].todo = ag[p].todo /\ ag'[p].code = ag[p].code
      BY <1>1, <2>1, <2>4 DEF AgentRecord, At
    <3> QED
      BY <1>1, <2>1, <3>1
         DEF Quiet, Control, Reading, Passed, Gone, At, EC_SUCCESS, EC_READER_EXPIRED, Early
  <2>5. CASE Exits(p, Abort)
    BY <1>1, <2>1, <2>5, ExitsIs
       DEF Quiet, Reading, Passed, Gone, At, EC_SUCCESS, EC_READER_EXPIRED, Abort, Early
  <2>6. CASE To(p, l)
    BY <1>1, <2>1, <2>2, <2>6, <2>3, ToIs
       DEF Quiet, Control, Reading, Passed, Gone, At, EC_SUCCESS, EC_READER_EXPIRED, Early,
           ReaderLabels
  <2> QED
    BY <2>1, <2>4, <2>5, <2>6
<1>4. CASE MakeConsistent(p)
  BY <1>1, <1>4, ToIs
     DEF MakeConsistent, Quiet, Control, Reading, Passed, Gone, At, Labels, ReaderLabels,
         WriterLabels, Early, shmVars, EC_SUCCESS, EC_READER_EXPIRED, Abort, Killed
<1>5. CASE Activate(p)
  BY <1>1, <1>5, ToIs
     DEF Activate, Quiet, Control, Reading, Passed, Gone, At, Labels, ReaderLabels,
         WriterLabels, Early, shmVars, EC_SUCCESS, EC_READER_EXPIRED, Abort, Killed
<1>6. CASE ReadMore(p)
  BY <1>1, <1>6, ToIs, ExitsIs
     DEF ReadMore, Quiet, Control, Reading, Passed, Gone, At, Labels, ReaderLabels,
         WriterLabels, Early, shmVars, EC_SUCCESS, EC_READER_EXPIRED, Abort, Killed
<1>7. CASE WaitNotification(p)
  BY <1>1, <1>7, ToIs
     DEF WaitNotification, Quiet, Control, Reading, Passed, Gone, At, Labels, ReaderLabels,
         WriterLabels, Early, shmVars, EC_SUCCESS, EC_READER_EXPIRED, Abort, Killed
<1>8. CASE RunEnds(p)
  BY <1>1, <1>8, ToIs
     DEF RunEnds, Quiet, Control, Reading, Passed, Gone, At, Labels, ReaderLabels,
         WriterLabels, Early, shmVars, EC_SUCCESS, EC_READER_EXPIRED, Abort, Killed
<1>9. CASE ReadMessage(p)
  BY <1>1, <1>9, ToIs
     DEF ReadMessage, Quiet, Control, Reading, Passed, Gone, At, Labels, ReaderLabels,
         WriterLabels, Early, shmVars, EC_SUCCESS, EC_READER_EXPIRED, Abort, Killed, Reads
<1>10. CASE Free(p)
  BY <1>1, <1>10, ToIs
     DEF Free, Quiet, Control, Reading, Passed, Gone, At, Labels, ReaderLabels, WriterLabels,
         Early, shmVars, EC_SUCCESS, EC_READER_EXPIRED, Abort, Killed
<1>11. CASE Lock(p)
  BY <1>1, <1>11, ToIs
     DEF Lock, Quiet, Control, Reading, Passed, Gone, At, Labels, ReaderLabels, WriterLabels,
         Early, shmVars, EC_SUCCESS, EC_READER_EXPIRED, Abort, Killed, AfterLock, LockCode
<1>12. CASE Scan(p)
  BY <1>1, <1>12, ToIs
     DEF Scan, Quiet, Control, Reading, Passed, Gone, At, Labels, ReaderLabels, WriterLabels,
         Early, shmVars, EC_SUCCESS, EC_READER_EXPIRED, Abort, Killed
<1>13. CASE NotifyBackpressure(p)
  BY <1>1, <1>13, ToIs
     DEF NotifyBackpressure, Quiet, Control, Reading, Passed, Gone, At, Labels, ReaderLabels,
         WriterLabels, Early, shmVars, EC_SUCCESS, EC_READER_EXPIRED, Abort, Killed
<1>14. CASE OnBackpressure(p)
  BY <1>1, <1>14, ToIs, ExitsIs
     DEF OnBackpressure, Quiet, Control, Reading, Passed, Gone, At, Labels, ReaderLabels,
         WriterLabels, Early, shmVars, EC_SUCCESS, EC_READER_EXPIRED, Abort, Killed
<1>15. CASE Unlock(p)
  BY <1>1, <1>15, ToIs
     DEF Unlock, Quiet, Control, Reading, Passed, Gone, At, Labels, ReaderLabels, WriterLabels,
         Early, shmVars, EC_SUCCESS, EC_READER_EXPIRED, Abort, Killed
<1>16. CASE NotifyAtEnd(p)
  BY <1>1, <1>16, ToIs
     DEF NotifyAtEnd, Quiet, Control, Reading, Passed, Gone, At, Labels, ReaderLabels,
         WriterLabels, Early, shmVars, EC_SUCCESS, EC_READER_EXPIRED, Abort, Killed
<1>17. CASE Die(p)
  BY <1>1, <1>17, ExitsIs
     DEF Die, Quiet, Control, Reading, Passed, Gone, At, Labels, ReaderLabels, WriterLabels,
         Early, shmVars, EC_SUCCESS, EC_READER_EXPIRED, Abort, Killed, Alive
<1> QED
  BY AgentCases, <1>2, <1>3, <1>4, <1>5, <1>6, <1>7, <1>8, <1>9, <1>10, <1>11, <1>12, <1>13,
     <1>14, <1>15, <1>16, <1>17

(* What each of the other steps changes.                                   *)
LEMMA EffectsAre ==
    ASSUME AgentTypes, NEW p \in Agents
    PROVE  /\ LoadFreePos(p) =>
                /\ end' = end /\ stats' = stats /\ At(p, "load") /\ ag'[p].pc = "activate"
                /\ ag'[p].pos = end /\ ag'[p].rcved = ag[p].rcved /\ ag'[p].todo = ag[p].todo
                /\ ag'[p].code = ag[p].code
           /\ CountReady(p) =>
                /\ end' = end /\ At(p, "ready") /\ ag'[p].pc = "top"
                /\ stats'.readersReady = stats.readersReady + 1
                /\ stats'.msgCount = stats.msgCount
                /\ stats'.expiredReaders = stats.expiredReaders
                /\ ag'[p].pos = ag[p].pos /\ ag'[p].rcved = ag[p].rcved /\ ag'[p].todo = ag[p].todo
                /\ ag'[p].code = ag[p].code
           /\ Reads(p) =>
                /\ end' = end /\ At(p, "run") /\ ag'[p].pc = "run" /\ ag[p].pos # end
                /\ ag[p].flavor # "ROBUST_WRITER"
                /\ stats'.readersReady = stats.readersReady
                /\ stats'.msgCount = stats.msgCount + Counted(p, ag[p].rcved + 1)
                /\ stats'.expiredReaders = stats.expiredReaders
                /\ ag'[p].pos = ag[p].pos + 1 /\ ag'[p].rcved = ag[p].rcved + 1
                /\ ag'[p].todo = ag[p].todo /\ ag'[p].code = ag[p].code
           /\ Expire(p) =>
                /\ end' = end /\ At(p, "run") /\ ag'[p].pc = "exited"
                /\ stats'.readersReady = stats.readersReady
                /\ stats'.msgCount = stats.msgCount
                /\ ag'[p].code = EC_READER_EXPIRED
                /\ ag'[p].pos = ag[p].pos /\ ag'[p].rcved = ag[p].rcved /\ ag'[p].todo = ag[p].todo
           /\ Write(p) =>
                /\ end' = end + 1 /\ stats' = stats /\ At(p, "write") /\ ag'[p].pc = "unlock"
                /\ ag'[p].pos = ag[p].pos /\ ag'[p].rcved = ag[p].rcved
                /\ ag'[p].todo = ag[p].todo - 1 /\ ag'[p].code = ag[p].code
           /\ Main(p) =>
                /\ end' = end /\ At(p, "main") /\ ag'[p].pc = "exited"
                /\ stats'.readersReady = stats.readersReady
                /\ stats'.msgCount =
                    (IF ag[p].flavor = "LATENCY" THEN stats.msgCount + ag[p].rcved
                     ELSE stats.msgCount)
                /\ stats'.expiredReaders = stats.expiredReaders
                /\ ag'[p].code = EC_SUCCESS
                /\ ag'[p].pos = ag[p].pos /\ ag'[p].rcved = ag[p].rcved /\ ag'[p].todo = ag[p].todo
<1>1. /\ ag \in [Agents -> AgentRecord] /\ stats \in StatsRecord
      /\ EC_SUCCESS \in {EC_SUCCESS, EC_READER_EXPIRED, Abort, Killed}
      /\ EC_READER_EXPIRED \in {EC_SUCCESS, EC_READER_EXPIRED, Abort, Killed}
      /\ "top" \in Labels
  BY DEF AgentTypes, Labels
<1>2. ASSUME LoadFreePos(p)
      PROVE  /\ end' = end /\ stats' = stats /\ At(p, "load") /\ ag'[p].pc = "activate"
             /\ ag'[p].pos = end /\ ag'[p].rcved = ag[p].rcved /\ ag'[p].todo = ag[p].todo
             /\ ag'[p].code = ag[p].code
  BY <1>1, <1>2 DEF LoadFreePos, shmVars, AgentRecord
<1>3. ASSUME CountReady(p)
      PROVE  /\ end' = end /\ At(p, "ready") /\ ag'[p].pc = "top"
             /\ stats'.readersReady = stats.readersReady + 1
             /\ stats'.msgCount = stats.msgCount
             /\ stats'.expiredReaders = stats.expiredReaders
             /\ ag'[p].pos = ag[p].pos /\ ag'[p].rcved = ag[p].rcved /\ ag'[p].todo = ag[p].todo
             /\ ag'[p].code = ag[p].code
  BY <1>1, <1>3, ToIs DEF CountReady, StatsRecord
<1>4. ASSUME Reads(p)
      PROVE  /\ end' = end /\ At(p, "run") /\ ag'[p].pc = "run" /\ ag[p].pos # end
             /\ ag[p].flavor # "ROBUST_WRITER"
             /\ stats'.readersReady = stats.readersReady
             /\ stats'.msgCount = stats.msgCount + Counted(p, ag[p].rcved + 1)
             /\ stats'.expiredReaders = stats.expiredReaders
             /\ ag'[p].pos = ag[p].pos + 1 /\ ag'[p].rcved = ag[p].rcved + 1
             /\ ag'[p].todo = ag[p].todo /\ ag'[p].code = ag[p].code
  BY <1>1, <1>4 DEF Reads, ReadMessage, StatsRecord, AgentRecord, At
<1>5. ASSUME Expire(p)
      PROVE  /\ end' = end /\ At(p, "run") /\ ag'[p].pc = "exited"
             /\ stats'.readersReady = stats.readersReady
             /\ stats'.msgCount = stats.msgCount
             /\ ag'[p].code = EC_READER_EXPIRED
             /\ ag'[p].pos = ag[p].pos /\ ag'[p].rcved = ag[p].rcved /\ ag'[p].todo = ag[p].todo
  BY <1>1, <1>5, ExitsIs DEF Expire, StatsRecord
<1>6. ASSUME Write(p)
      PROVE  /\ end' = end + 1 /\ stats' = stats /\ At(p, "write") /\ ag'[p].pc = "unlock"
             /\ ag'[p].pos = ag[p].pos /\ ag'[p].rcved = ag[p].rcved
             /\ ag'[p].todo = ag[p].todo - 1 /\ ag'[p].code = ag[p].code
  BY <1>1, <1>6 DEF Write, AgentRecord
<1>7. ASSUME Main(p)
      PROVE  /\ end' = end /\ At(p, "main") /\ ag'[p].pc = "exited"
             /\ stats'.readersReady = stats.readersReady
             /\ stats'.msgCount =
                 (IF ag[p].flavor = "LATENCY" THEN stats.msgCount + ag[p].rcved
                  ELSE stats.msgCount)
             /\ stats'.expiredReaders = stats.expiredReaders
             /\ ag'[p].code = EC_SUCCESS
             /\ ag'[p].pos = ag[p].pos /\ ag'[p].rcved = ag[p].rcved /\ ag'[p].todo = ag[p].todo
  BY <1>1, <1>7, ExitsIs DEF Main, StatsRecord
<1> QED
  BY <1>2, <1>3, <1>4, <1>5, <1>6, <1>7

(* TypeOK, but for the types of the agents.                                *)
ScriptTypes ==
    /\ test \in Tests /\ iter \in 1 .. test.iterations
    /\ line \in 1 .. Len(Script(test, iter)) + 1
    /\ exit \in Int /\ named \in BOOLEAN

SocketTypes == sock \in [Agents -> Sockets]

(* TypeOK in three parts, and the numbers it bounds.                       *)
LEMMA TypesAre ==
    /\ TypeOK <=> ScriptTypes /\ AgentTypes /\ SocketTypes
    /\ TypeOK => /\ test \in Tests /\ iter \in Nat /\ iter >= 1 /\ iter <= MaxIterations
                 /\ line \in Nat /\ line >= 1
<1>1. TypeOK <=> ScriptTypes /\ AgentTypes /\ SocketTypes
  BY DEF TypeOK, ScriptTypes, SocketTypes, AgentTypes, AgentRecord, SlotRecord, StatsRecord
<1>2. ASSUME TypeOK
      PROVE  /\ test \in Tests /\ iter \in Nat /\ iter >= 1 /\ iter <= MaxIterations
             /\ line \in Nat /\ line >= 1
  <2>1. test \in Tests /\ iter \in 1 .. test.iterations /\ line \in 1 .. Len(Script(test, iter)) + 1
    BY <1>2 DEF TypeOK
  <2> QED
    BY <2>1, TestIs
<1> QED
  BY <1>1, <1>2

(* A socket is closed or holds some datagrams, whatever is done to it:     *)
(* opening it, Send by anybody, Wait by its owner, and the end of a        *)
(* process.                                                                *)
LEMMA SocketStep ==
    ASSUME SocketTypes, Next
    PROVE  SocketTypes'
<1>1. /\ sock \in [Agents -> Sockets] /\ SockBuf \in Nat /\ SockBuf > 0
      /\ Closed = -1 /\ \A n \in Int : n \in Sockets <=> n = -1 \/ (0 <= n /\ n <= SockBuf)
  BY SocketAssumption DEF SocketTypes, Sockets, Closed
<1>2. ASSUME sock' = Sent(sock)
      PROVE  SocketTypes'
  <2>1. \A p \in Agents : sock[p] \in Sockets /\ sock[p] \in Int
    BY <1>1 DEF Sockets
  <2>2. DOMAIN sock = Agents
    BY <1>1
  <2> QED
    BY <1>1, <1>2, <2>1, <2>2 DEF SocketTypes, Sent
<1>3. ASSUME NEW p \in Agents, NEW n \in Sockets, sock' = [sock EXCEPT ![p] = n]
      PROVE  SocketTypes'
  BY <1>1, <1>3 DEF SocketTypes
<1>4. /\ Closed \in Sockets /\ 0 \in Sockets
      /\ \A n \in Sockets : CanReceive(n) => Received(n) \in Sockets
  BY <1>1 DEF Sockets, CanReceive, Received
<1>5. ASSUME sock' = sock
      PROVE  SocketTypes'
  BY <1>1, <1>5 DEF SocketTypes
<1>6. ASSUME NEW p \in Agents, NEW code, Exits(p, code)
      PROVE  SocketTypes'
  BY <1>3, <1>4, <1>6 DEF Exits
<1>7. ASSUME ScriptStep
      PROVE  SocketTypes'
  <2>1. CASE StartAgent \/ WaitAgent \/ RunWaitReadersReady \/ RunResetIter \/ Loop
    BY <1>5, <2>1 DEF StartAgent, WaitAgent, RunWaitReadersReady, RunResetIter, Loop
  <2>2. CASE RunCmpReceivedMessages \/ Sleep \/ RunExpired \/ RunUnlink \/ ScriptDone
    BY <1>5, <2>2 DEF RunCmpReceivedMessages, Sleep, RunExpired, RunUnlink, ScriptDone
  <2>3. CASE KillAgent
    BY <1>4, <1>1, <1>5, <2>3 DEF KillAgent, Exits, SocketTypes
  <2> QED
    BY <1>7, <2>1, <2>2, <2>3 DEF ScriptStep
<1>8. ASSUME NEW p \in Agents, AgentStep(p) \/ Die(p)
      PROVE  SocketTypes'
  <2>1. CASE OpenSocket(p)
    <3>1. \A f \in BOOLEAN : Constructed(f) \in Sockets
      BY <1>4 DEF Constructed
    <3>2. PICK f \in {FALSE, MayFail} :
            IF f THEN Exits(p, Abort) ELSE sock' = [sock EXCEPT ![p] = Constructed(f)]
      BY <2>1 DEF OpenSocket
    <3> QED
      BY <1>3, <1>6, <3>1, <3>2, BurstAssumption
  <2>2. CASE Alloc(p)
    <3>1. sock' = sock \/ Exits(p, Abort)
      BY <2>2 DEF Alloc
    <3> QED
      BY <1>5, <1>6, <3>1
  <2>3. CASE ReadMore(p)
    <3>1. sock' = sock \/ Exits(p, EC_SUCCESS)
      BY <2>3 DEF ReadMore
    <3> QED
      BY <1>5, <1>6, <3>1
  <2>4. CASE OnBackpressure(p)
    <3>1. sock' = sock \/ Exits(p, EC_SUCCESS)
      BY <2>4 DEF OnBackpressure
    <3> QED
      BY <1>5, <1>6, <3>1
  <2>5. CASE WaitNotification(p)
    <3>1. sock[p] \in Sockets /\ CanReceive(sock[p]) /\ sock' = [sock EXCEPT ![p] = Received(@)]
      BY <1>1, <2>5 DEF WaitNotification
    <3> QED
      BY <1>3, <1>4, <3>1
  <2>6. CASE Expire(p) \/ Main(p) \/ Die(p)
    BY <1>6, <2>6 DEF Expire, Main, Die
  <2>7. CASE NotifyBackpressure(p) \/ NotifyAtEnd(p)
    BY <1>2, <2>7 DEF NotifyBackpressure, NotifyAtEnd
  <2>8. CASE \/ MakeConsistent(p) \/ LoadFreePos(p) \/ Activate(p) \/ CountReady(p)
             \/ RunEnds(p) \/ ReadMessage(p) \/ Free(p)
    BY <1>5, <2>8 DEF MakeConsistent, LoadFreePos, Activate, CountReady, RunEnds, ReadMessage, Free
  <2>9. CASE Lock(p) \/ Scan(p) \/ Write(p) \/ Unlock(p)
    BY <1>5, <2>9 DEF Lock, Scan, Write, Unlock
  <2> QED
    BY <1>8, <2>1, <2>2, <2>3, <2>4, <2>5, <2>6, <2>7, <2>8, <2>9
       DEF AgentStep, ReaderStep, WriterStep
<1> QED
  BY <1>7, <1>8 DEF Next

------------------------------------------------------------------------------
(* Agents of bench-cell.sh.                                                *)

(* Only agents of the present iteration take steps.                        *)
LEMMA BenchAlive ==
    ASSUME TypeOK, BenchScript, test.script = "bench-cell", NEW p \in Agents, Alive(p)
    PROVE  /\ p[2] <= Many(p) /\ p[3] = iter /\ p[1] \in {"reader", "writer"}
           /\ p[1] = "reader" => p[2] \in 1 .. test.readers
           /\ p[1] = "writer" => p[2] \in 1 .. test.writers
           /\ p = <<p[1], p[2], iter>>
           /\ ag[p].flavor = test.flavor /\ ag[p].flavor \in {"FIRST_LAST_DURATION", "LATENCY"}
           /\ line > StartLine(p) /\ line <= WaitLine(p)
<1>1. /\ p[1] \in {"reader", "writer"} /\ p[2] \in Nat /\ p[2] >= 1 /\ p[3] \in Nat
      /\ p = <<p[1], p[2], p[3]>>
      /\ test \in Tests /\ test.readers \in Nat /\ test.writers \in Nat /\ iter \in Nat
      /\ line \in Nat
  BY AgentsAre, TestIs, TypesAre
<1>2. /\ p[2] > Many(p) \/ p[3] > iter => At(p, "none")
      /\ p[2] <= Many(p) /\ p[3] = iter => (At(p, "none") <=> line <= StartLine(p))
      /\ p[2] <= Many(p) /\ (p[3] < iter \/ (p[3] = iter /\ line > WaitLine(p))) => Passed(p)
      /\ ~At(p, "none") => ag[p].flavor = test.flavor
  BY DEF BenchScript
<1>3. ~At(p, "none") /\ ~Passed(p)
  BY DEF Alive, Passed
<1>4. Many(p) \in Nat /\ StartLine(p) \in Nat /\ WaitLine(p) \in Nat
  BY <1>1 DEF Many, StartLine, WaitLine
<1>5. p[2] <= Many(p) /\ p[3] = iter /\ line > StartLine(p) /\ line <= WaitLine(p)
  BY <1>1, <1>2, <1>3, <1>4
<1> QED
  BY <1>1, <1>2, <1>3, <1>5, TestIs DEF Many

(* An agent that has ended well stays so.                                  *)
LEMMA BenchScriptStep ==
    ASSUME TypeOK, BenchScript, test.script = "bench-cell", NEW p \in Agents, Steps(p)
    PROVE  BenchScript'
<1>1. test' = test /\ iter' = iter /\ line' = line
  BY DEF Steps, scriptVars
<1>2. ASSUME NEW q \in Agents
      PROVE  /\ q[2] > Many(q) \/ q[3] > iter => At(q, "none")'
             /\ q[2] <= Many(q) /\ q[3] = iter => (At(q, "none")' <=> line <= StartLine(q))
             /\ q[2] <= Many(q) /\ (q[3] < iter \/ (q[3] = iter /\ line > WaitLine(q))) =>
                  Passed(q)'
             /\ ~At(q, "none")' => ag'[q].flavor = test.flavor
  <2>1. /\ q[2] > Many(q) \/ q[3] > iter => At(q, "none")
        /\ q[2] <= Many(q) /\ q[3] = iter => (At(q, "none") <=> line <= StartLine(q))
        /\ q[2] <= Many(q) /\ (q[3] < iter \/ (q[3] = iter /\ line > WaitLine(q))) => Passed(q)
        /\ ~At(q, "none") => ag[q].flavor = test.flavor
    BY DEF BenchScript
  <2>2. CASE q # p
    <3>1. ag'[q] = ag[q]
      BY <2>2 DEF Steps
    <3> QED
      BY <2>1, <3>1 DEF At, Passed, Gone
  <2>3. CASE q = p
    <3>1. ~At(q, "none") /\ ~Passed(q) /\ ~At(q, "none")' /\ ag'[q].flavor = ag[q].flavor
      BY <2>3 DEF Steps, Alive, Passed, At
    <3> QED
      BY <2>1, <3>1
  <2> QED
    BY <2>2, <2>3
<1> QED
  BY <1>1, <1>2 DEF BenchScript, Many, StartLine, WaitLine

(* Numbers and pairs that are counted.                                     *)
LEMMA NumbersAre ==
    ASSUME NEW n \in Nat, NEW S, S \subseteq 1 .. n
    PROVE  /\ IsFiniteSet(S) /\ Cardinality(S) \in Nat /\ Cardinality(S) <= n
           /\ Cardinality(S) = n <=> S = 1 .. n
<1>1. IsFiniteSet(1 .. n) /\ Cardinality(1 .. n) = n
  <2>1. 1 \in Int /\ n \in Int
    OBVIOUS
  <2>2. IsFiniteSet(1 .. n) /\ Cardinality(1 .. n) = IF 1 > n THEN 0 ELSE n - 1 + 1
    BY <2>1, FS_Interval
  <2> QED
    BY <2>2
<1>2. /\ IsFiniteSet(S) /\ Cardinality(S) <= Cardinality(1 .. n)
      /\ Cardinality(1 .. n) = Cardinality(S) => 1 .. n = S
  BY <1>1, FS_Subset
<1>3. Cardinality(S) \in Nat
  BY <1>2, FS_CardinalityType
<1> QED
  BY <1>1, <1>2, <1>3

(* Pairs of numbers that are counted.                                      *)
LEMMA PairsAre ==
    ASSUME NEW w \in Nat, NEW m \in Nat, NEW S, S \subseteq (1 .. w) \X (1 .. m)
    PROVE  /\ IsFiniteSet(S) /\ Cardinality(S) \in Nat /\ Cardinality(S) <= m * w
           /\ S = (1 .. w) \X (1 .. m) => Cardinality(S) = m * w
<1>1. /\ IsFiniteSet(1 .. w) /\ Cardinality(1 .. w) = w
      /\ IsFiniteSet(1 .. m) /\ Cardinality(1 .. m) = m
  BY NumbersAre
<1>2. IsFiniteSet((1 .. w) \X (1 .. m)) /\ Cardinality((1 .. w) \X (1 .. m)) = w * m
  BY <1>1, FS_Product
<1>3. w * m = m * w
  OBVIOUS
<1>4. IsFiniteSet(S) /\ Cardinality(S) <= Cardinality((1 .. w) \X (1 .. m))
  BY <1>2, FS_Subset
<1>5. Cardinality(S) \in Nat
  BY <1>4, FS_CardinalityType
<1> QED
  BY <1>2, <1>3, <1>4, <1>5

(* readersReady counts no reader that is not counted here.                 *)
LEMMA BarrierStep ==
    ASSUME TypeOK, TypeOK', AgentInv, LockInv, BenchScript, BarrierInv, test.script = "bench-cell",
           NEW p \in Agents, AgentStep(p) \/ Die(p), Steps(p)
    PROVE  BarrierInv'
<1>1. /\ test' = test /\ iter' = iter /\ line' = line /\ BodyLines' = BodyLines
      /\ test \in Tests /\ AgentTypes /\ test.readers \in Nat /\ Control(p)
      /\ iter \in Nat /\ iter >= 1 /\ iter <= MaxIterations
      /\ test.readers \in Nat /\ test.readers <= MaxAgents
  BY TypesAre, TestIs DEF Steps, scriptVars, BodyLines, AgentInv
<1>2. ASSUME NEW a \in 1 .. test.readers, ag[<<"reader", a, iter>>].pc \notin Early
      PROVE  ag'[<<"reader", a, iter>>].pc \notin Early
  <2> DEFINE q == <<"reader", a, iter>>
  <2>1. q \in Agents /\ q[1] = "reader"
    <3>1. a \in 1 .. MaxAgents /\ iter \in 1 .. MaxIterations /\ "reader" \in {"reader", "writer"}
      BY <1>1, BurstAssumption
    <3> QED
      BY <3>1, AgentsAre
  <2> HIDE DEF q
  <2>2. CASE q # p
    BY <1>2, <2>1, <2>2 DEF Steps, q
  <2>3. CASE q = p
    BY <1>1, <1>2, <2>1, <2>3, Effects, EffectsAre DEF Quiet, Early, At, q
  <2> QED
    BY <2>2, <2>3
<1>3. Counted1 \subseteq Counted1'
  BY <1>1, <1>2 DEF Counted1
<1>4. /\ IsFiniteSet(Counted1) /\ Cardinality(Counted1) \in Nat
      /\ IsFiniteSet(Counted1') /\ Cardinality(Counted1') \in Nat
  <2>1. Counted1 \subseteq 1 .. test.readers /\ Counted1' \subseteq 1 .. test.readers
    BY <1>1 DEF Counted1
  <2> QED
    BY <1>1, <2>1, NumbersAre
<1>5. Cardinality(Counted1) <= Cardinality(Counted1')
  BY <1>3, <1>4, FS_Subset
<1>6. CASE CountReady(p)
  <2>1. At(p, "ready") /\ ag'[p].pc = "top" /\ stats'.readersReady = stats.readersReady + 1
    BY <1>1, <1>6, EffectsAre
  <2>2. p[1] = "reader" /\ p = <<p[1], p[2], iter>> /\ p[2] \in 1 .. test.readers
    BY <1>1, <2>1, BenchAlive DEF Steps, Control, WriterLabels, At
  <2>3. p[2] \notin Counted1 /\ p[2] \in Counted1'
    BY <1>1, <2>1, <2>2 DEF Counted1, Early, At
  <2>4. /\ IsFiniteSet(Counted1) /\ IsFiniteSet(Counted1') /\ Cardinality(Counted1) \in Nat
        /\ Cardinality(Counted1') \in Nat
    BY <1>4
  <2>5. Cardinality(Counted1 \cup {p[2]}) = Cardinality(Counted1) + 1
    BY <2>3, <2>4, FS_AddElement
  <2>6. Cardinality(Counted1 \cup {p[2]}) <= Cardinality(Counted1')
    BY <1>3, <2>3, <2>4, FS_Subset
  <2>7. stats.readersReady \in Nat
    BY <1>1 DEF AgentTypes, StatsRecord
  <2>8. ~(line > test.readers + 1)
    BY <2>1, <2>2 DEF BarrierInv, Early, At
  <2>9. ~(line >= BodyLines)
    BY <1>1, <2>8, TestIs, TypesAre DEF BodyLines
  <2> QED
    BY <1>1, <2>1, <2>4, <2>5, <2>6, <2>7, <2>8, <2>9 DEF BarrierInv
<1>7. CASE ~CountReady(p)
  <2>1. stats'.readersReady = stats.readersReady
    BY <1>1, <1>7, Effects, EffectsAre DEF Quiet
  <2>2. /\ Cardinality(Counted1) \in Nat /\ Cardinality(Counted1') \in Nat
        /\ stats.readersReady \in Nat
    BY <1>1, <1>4 DEF AgentTypes, StatsRecord
  <2> QED
    BY <1>1, <1>2, <1>5, <2>1, <2>2 DEF BarrierInv
<1> QED
  BY <1>6, <1>7

(* The agents of the present iteration.                                    *)
LEMMA PresentAre ==
    ASSUME TypeOK
    PROVE  /\ \A a \in 1 .. test.readers :
                /\ <<"reader", a, iter>> \in Agents /\ <<"reader", a, iter>>[1] = "reader"
                /\ <<"reader", a, iter>>[2] = a /\ <<"reader", a, iter>>[3] = iter
           /\ \A a \in 1 .. test.writers :
                /\ <<"writer", a, iter>> \in Agents /\ <<"writer", a, iter>>[1] = "writer"
                /\ <<"writer", a, iter>>[2] = a /\ <<"writer", a, iter>>[3] = iter
<1>1. /\ test.readers \in Nat /\ test.readers <= MaxAgents
      /\ test.writers \in Nat /\ test.writers <= MaxAgents
      /\ iter \in 1 .. MaxIterations /\ MaxAgents \in Nat
  BY TypesAre, TestIs
<1>2. /\ \A a \in 1 .. test.readers : a \in 1 .. MaxAgents
      /\ \A a \in 1 .. test.writers : a \in 1 .. MaxAgents
      /\ "reader" \in {"reader", "writer"} /\ "writer" \in {"reader", "writer"}
  BY <1>1
<1> QED
  BY <1>1, <1>2, AgentsAre

(* Written grows when a writer writes.                                     *)
LEMMA StreamStep ==
    ASSUME TypeOK, TypeOK', AgentInv, LockInv, BenchScript, StreamInv, test.script = "bench-cell",
           NEW p \in Agents, AgentStep(p) \/ Die(p), Steps(p)
    PROVE  StreamInv'
<1>1. /\ test' = test /\ iter' = iter /\ All' = All /\ test \in Tests /\ AgentTypes /\ Control(p)
      /\ test.writers \in Nat /\ test.messages \in Nat /\ end \in Nat /\ All \in Nat /\ iter \in Nat
  BY TypesAre, TestIs DEF Steps, scriptVars, All, AgentInv, AgentTypes
<1> DEFINE todo(a) == ag[<<"writer", a, iter>>].todo
<1>2. Written \subseteq (1 .. test.writers) \X (1 .. test.messages)
  BY DEF Written
<1>3. IsFiniteSet(Written) /\ Cardinality(Written) \in Nat
  BY <1>1, <1>2, PairsAre
<1>4. CASE Write(p)
  <2>1. /\ end' = end + 1 /\ At(p, "write") /\ ag'[p].todo = ag[p].todo - 1
        /\ ag[p].todo \in Nat /\ ag[p].todo > 0 /\ ag[p].todo <= test.messages
    BY <1>1, <1>4, EffectsAre, AgentsAre
       DEF Control, At, AgentTypes, AgentRecord, ReaderLabels, Early
  <2>2. p[1] = "writer" /\ p[2] \in 1 .. test.writers /\ p = <<"writer", p[2], iter>>
    BY <1>1, <2>1, BenchAlive DEF Steps, Control, ReaderLabels, Early, At
  <2> DEFINE x == <<p[2], ag[p].todo>>
  <2>3. /\ x \in (1 .. test.writers) \X (1 .. test.messages) /\ x \notin Written
        /\ x[1] = p[2] /\ x[2] = ag[p].todo
    BY <1>1, <2>1, <2>2 DEF Written
  <2>4. ASSUME NEW y \in (1 .. test.writers) \X (1 .. test.messages)
        PROVE  y \in Written' <=> y \in Written \/ y = x
    <3>1. y[1] \in 1 .. test.writers /\ y[2] \in 1 .. test.messages /\ y = <<y[1], y[2]>>
      OBVIOUS
    <3> DEFINE q == <<"writer", y[1], iter>>
    <3>2. q \in Agents /\ q[2] = y[1]
      BY <3>1, PresentAre
    <3>3. /\ y \in Written <=> y[2] > ag[q].todo
          /\ y \in Written' <=> y[2] > ag'[q].todo
      BY <1>1 DEF Written
    <3> HIDE DEF q
    <3>4. CASE q = p
      BY <1>1, <2>1, <2>3, <3>1, <3>2, <3>3, <3>4
    <3>5. CASE q # p
      <4>1. y[1] # p[2]
        BY <2>2, <3>5 DEF q
      <4>2. ag'[q] = ag[q]
        BY <3>2, <3>5 DEF Steps
      <4> QED
        BY <2>3, <3>3, <4>1, <4>2
    <3> QED
      BY <3>4, <3>5
  <2>5. Written' = Written \cup {x}
    <3>1. Written' \subseteq (1 .. test.writers) \X (1 .. test.messages)
      BY <1>1 DEF Written
    <3> HIDE DEF x
    <3> QED
      BY <1>2, <2>3, <2>4, <3>1
  <2>6. Cardinality(Written') = Cardinality(Written) + 1
    BY <1>3, <2>3, <2>5, FS_AddElement
  <2>7. All * (iter - 1) \in Int
    BY <1>1
  <2> DEFINE due == All * (iter - 1)
  <2>8. end = due + Cardinality(Written) /\ due' = due
    BY <1>1 DEF StreamInv
  <2> HIDE DEF due
  <2>9. end' = due + Cardinality(Written')
    BY <1>1, <1>3, <2>1, <2>6, <2>7, <2>8 DEF due
  <2> QED
    BY <1>1, <2>9 DEF StreamInv, due
<1>5. CASE ~Write(p)
  <2>1. end' = end /\ ag'[p].todo = ag[p].todo
    BY <1>1, <1>5, Effects, EffectsAre DEF Quiet
  <2>2. \A a \in 1 .. test.writers :
            ag'[<<"writer", a, iter>>].todo = ag[<<"writer", a, iter>>].todo
    BY <2>1, PresentAre DEF Steps
  <2>3. Written' = Written
    BY <1>1, <2>2 DEF Written
  <2> QED
    BY <1>1, <2>1, <2>3 DEF StreamInv
<1> QED
  BY <1>4, <1>5

(* A reader is as far from the start of its burst as it has received.      *)
LEMMA OwnStep ==
    ASSUME TypeOK, TypeOK', AgentInv, LockInv, BenchScript, BarrierInv, StreamInv, OwnInv,
           test.script = "bench-cell", NEW p \in Agents, AgentStep(p) \/ Die(p), Steps(p)
    PROVE  OwnInv'
<1>1. /\ test' = test /\ iter' = iter /\ All' = All /\ test \in Tests /\ AgentTypes /\ Control(p)
      /\ test.readers \in Nat /\ test.writers \in Nat /\ test.messages \in Nat
      /\ end \in Nat /\ All \in Nat /\ All > 0 /\ iter \in Nat /\ line \in Nat
  <2>1. test.writers \in Nat \ {0} /\ test.messages \in Nat \ {0}
    BY TypesAre, TestIs
  <2>2. All \in Nat /\ All > 0
    BY <2>1 DEF All
  <2> QED
    BY <2>1, <2>2, TypesAre, TestIs DEF Steps, scriptVars, All, AgentInv, AgentTypes
<1>2. ASSUME NEW q \in Agents, q # p
      PROVE  ag'[q] = ag[q]
  BY <1>2 DEF Steps
<1>3. SUFFICES ASSUME Reading(p)'
      PROVE  ag'[p].pos - ag'[p].rcved = All * (p[3] - 1) /\ ag'[p].rcved <= All
  <2>1. ASSUME NEW q \in Agents, Reading(q)'
        PROVE  ag'[q].pos - ag'[q].rcved = All * (q[3] - 1) /\ ag'[q].rcved <= All
    <3>1. CASE q = p
      BY <1>3, <2>1, <3>1
    <3>2. CASE q # p
      <4>1. ag'[q] = ag[q] /\ Reading(q)
        BY <1>2, <2>1, <3>2 DEF Reading
      <4> QED
        BY <4>1 DEF OwnInv
    <3> QED
      BY <3>1, <3>2
  <2> QED
    BY <1>1, <2>1 DEF OwnInv
<1>4. p[1] = "reader" /\ p[2] \in 1 .. test.readers /\ p[3] = iter /\ p = <<"reader", p[2], iter>>
  BY <1>3, BenchAlive DEF Reading, Steps
<1> DEFINE due == All * (iter - 1)
<1>5. due \in Int /\ end = due + Cardinality(Written) /\ Cardinality(Written) \in Nat
      /\ Cardinality(Written) <= All
  <2>1. Written \subseteq (1 .. test.writers) \X (1 .. test.messages)
    BY DEF Written
  <2> QED
    BY <1>1, <2>1, PairsAre DEF StreamInv, All
<1>6. Reading(p) => ag[p].pos - ag[p].rcved = due /\ ag[p].rcved <= All
  BY <1>4 DEF OwnInv
<1> HIDE DEF due
<1>7. /\ ag[p].pos \in Nat /\ ag[p].rcved \in Nat /\ ag[p].pos <= end
      /\ ag[p].code = EC_SUCCESS
  BY <1>1, <1>4 DEF AgentTypes, AgentRecord, Control, Steps, Alive
<1>8. SUFFICES ag'[p].pos - ag'[p].rcved = due /\ ag'[p].rcved <= All
  BY <1>4 DEF due
<1>9. CASE LoadFreePos(p)
  <2>1. At(p, "load") /\ ag'[p].pos = end /\ ag'[p].rcved = ag[p].rcved /\ ag[p].rcved = 0
    BY <1>1, <1>4, <1>9, EffectsAre DEF Control, Early, At
  <2>2. line <= test.readers + 1
    BY <1>1, <1>4, <2>1 DEF BarrierInv, Early, At
  <2>3. ASSUME NEW a \in 1 .. test.writers
        PROVE  ag[<<"writer", a, iter>>].todo = test.messages
    <3> DEFINE q == <<"writer", a, iter>>
    <3>1. q \in Agents /\ q[1] = "writer" /\ q[2] = a /\ q[3] = iter
      BY PresentAre
    <3> HIDE DEF q
    <3>2. At(q, "none")
      BY <1>1, <2>2, <3>1 DEF BenchScript, Many, StartLine
    <3> QED
      BY <3>1, <3>2 DEF AgentInv, Control, At, q
  <2>4. Written = {}
    <3>1. \A x \in (1 .. test.writers) \X (1 .. test.messages) :
            x[1] \in 1 .. test.writers /\ x[2] \in 1 .. test.messages
      OBVIOUS
    <3>2. ASSUME NEW x \in (1 .. test.writers) \X (1 .. test.messages)
          PROVE  ~(x[2] > ag[<<"writer", x[1], iter>>].todo)
      BY <1>1, <2>3, <3>1
    <3> QED
      BY <3>2 DEF Written
  <2>5. Cardinality(Written) = 0
    BY <2>4, FS_EmptySet
  <2> QED
    BY <1>1, <1>5, <2>1, <2>5
<1>10. CASE Reads(p)
  <2>1. /\ At(p, "run") /\ ag'[p].pos = ag[p].pos + 1 /\ ag'[p].rcved = ag[p].rcved + 1
        /\ ag[p].pos # end
    BY <1>1, <1>10, EffectsAre
  <2>2. Reading(p)
    BY <1>4, <1>7, <2>1 DEF Reading, At, EC_SUCCESS, Abort, Killed
  <2> QED
    BY <1>1, <1>5, <1>6, <1>7, <2>1, <2>2
<1>11. CASE ~LoadFreePos(p) /\ ~Reads(p)
  <2>1. /\ Quiet(p) \/ CountReady(p) \/ Expire(p) \/ Write(p) \/ Main(p)
        /\ ag'[p].pos = ag[p].pos /\ ag'[p].rcved = ag[p].rcved
    BY <1>1, <1>11, Effects, EffectsAre DEF Quiet
  <2>2. Reading(p)
    <3>1. CASE Quiet(p)
      BY <1>3, <3>1 DEF Quiet
    <3>2. CASE ~Quiet(p)
      <4>1. ag[p].pc \in {"ready", "run", "write", "main"}
        BY <1>1, <2>1, <3>2, EffectsAre DEF At
      <4> QED
        BY <1>4, <1>7, <4>1 DEF Reading, EC_SUCCESS, Abort, Killed
    <3> QED
      BY <3>1, <3>2
  <2> QED
    BY <1>6, <2>1, <2>2
<1> QED
  BY <1>9, <1>10, <1>11

(* A reader that adds what it has received has received the whole burst.   *)
LEMMA CountStep ==
    ASSUME TypeOK, TypeOK', AgentInv, LockInv, BenchScript, OwnInv, OwnInv', CountInv,
           test.script = "bench-cell", NEW p \in Agents, AgentStep(p) \/ Die(p), Steps(p)
    PROVE  CountInv'
<1>1. /\ test' = test /\ iter' = iter /\ All' = All /\ test \in Tests /\ AgentTypes /\ Control(p)
      /\ test.readers \in Nat /\ All \in Nat /\ All > 0 /\ iter \in Nat
      /\ p[1] \in {"reader", "writer"}
  <2>1. test.writers \in Nat \ {0} /\ test.messages \in Nat \ {0}
    BY TypesAre, TestIs
  <2>2. All \in Nat /\ All > 0
    BY <2>1 DEF All
  <2> QED
    BY <2>1, <2>2, TypesAre, TestIs, AgentsAre DEF Steps, scriptVars, All, AgentInv, AgentTypes
<1>2. SUFFICES ASSUME All > 1 \/ test.flavor = "LATENCY"
      PROVE  stats'.msgCount = test.readers * All * (iter - 1) + All * Cardinality(Added')
  BY <1>1 DEF CountInv
<1> DEFINE due == test.readers * All * (iter - 1)
<1>3. /\ due \in Int /\ stats.msgCount \in Nat
      /\ stats.msgCount = due + All * Cardinality(Added)
  <2>1. test.readers * All \in Nat
    BY <1>1
  <2> QED
    BY <1>1, <1>2, <2>1 DEF CountInv, AgentTypes, StatsRecord
<1> HIDE DEF due
<1>4. /\ Added \subseteq 1 .. test.readers /\ IsFiniteSet(Added) /\ Cardinality(Added) \in Nat
      /\ Added' \subseteq 1 .. test.readers
  <2>1. Added \subseteq 1 .. test.readers /\ Added' \subseteq 1 .. test.readers
    BY <1>1 DEF Added
  <2> QED
    BY <1>1, <2>1, NumbersAre
<1>5. /\ p = <<p[1], p[2], iter>> /\ p[3] = iter
      /\ p[1] = "reader" => p[2] \in 1 .. test.readers
      /\ ag[p].flavor = test.flavor /\ test.flavor \in {"FIRST_LAST_DURATION", "LATENCY"}
      /\ ag[p].code = EC_SUCCESS /\ ~Passed(p) /\ ag[p].rcved \in Nat
  BY <1>1, BenchAlive DEF Steps, Alive, Control, Passed, AgentTypes, AgentRecord
<1>6. ASSUME NEW a \in 1 .. test.readers, p # <<"reader", a, iter>>
      PROVE  a \in Added' <=> a \in Added
  <2> DEFINE q == <<"reader", a, iter>>
  <2>1. q \in Agents /\ q # p
    BY <1>6, PresentAre
  <2>2. ag'[q] = ag[q]
    BY <2>1 DEF Steps
  <2> QED
    BY <1>1, <2>2 DEF Added, HasAdded, Passed, Gone, At
<1>7. ASSUME p[1] = "reader"
      PROVE  /\ p[2] \in Added <=> HasAdded(p)
             /\ p[2] \in Added' <=> HasAdded(p)'
  BY <1>1, <1>5, <1>7 DEF Added, HasAdded, Passed, Gone, At
<1>8. CASE p[1] = "reader" /\ HasAdded(p)' /\ ~HasAdded(p) /\ stats'.msgCount = stats.msgCount + All
  <2>1. Added' = Added \cup {p[2]} /\ p[2] \notin Added
    <3>1. \A a \in 1 .. test.readers : a = p[2] \/ p # <<"reader", a, iter>>
      BY <1>5, <1>8
    <3> QED
      BY <1>4, <1>5, <1>6, <1>7, <1>8, <3>1
  <2>2. Cardinality(Added') = Cardinality(Added) + 1
    BY <1>4, <2>1, FS_AddElement
  <2>3. All * (Cardinality(Added) + 1) = All * Cardinality(Added) + All
    BY <1>1, <1>4
  <2>4. All * Cardinality(Added) \in Nat
    BY <1>1, <1>4
  <2> QED
    BY <1>1, <1>3, <1>8, <2>2, <2>3, <2>4 DEF due
<1>9. CASE (p[1] = "reader" => (HasAdded(p)' <=> HasAdded(p))) /\ stats'.msgCount = stats.msgCount
  <2>1. \A a \in 1 .. test.readers : a \in Added' <=> a \in Added
    <3>1. ASSUME NEW a \in 1 .. test.readers, p = <<"reader", a, iter>>
          PROVE  a \in Added' <=> a \in Added
      <4>1. p[1] = "reader" /\ p[2] = a
        BY <3>1
      <4> QED
        BY <1>7, <1>9, <4>1
    <3> QED
      BY <1>6, <3>1
  <2>2. Added' = Added
    BY <1>4, <2>1
  <2> QED
    BY <1>3, <1>9, <2>2 DEF due
<1>10. CASE test.flavor = "LATENCY"
  <2>1. CASE Main(p)
    <3>1. /\ At(p, "main") /\ ag'[p].pc = "exited" /\ ag'[p].code = EC_SUCCESS
          /\ stats'.msgCount = stats.msgCount + ag[p].rcved
      BY <1>1, <1>5, <1>10, <2>1, EffectsAre
    <3>2. CASE p[1] = "reader"
      <4>1. Passed(p)' /\ HasAdded(p)' /\ ~HasAdded(p)
        BY <1>1, <1>5, <1>10, <3>1 DEF HasAdded, Passed, Gone, At
      <4>2. Reading(p) /\ ag[p].rcved >= All
        BY <1>1, <1>5, <3>1, <3>2 DEF Reading, Control, At, EC_SUCCESS, Abort, Killed
      <4>3. ag[p].rcved = All
        BY <1>1, <1>5, <4>2 DEF OwnInv
      <4> QED
        BY <1>8, <3>1, <3>2, <4>1, <4>3
    <3>3. CASE p[1] = "writer"
      <4>1. ag[p].rcved = 0
        BY <1>1, <3>3 DEF Control
      <4> QED
        BY <1>3, <1>9, <3>1, <3>3, <4>1
    <3> QED
      BY <1>1, <3>2, <3>3
  <2>2. CASE ~Main(p)
    <3>1. ~Passed(p)'
      BY <1>1, <1>5, <2>2, Effects, EffectsAre
         DEF Quiet, Passed, Gone, At, EC_SUCCESS, EC_READER_EXPIRED
    <3>2. stats'.msgCount = stats.msgCount
      BY <1>1, <1>3, <1>5, <1>10, <2>2, Effects, EffectsAre DEF Quiet, Counted
    <3> QED
      BY <1>1, <1>5, <1>9, <1>10, <3>1, <3>2 DEF HasAdded
  <2> QED
    BY <2>1, <2>2
<1>11. CASE test.flavor # "LATENCY"
  <2>1. All > 1 /\ test.flavor = "FIRST_LAST_DURATION"
    BY <1>2, <1>5, <1>11
  <2>2. /\ HasAdded(p) <=> ag[p].rcved = All
        /\ HasAdded(p)' <=> ag'[p].rcved = All
    BY <1>1, <1>11 DEF HasAdded
  <2>3. CASE Reads(p)
    <3>1. /\ At(p, "run") /\ ag'[p].pc = "run" /\ ag'[p].rcved = ag[p].rcved + 1
          /\ ag'[p].code = ag[p].code
          /\ stats'.msgCount = stats.msgCount + Counted(p, ag[p].rcved + 1)
      BY <1>1, <2>3, EffectsAre
    <3>2. p[1] = "reader"
      BY <1>1, <3>1 DEF Control, WriterLabels, At
    <3>3. ag'[p].rcved <= All
      <4>1. Reading(p)'
        BY <1>5, <3>1, <3>2 DEF Reading, EC_SUCCESS, Abort, Killed
      <4> QED
        BY <1>1, <4>1 DEF OwnInv
    <3>4. Counted(p, ag[p].rcved + 1) = IF ag[p].rcved + 1 = All THEN All ELSE 0
      BY <1>1, <1>5, <2>1 DEF Counted
    <3>5. CASE ag[p].rcved + 1 = All
      BY <1>5, <1>8, <2>2, <3>1, <3>2, <3>4, <3>5
    <3>6. CASE ag[p].rcved + 1 # All
      BY <1>1, <1>3, <1>5, <1>9, <2>2, <3>1, <3>2, <3>3, <3>4, <3>6
    <3> QED
      BY <3>5, <3>6
  <2>4. CASE ~Reads(p)
    <3>1. ag'[p].rcved = ag[p].rcved /\ stats'.msgCount = stats.msgCount
      BY <1>1, <1>5, <1>11, <2>4, Effects, EffectsAre DEF Quiet
    <3> QED
      BY <1>9, <2>2, <3>1
  <2> QED
    BY <2>3, <2>4
<1> QED
  BY <1>10, <1>11

(* bench-cell.sh, when one of its agents takes a step.                     *)
LEMMA BenchStep ==
    ASSUME TypeOK, TypeOK', AgentInv, LockInv, BenchInv, NEW p \in Agents, AgentStep(p) \/ Die(p)
    PROVE  BenchInv'
<1>1. Steps(p) /\ test' = test /\ iter' = iter /\ line' = line /\ BodyLines' = BodyLines
  BY TypesAre, StepsAre DEF Steps, scriptVars, BodyLines, AgentTypes
<1>2. SUFFICES ASSUME test.script = "bench-cell"
      PROVE  /\ BenchScript' /\ BarrierInv' /\ StreamInv' /\ OwnInv' /\ CountInv'
             /\ line > BodyLines => iter = test.iterations
  BY <1>1 DEF BenchInv
<1>3. /\ BenchScript /\ BarrierInv /\ StreamInv /\ OwnInv /\ CountInv
      /\ line > BodyLines => iter = test.iterations
  BY <1>2 DEF BenchInv
<1>4. OwnInv'
  BY <1>1, <1>2, <1>3, OwnStep
<1> QED
  BY <1>1, <1>2, <1>3, <1>4, BenchScriptStep, BarrierStep, StreamStep, CountStep

(* Readers that are counted as expired ended as such.                      *)
LEMMA ExpiredStep ==
    ASSUME TypeOK, AgentInv, LockInv, ExpiredInv, NEW p \in Agents, AgentStep(p) \/ Die(p)
    PROVE  ExpiredInv'
<1>1. /\ Steps(p) /\ AgentTypes /\ test \in Tests /\ Control(p) /\ p[1] \in {"reader", "writer"}
  BY TypesAre, StepsAre, AgentsAre DEF AgentTypes, AgentInv
<1>2. CASE Expire(p)
  <2>1. p[1] = "reader" /\ ag'[p].code = EC_READER_EXPIRED
    BY <1>1, <1>2, EffectsAre DEF Control, WriterLabels, At
  <2> QED
    BY <2>1 DEF ExpiredInv
<1>3. CASE ~Expire(p)
  <2>1. stats'.expiredReaders = stats.expiredReaders
    BY <1>1, <1>3, Effects, EffectsAre DEF Quiet
  <2>2. ASSUME NEW q \in Agents, ag[q].code = EC_READER_EXPIRED
        PROVE  ag'[q] = ag[q]
    BY <1>1, <2>2 DEF Control, Steps, Alive, EC_SUCCESS, EC_READER_EXPIRED
  <2> QED
    BY <2>1, <2>2 DEF ExpiredInv
<1> QED
  BY <1>2, <1>3

------------------------------------------------------------------------------
(* Agents of the robust scripts.                                           *)

(* The process with a lock stays the same, but for Alloc and Free.         *)
LEMMA OwnersAre ==
    ASSUME AgentTypes, NEW p \in Agents, AgentStep(p) \/ Die(p), ag[p].id \in 1 .. MaxSlots,
           ~Alloc(p), ~Free(p)
    PROVE  \A s \in 1 .. MaxSlots : info'[s].lock.owner = info[s].lock.owner
<1>1. info \in [1 .. MaxSlots -> SlotRecord]
  BY DEF AgentTypes
<1>2. CASE OpenSocket(p)
  BY <1>1, <1>2 DEF OpenSocket, shmVars, SlotRecord
<1>3. CASE MakeConsistent(p)
  <2> DEFINE m == MadeConsistent(info[ag[p].id].lock)
  <2>1. m.owner = info[ag[p].id].lock.owner
    BY <1>1, MutexesAre DEF SlotRecord
  <2>2. info' = info \/ info' = [info EXCEPT ![ag[p].id].lock = m]
    BY <1>3 DEF MakeConsistent
  <2> HIDE DEF m
  <2> QED
    BY <1>1, <2>1, <2>2 DEF SlotRecord
<1>4. CASE LoadFreePos(p)
  BY <1>1, <1>4 DEF LoadFreePos, shmVars, SlotRecord
<1>5. CASE Activate(p)
  BY <1>1, <1>5 DEF Activate, shmVars, SlotRecord
<1>6. CASE CountReady(p)
  BY <1>1, <1>6 DEF CountReady, shmVars, SlotRecord
<1>7. CASE ReadMore(p)
  BY <1>1, <1>7 DEF ReadMore, shmVars, SlotRecord
<1>8. CASE WaitNotification(p)
  BY <1>1, <1>8 DEF WaitNotification, shmVars, SlotRecord
<1>9. CASE RunEnds(p)
  BY <1>1, <1>9 DEF RunEnds, shmVars, SlotRecord
<1>10. CASE Expire(p)
  BY <1>1, <1>10 DEF Expire, shmVars, SlotRecord
<1>11. CASE ReadMessage(p)
  <2>1. CASE ag[p].flavor = "ROBUST_WRITER"
    BY <1>11, <2>1 DEF ReadMessage
  <2>2. CASE ag[p].flavor # "ROBUST_WRITER"
    <3> DEFINE n == Published(ag[p].pos + 1, info[ag[p].id].position)
    <3>1. info' = [info EXCEPT ![ag[p].id].position = n]
      BY <1>11, <2>2 DEF ReadMessage
    <3> HIDE DEF n
    <3> QED
      BY <1>1, <3>1 DEF SlotRecord
  <2> QED
    BY <2>1, <2>2
<1>12. CASE Lock(p)
  BY <1>1, <1>12 DEF Lock, shmVars, SlotRecord
<1>13. CASE Scan(p)
  BY <1>1, <1>13 DEF Scan, shmVars, SlotRecord
<1>14. CASE NotifyBackpressure(p)
  BY <1>1, <1>14 DEF NotifyBackpressure, shmVars, SlotRecord
<1>15. CASE OnBackpressure(p)
  BY <1>1, <1>15 DEF OnBackpressure, shmVars, SlotRecord
<1>16. CASE Write(p)
  BY <1>1, <1>16 DEF Write, shmVars, SlotRecord
<1>17. CASE Unlock(p)
  BY <1>1, <1>17 DEF Unlock, shmVars, SlotRecord
<1>18. CASE NotifyAtEnd(p)
  BY <1>1, <1>18 DEF NotifyAtEnd, shmVars, SlotRecord
<1>19. CASE Main(p)
  BY <1>1, <1>19 DEF Main, shmVars, SlotRecord
<1>20. CASE Die(p)
  BY <1>1, <1>20 DEF Die, shmVars, SlotRecord
<1> QED
  BY AgentCases, <1>2, <1>3, <1>4, <1>5, <1>6, <1>7, <1>8, <1>9, <1>10, <1>11, <1>12, <1>13,
     <1>14, <1>15, <1>16, <1>17, <1>18, <1>19, <1>20

(* A robust script, when an agent takes a step.                            *)
LEMMA RobustScriptStep ==
    ASSUME TypeOK, RobustScript, test.script # "bench-cell", NEW p \in Agents, Steps(p)
    PROVE  RobustScript'
<1>1. /\ test' = test /\ iter' = iter /\ line' = line /\ Before' = Before
      /\ LastWriter' = LastWriter
  BY DEF Steps, scriptVars, Before, LastWriter
<1>2. /\ First \in Agents /\ Second \in Agents /\ LastWriter \in Agents
      /\ <<"writer", 1, 1>> \in Agents
  BY RobustCommand
<1>3. \A q \in Agents : /\ At(q, "none")' <=> At(q, "none")
                        /\ ag'[q].flavor = ag[q].flavor
                        /\ Gone(q) => ag'[q] = ag[q]
                        /\ Passed(q) => Passed(q)'
  <2>1. ASSUME NEW q \in Agents
        PROVE  /\ At(q, "none")' <=> At(q, "none")
               /\ ag'[q].flavor = ag[q].flavor
               /\ Gone(q) => ag'[q] = ag[q]
               /\ Passed(q) => Passed(q)'
    BY DEF Steps, Alive, At, Gone, Passed
  <2> QED
    BY <2>1
<1>4. \A q \in Agents : ~At(q, "none")' =>
        \/ q = First /\ ag'[q].flavor \in {"ROBUST_READER", "ROBUST_WRITER"}
        \/ q \in {Second, LastWriter} /\ ag'[q].flavor = "LATENCY"
        \/ /\ q = <<"writer", 1, 1>> /\ test.script = "robust-writer"
           /\ ag'[q].flavor = "ROBUST_WRITER"
  BY <1>3 DEF RobustScript
<1>5. line > Before => ag'[First].code # EC_READER_EXPIRED /\ Gone(First)'
  BY <1>2, <1>3 DEF RobustScript, Gone, At
<1> QED
  BY <1>1, <1>2, <1>3, <1>4, <1>5 DEF RobustScript

(* Whoever was told to count counts nothing but what the second reader     *)
(* received.                                                               *)
LEMMA RobustCountStep ==
    ASSUME TypeOK, AgentInv, LockInv, RobustScript, RobustCount, test.script # "bench-cell",
           NEW p \in Agents, AgentStep(p) \/ Die(p), Steps(p)
    PROVE  RobustCount'
<1>1. /\ test' = test /\ line' = line /\ Before' = Before /\ AgentTypes /\ test \in Tests
      /\ Control(p) /\ ag[p].rcved \in Nat /\ stats.msgCount \in Nat /\ Second \in Agents
      /\ LastWriter \in Agents /\ Second[1] = "reader" /\ LastWriter[1] = "writer"
  BY TypesAre, RobustCommand
     DEF Steps, scriptVars, Before, AgentInv, AgentTypes, AgentRecord, StatsRecord, Second,
         LastWriter
<1>2. /\ ~Passed(p) /\ ag[p].code = EC_SUCCESS
      /\ \/ p \in {Second, LastWriter} /\ ag[p].flavor = "LATENCY"
         \/ p # Second /\ ag[p].flavor \in {"ROBUST_READER", "ROBUST_WRITER"}
  <2>1. First # Second /\ <<"writer", 1, 1>> # Second
    BY DEF First, Second
  <2>2. ~Gone(p) /\ ~At(p, "none")
    BY DEF Steps, Alive, Gone, At
  <2>3. ~Passed(p) /\ ag[p].code = EC_SUCCESS
    BY <1>1, <2>2 DEF Passed, Control
  <2>4. \/ p \in {Second, LastWriter} /\ ag[p].flavor = "LATENCY"
        \/ p # Second /\ ag[p].flavor \in {"ROBUST_READER", "ROBUST_WRITER"}
    BY <2>1, <2>2 DEF RobustScript
  <2> QED
    BY <2>3, <2>4
<1>3. CASE p = Second
  <2>1. ag[p].flavor = "LATENCY" /\ stats.msgCount = 0
    BY <1>1, <1>2, <1>3 DEF RobustCount
  <2>2. ~(line > Before + 7)
    <3>1. ~(line > Before + 6)
      BY <1>2, <1>3 DEF RobustScript
    <3>2. line \in Nat /\ Before \in Nat
      BY TypesAre DEF Before
    <3> QED
      BY <3>1, <3>2
  <2>3. CASE Main(p)
    BY <1>1, <1>3, <2>1, <2>2, <2>3, EffectsAre DEF RobustCount, Passed, Gone, At
  <2>4. CASE ~Main(p)
    <3>1. ~Passed(p)'
      BY <1>1, <1>2, <2>1, <2>4, Effects, EffectsAre
         DEF Quiet, Passed, Gone, At, EC_SUCCESS, EC_READER_EXPIRED
    <3>2. stats'.msgCount = stats.msgCount
      BY <1>1, <2>1, <2>4, Effects, EffectsAre DEF Quiet, Counted
    <3> QED
      BY <1>1, <1>3, <2>1, <2>2, <3>1, <3>2 DEF RobustCount
  <2> QED
    BY <2>3, <2>4
<1>4. CASE p # Second
  <2>1. ag'[Second] = ag[Second]
    BY <1>1, <1>4 DEF Steps
  <2>2. stats'.msgCount = stats.msgCount
    <3>1. ag[p].flavor = "LATENCY" => ag[p].rcved = 0
      BY <1>1, <1>2, <1>4 DEF Control
    <3>2. Counted(p, ag[p].rcved + 1) = 0
      BY <1>2 DEF Counted
    <3> QED
      BY <1>1, <3>1, <3>2, Effects, EffectsAre DEF Quiet
  <2> QED
    BY <1>1, <2>1, <2>2 DEF RobustCount, Passed, Gone, At
<1> QED
  BY <1>3, <1>4

(* A reader before its loop goes as far as ReadMore, ...                   *)
LEMMA FirstStep ==
    ASSUME AgentTypes, test \in Tests, AgentInv, LockInv, NEW p \in Agents, p[1] = "reader",
           ag[p].pc \notin {"wait", "run", "blocked", "leave", "main"},
           AgentStep(p) \/ Die(p)
    PROVE  /\ ag[p].flavor = "ROBUST_READER" =>
                ag'[p].pc \notin {"wait", "run", "blocked", "leave", "main"}
           /\ Passed(p)' => ReadMore(p)
           /\ ~Inside(p) /\ ~Alloc(p) => ~Inside(p)' /\ ~At(p, "main")' /\ ~Passed(p)'
<1>1. /\ ag \in [Agents -> AgentRecord] /\ Control(p)
      /\ ag[p].pc \in Early \cup {"top", "exited"}
  BY DEF AgentTypes, AgentInv, Control, ReaderLabels
<1>2. \/ OpenSocket(p) \/ Alloc(p) \/ MakeConsistent(p) \/ LoadFreePos(p)
      \/ Activate(p) \/ CountReady(p) \/ ReadMore(p) \/ Die(p)
  BY <1>1, AgentCases
     DEF Early, At, WaitNotification, RunEnds, Expire, ReadMessage, Free, Lock, Scan,
         NotifyBackpressure, OnBackpressure, Write, Unlock, NotifyAtEnd, Main
<1>3. CASE OpenSocket(p)
  BY <1>1, <1>3, ToIs, ExitsIs
     DEF OpenSocket, At, Passed, Gone, Inside, Labels, EC_SUCCESS, Abort
<1>4. CASE Alloc(p)
  <2> DEFINE l == AfterLock(LockCode(info[ag[p].id].lock, Dead), "load")
  <2>1. /\ At(p, "alloc")
        /\ \/ ag' = [ag EXCEPT ![p].id = ag[p].id + 1]
           \/ Exits(p, Abort)
           \/ To(p, l)
    BY <1>4 DEF Alloc
  <2>2. l \in {"load", "consist", "aborted"} /\ l \in Labels
    BY DEF AfterLock, Labels
  <2> HIDE DEF l
  <2>3. CASE ag' = [ag EXCEPT ![p].id = ag[p].id + 1]
    BY <1>1, <1>4, <2>1, <2>3 DEF AgentRecord, At, Passed, Gone
  <2>4. CASE Exits(p, Abort)
    BY <1>1, <1>4, <2>4, ExitsIs DEF At, Passed, Gone, EC_SUCCESS, Abort
  <2>5. CASE To(p, l)
    BY <1>1, <1>4, <2>2, <2>5, ToIs DEF At, Passed, Gone
  <2> QED
    BY <2>1, <2>3, <2>4, <2>5
<1>5. CASE MakeConsistent(p)
  BY <1>1, <1>5, ToIs DEF MakeConsistent, At, Passed, Gone, Inside, Labels
<1>6. CASE LoadFreePos(p)
  BY <1>1, <1>6, EffectsAre DEF At, Passed, Gone, Inside
<1>7. CASE Activate(p)
  BY <1>1, <1>7, ToIs DEF Activate, At, Passed, Gone, Inside, Labels
<1>8. CASE CountReady(p)
  BY <1>1, <1>8, EffectsAre DEF At, Passed, Gone, Inside
<1>9. CASE ReadMore(p)
  <2>1. At(p, "top") /\ Inside(p)
    BY <1>9 DEF ReadMore, Inside, At
  <2> QED
    BY <1>1, <1>9, <2>1, ExitsIs DEF ReadMore, EC_SUCCESS
<1>10. CASE Die(p)
  BY <1>1, <1>10, ExitsIs DEF Die, At, Passed, Gone, Inside, EC_SUCCESS, Killed
<1> QED
  BY <1>2, <1>3, <1>4, <1>5, <1>6, <1>7, <1>8, <1>9, <1>10

(* ... and the lock of the one that ended there is recovered by whoever is *)
(* given the slot next.                                                    *)
LEMMA RecoveredStep ==
    ASSUME TypeOK, AgentInv, LockInv, RobustScript, RecoveredInv, test.script # "bench-cell",
           NEW p \in Agents, AgentStep(p) \/ Die(p), Steps(p)
    PROVE  RecoveredInv'
<1>1. test' = test
  BY DEF Steps, scriptVars
<1>2. SUFFICES ASSUME test.script = "robust-reader"
      PROVE  /\ ag'[First].pc \notin {"wait", "run", "blocked", "leave", "main"}
             /\ Passed(First)' => info'[1].lock.owner = First \/ "info" \in recovered'
             /\ Inside(Second)' \/ At(Second, "main")' \/ Passed(Second)' => "info" \in recovered'
  BY <1>1 DEF RecoveredInv
<1>3. /\ AgentTypes /\ test \in Tests /\ ag \in [Agents -> AgentRecord]
      /\ info \in [1 .. MaxSlots -> SlotRecord]
      /\ First \in Agents /\ Second \in Agents /\ First # Second
      /\ First[1] = "reader" /\ Second[1] = "reader"
  BY TypesAre, RobustCommand DEF AgentTypes, First, Second
<1>4. 1 \in 1 .. MaxSlots /\ \A q \in Agents : ag[q].id = 1
  <2>1. test.slots = 1 /\ MaxSlots \in Nat /\ 1 \in 1 .. MaxSlots
    BY <1>2, <1>3, TestIs, BurstAssumption
  <2> QED
    BY <1>3, <2>1 DEF AgentRecord, Slots
<1>5. /\ ag[First].pc \notin {"wait", "run", "blocked", "leave", "main"}
      /\ Passed(First) => info[1].lock.owner = First \/ "info" \in recovered
      /\ Inside(Second) \/ At(Second, "main") \/ Passed(Second) => "info" \in recovered
      /\ "info" \in recovered => "info" \in recovered'
      /\ line > 2 => Passed(First)
  BY <1>2 DEF RecoveredInv, Steps, RobustScript
<1>6. \A q \in Agents : q # p => ag'[q] = ag[q]
  BY DEF Steps
<1>7. \A q \in Agents : Inside(q) => info[1].lock.owner = q \/ q[1] = "writer"
  BY <1>4 DEF LockInv, Mutex
<1>8. ASSUME Alloc(p), info[1].lock.owner = First, Passed(First)
      PROVE  info'[1].lock.owner = First \/ "info" \in recovered'
  <2> DEFINE code == LockCode(info[1].lock, Dead)
  <2>1. CASE code = "EBUSY"
    BY <1>4, <1>8, <2>1 DEF Alloc
  <2>2. CASE code # "EBUSY"
    <3>1. info[1].lock \in Mutexes(Agents) /\ ~info[1].lock.lost /\ First # Nobody
      BY <1>3, <1>4, AgentsAre DEF SlotRecord, LockInv
    <3>2. code = "EOWNERDEAD"
      BY <1>8, <2>2, <3>1, Given
    <3> QED
      BY <1>4, <1>8, <3>2 DEF Alloc
  <2> QED
    BY <2>1, <2>2
<1>9. ag'[First].pc \notin {"wait", "run", "blocked", "leave", "main"}
  <2>1. CASE p = First
    <3>1. ag[p].flavor = "ROBUST_READER"
      BY <1>2, <2>1 DEF Steps, Alive, RobustScript
    <3> QED
      BY <1>3, <1>5, <2>1, <3>1, FirstStep
  <2> QED
    BY <1>3, <1>5, <1>6, <2>1
<1>10. Passed(First)' => info'[1].lock.owner = First \/ "info" \in recovered'
  <2>1. CASE p = First
    <3>1. ASSUME ReadMore(p)
          PROVE  info'[1].lock.owner = First
      BY <1>3, <1>7, <2>1, <3>1 DEF ReadMore, shmVars, Inside, At
    <3> QED
      BY <1>3, <1>5, <2>1, <3>1, FirstStep
  <2>2. CASE p # First
    <3>1. Passed(First)' => Passed(First)
      BY <1>3, <1>6, <2>2 DEF Passed, Gone, At
    <3>2. SUFFICES ASSUME Passed(First), info[1].lock.owner = First
          PROVE  info'[1].lock.owner = First \/ "info" \in recovered'
      BY <1>5, <3>1
    <3>3. CASE Alloc(p)
      BY <1>8, <3>2, <3>3
    <3>4. ~Free(p)
      <4>1. ASSUME Free(p)
            PROVE  FALSE
        <5>1. Inside(p) /\ p[1] = "reader"
          BY <4>1, AgentsAre DEF Free, At, Inside, AgentInv, Control, WriterLabels
        <5> QED
          BY <1>7, <2>2, <3>2, <5>1
      <4> QED
        BY <4>1
    <3>5. CASE ~Alloc(p)
      BY <1>3, <1>4, <3>2, <3>4, <3>5, OwnersAre
    <3> QED
      BY <3>3, <3>5
  <2> QED
    BY <2>1, <2>2
<1>11. Inside(Second)' \/ At(Second, "main")' \/ Passed(Second)' => "info" \in recovered'
  <2>1. CASE p # Second
    BY <1>3, <1>5, <1>6, <2>1 DEF Inside, At, Passed, Gone
  <2>2. CASE p = Second
    <3>1. SUFFICES ASSUME ~Inside(Second), ~At(Second, "main")
          PROVE  Inside(Second)' \/ At(Second, "main")' \/ Passed(Second)' => "info" \in recovered'
      BY <1>5
    <3>2. ag[p].pc \notin {"wait", "run", "blocked", "leave", "main"}
      BY <1>3, <2>2, <3>1 DEF Inside, At
    <3>3. CASE ~Alloc(p)
      BY <1>3, <2>2, <3>1, <3>2, <3>3, FirstStep
    <3>4. CASE Alloc(p)
      <4>1. line > 2
        <5>1. Before = 2 /\ ~At(Second, "none") /\ line \in Nat
          BY <1>2, <2>2, TypesAre DEF Before, Steps, Alive
        <5> QED
          BY <5>1 DEF RobustScript
      <4>2. SUFFICES ASSUME "info" \notin recovered'
            PROVE  ~Inside(Second)' /\ ~At(Second, "main")' /\ ~Passed(Second)'
        OBVIOUS
      <4> DEFINE code == LockCode(info[1].lock, Dead)
      <4>3. code = "EBUSY"
        <5>1. info[1].lock.owner = First
          BY <1>5, <4>1, <4>2
        <5>2. info[1].lock \in Mutexes(Agents) /\ ~info[1].lock.lost /\ First # Nobody
          BY <1>3, <1>4, AgentsAre DEF SlotRecord, LockInv
        <5>3. code = "EOWNERDEAD" => "info" \in recovered'
          BY <1>4, <3>4 DEF Alloc
        <5> QED
          BY <4>2, <5>1, <5>2, <5>3, Given
      <4>4. /\ At(p, "alloc")
            /\ ag' = [ag EXCEPT ![p].id = ag[p].id + 1] \/ Exits(p, Abort)
        BY <1>4, <3>4, <4>3 DEF Alloc
      <4>5. CASE ag' = [ag EXCEPT ![p].id = ag[p].id + 1]
        BY <1>3, <2>2, <4>4, <4>5 DEF AgentRecord, At, Passed, Gone, Inside
      <4>6. CASE Exits(p, Abort)
        BY <1>3, <2>2, <4>6, ExitsIs DEF At, Passed, Gone, Inside, EC_SUCCESS, Abort
      <4> QED
        BY <4>4, <4>5, <4>6
    <3> QED
      BY <3>3, <3>4
  <2> QED
    BY <2>1, <2>2
<1> QED
  BY <1>9, <1>10, <1>11

(* The three parts together.                                               *)
LEMMA RobustStep ==
    ASSUME TypeOK, AgentInv, LockInv, RobustInv, NEW p \in Agents, AgentStep(p) \/ Die(p)
    PROVE  RobustInv'
<1>1. Steps(p) /\ test' = test
  BY TypesAre, StepsAre DEF Steps, scriptVars, AgentTypes
<1> QED
  BY <1>1, RobustScriptStep, RobustCountStep, RecoveredStep DEF RobustInv

(* The step of an agent preserves the invariant.                           *)
LEMMA AgentsPreserve ==
    ASSUME BurstInv, NEW p \in Agents, AgentStep(p) \/ Die(p)
    PROVE  BurstInv'
<1>1. /\ TypeOK /\ AgentInv /\ LockInv /\ ExpiredInv /\ BenchInv /\ RobustInv /\ ExitInv
      /\ ScriptTypes /\ AgentTypes /\ SocketTypes /\ test \in Tests
  BY TypesAre DEF BurstInv
<1>2. Steps(p) /\ AgentTypes'
  BY <1>1, StepsAre, StepTypes DEF AgentTypes
<1>3. ScriptTypes' /\ ExitInv'
  BY <1>1, <1>2 DEF Steps, scriptVars, ScriptTypes, ExitInv
<1>4. TypeOK'
  <2>1. SocketTypes'
    BY <1>1, SocketStep DEF Next
  <2> QED
    BY <1>2, <1>3, <2>1
       DEF TypeOK, ScriptTypes, SocketTypes, AgentTypes, AgentRecord, SlotRecord, StatsRecord
<1>5. AgentInv' /\ LockInv'
  BY <1>1, ControlStep, LockStep
<1>6. ExpiredInv'
  BY <1>1, ExpiredStep
<1>7. BenchInv'
  BY <1>1, <1>4, BenchStep
<1>8. RobustInv'
  BY <1>1, RobustStep
<1> QED
  BY <1>3, <1>4, <1>5, <1>6, <1>7, <1>8 DEF BurstInv

------------------------------------------------------------------------------
(* The steps of the scripts.                                               *)

(* The lines of bench-cell.sh that start agents and wait for them.         *)
LEMMA LinesAre ==
    ASSUME TypeOK, NEW p \in Agents, p[2] <= Many(p)
    PROVE  /\ StartLine(p) \in Nat /\ WaitLine(p) \in Nat
           /\ StartLine(p) >= 1 /\ StartLine(p) # test.readers + 1
           /\ p[1] = "reader" => StartLine(p) <= test.readers
           /\ p[1] = "writer" => StartLine(p) > test.readers + 1
           /\ StartLine(p) <= test.readers + 1 + test.writers
           /\ WaitLine(p) > test.readers + 1 + test.writers /\ WaitLine(p) <= BodyLines - 2
           /\ \A q \in Agents : q[2] <= Many(q) /\ q[3] = p[3] =>
                /\ StartLine(q) = StartLine(p) => q = p
                /\ WaitLine(q) = WaitLine(p) => q = p
<1>1. /\ test \in Tests /\ test.readers \in Nat \ {0} /\ test.writers \in Nat \ {0}
  BY TypesAre, TestIs
<1>2. \A q \in Agents : /\ q[1] \in {"reader", "writer"} /\ q[2] \in Nat /\ q[2] >= 1
                        /\ q = <<q[1], q[2], q[3]>>
  BY <1>1, AgentsAre, TestIs
<1>3. ASSUME NEW q \in Agents, q[2] <= Many(q), q[3] = p[3]
      PROVE  /\ StartLine(q) = StartLine(p) => q = p
             /\ WaitLine(q) = WaitLine(p) => q = p
  <2>1. StartLine(q) = StartLine(p) => q[1] = p[1] /\ q[2] = p[2]
    BY <1>1, <1>2, <1>3 DEF StartLine, Many
  <2>2. WaitLine(q) = WaitLine(p) => q[1] = p[1] /\ q[2] = p[2]
    BY <1>1, <1>2, <1>3 DEF WaitLine, Many
  <2> QED
    BY <1>2, <1>3, <2>1, <2>2
<1> QED
  BY <1>1, <1>2, <1>3 DEF StartLine, WaitLine, Many, BodyLines

(* An agent that the script starts has not been started before.            *)
LEMMA Starts ==
    ASSUME TypeOK, BenchInv, RobustInv, StartAgent
    PROVE  /\ Command.p \in Agents /\ At(Command.p, "none") /\ Command.flavor \in Flavors
           /\ \A q \in Agents : q # Command.p => ag'[q] = ag[q]
           /\ ag'[Command.p] = [ag[Command.p] EXCEPT !.pc = "open", !.flavor = Command.flavor]
           /\ ag' \in [Agents -> AgentRecord]
           /\ line' = line + 1 /\ exit' = exit /\ iter' = iter /\ test' = test /\ named' = named
           /\ UNCHANGED shmVars
<1>1. /\ line' = line + 1 /\ exit' = exit /\ iter' = iter /\ test' = test /\ named' = named
      /\ UNCHANGED shmVars /\ Command.do = "start" /\ line <= Len(Script(test, iter))
      /\ ag' = [ag EXCEPT ![Command.p].pc = "open", ![Command.p].flavor = Command.flavor]
  BY DEF StartAgent, Returns, Next1
<1>2. test \in Tests /\ AgentTypes /\ line \in Nat /\ line >= 1
  BY TypesAre
<1>3. Command.p \in Agents /\ At(Command.p, "none") /\ Command.flavor \in Flavors
  <2>1. CASE test.script = "bench-cell"
    <3>1. /\ Command.p \in Agents /\ Command.p[3] = iter /\ Command.p[2] <= Many(Command.p)
          /\ line = StartLine(Command.p) /\ Command.flavor = test.flavor
      BY <1>1, <2>1, BenchCommand
    <3>2. Command.flavor \in Flavors
      BY <1>2, <2>1, <3>1, TestIs, BurstAssumption DEF Flavors
    <3> QED
      BY <1>2, <2>1, <3>1, <3>2 DEF BenchInv, BenchScript
  <2>2. CASE test.script # "bench-cell"
    <3>1. /\ First \in Agents /\ Second \in Agents /\ LastWriter \in Agents
          /\ <<"writer", 1, 1>> \in Agents /\ Command = RobustLine(line)
      BY <1>1, <2>2, RobustCommand
    <3>2. RobustScript /\ test.script \in {"robust-reader", "robust-writer"}
      BY <1>2, <2>2, BurstAssumption DEF RobustInv
    <3>3. Before = (IF test.script = "robust-reader" THEN 2 ELSE 4)
      BY DEF Before
    <3>4. Command.do = "start" /\ line \in Nat /\ line >= 1
      BY <1>1, <1>2
    <3>5. \/ line = 1 /\ Command.p = First
             /\ Command.flavor = (IF test.script = "robust-reader" THEN "ROBUST_READER"
                                  ELSE "ROBUST_WRITER")
          \/ line = 2 /\ test.script = "robust-writer" /\ Command.p = <<"writer", 1, 1>>
             /\ Command.flavor = "ROBUST_WRITER"
          \/ line = Before + 2 /\ Command.p = Second /\ Command.flavor = "LATENCY"
          \/ line = Before + 4 /\ Command.p = LastWriter /\ Command.flavor = "LATENCY"
      BY <3>1, <3>2, <3>3, <3>4 DEF RobustLine, Start, Wait, Kill, Cmp, Agent
    <3>6. Command.p \in Agents /\ Command.flavor \in Flavors
      BY <3>1, <3>5 DEF Flavors
    <3> QED
      BY <1>2, <3>2, <3>3, <3>5, <3>6 DEF RobustScript
  <2> QED
    BY <2>1, <2>2
<1>4. \A q \in Agents : q # Command.p => ag'[q] = ag[q]
  BY <1>1, <1>2, <1>3 DEF AgentTypes
<1>5. ag'[Command.p] = [ag[Command.p] EXCEPT !.pc = "open", !.flavor = Command.flavor]
  BY <1>1, <1>2, <1>3 DEF AgentTypes
<1>6. ag' \in [Agents -> AgentRecord]
  <2> DEFINE r == [ag[Command.p] EXCEPT !.pc = "open", !.flavor = Command.flavor]
  <2>1. ag' = [ag EXCEPT ![Command.p] = r]
    BY <1>1, <1>2, <1>3 DEF AgentTypes
  <2>2. \A a \in AgentRecord, f \in Flavors :
            [a EXCEPT !.pc = "open", !.flavor = f] \in AgentRecord
    BY DEF AgentRecord, Labels
  <2>3. r \in AgentRecord
    BY <1>2, <1>3, <2>2 DEF AgentTypes
  <2> HIDE DEF r
  <2> QED
    BY <1>2, <1>3, <2>1, <2>3 DEF AgentTypes
<1> QED
  BY <1>1, <1>3, <1>4, <1>5, <1>6

(* Only robust-writer.sh kills an agent, its first reader.                 *)
LEMMA Kills ==
    ASSUME TypeOK, RobustInv, KillAgent
    PROVE  /\ test.script = "robust-writer" /\ Before = 4 /\ line = 4 /\ Command.p = First
           /\ ~At(First, "none") /\ First \in Agents
           /\ iter' = iter /\ test' = test /\ named' = named /\ UNCHANGED shmVars
           /\ \/ Gone(First) /\ line' = line /\ exit' = 1 /\ ag' = ag
              \/ ~Gone(First) /\ line' = line + 1 /\ exit' = exit /\ Exits(First, Killed)
<1>1. Command.do = "kill" /\ line <= Len(Script(test, iter)) /\ test \in Tests /\ line \in Nat
  BY TypesAre DEF KillAgent, Next1
<1>2. test.script # "bench-cell"
  BY <1>1, BenchCommand
<1>3. First \in Agents /\ Command = RobustLine(line)
  BY <1>1, <1>2, RobustCommand
<1>4. RobustScript /\ test.script \in {"robust-reader", "robust-writer"}
  BY <1>1, <1>2, BurstAssumption DEF RobustInv
<1>5. test.script = "robust-writer" /\ Before = 4 /\ line = 4 /\ Command.p = First
  BY <1>1, <1>3, <1>4, TypesAre
     DEF RobustLine, Before, Start, Wait, Kill, Cmp, Agent
<1>6. ~At(First, "none")
  BY <1>4, <1>5 DEF RobustScript
<1> QED
  BY <1>3, <1>5, <1>6 DEF KillAgent, Returns, EC_SUCCESS

(* Everything but an agent started or killed leaves the agents alone.      *)
LEMMA ScriptCases ==
    ASSUME TypeOK, ScriptStep
    PROVE  /\ StartAgent \/ KillAgent \/ ag' = ag
           /\ test' = test /\ end' = end /\ writerMtx' = writerMtx /\ info' = info
           /\ recovered' = recovered
           /\ stats' = stats \/ (RunResetIter /\ stats' = [stats EXCEPT !.readersReady = 0])
           /\ named' \in BOOLEAN /\ exit' \in Int /\ exit = Running
           /\ exit' # EC_SUCCESS \/ ScriptDone
           /\ \/ line' = line /\ iter' = iter
              \/ line' = line + 1 /\ line <= Len(Script(test, iter)) /\ iter' = iter
              \/ Loop /\ line' = 1 /\ iter' = iter + 1 /\ iter < test.iterations
<1>1. /\ AgentTypes /\ named \in BOOLEAN /\ Running # EC_SUCCESS /\ Running \in Int
  BY TypesAre DEF ScriptTypes, Running, EC_SUCCESS
<1>2. \A p \in Agents : ag[p].code \in Int
  BY <1>1 DEF AgentTypes, AgentRecord, EC_SUCCESS, EC_READER_EXPIRED, Abort, Killed
<1>3. CASE StartAgent
  BY <1>1, <1>3 DEF StartAgent, Returns, Next1, shmVars
<1>4. CASE WaitAgent
  <2>1. Command.p \in Agents
    <3>1. Command.do = "wait" /\ line <= Len(Script(test, iter))
      BY <1>4 DEF WaitAgent, Next1
    <3>2. CASE test.script = "bench-cell"
      BY <3>1, <3>2, BenchCommand
    <3>3. CASE test.script # "bench-cell"
      BY <3>1, <3>3, RobustCommand DEF RobustLine, Start, Wait, Kill, Cmp, Agent
    <3> QED
      BY <3>2, <3>3
  <2> QED
    BY <1>1, <1>2, <1>4, <2>1 DEF WaitAgent, Returns, Next1, shmVars
<1>5. CASE KillAgent
  BY <1>1, <1>5 DEF KillAgent, Returns, Next1, shmVars, EC_SUCCESS
<1>6. CASE RunWaitReadersReady
  BY <1>1, <1>6 DEF RunWaitReadersReady, Returns, Next1, shmVars
<1>7. CASE RunResetIter
  BY <1>1, <1>7 DEF RunResetIter, Returns, Next1
<1>8. CASE Loop
  BY <1>1, <1>8 DEF Loop, Returns, Next1, shmVars
<1>9. CASE RunCmpReceivedMessages
  BY <1>1, <1>9 DEF RunCmpReceivedMessages, Returns, Next1, shmVars, EC_SUCCESS
<1>10. CASE Sleep
  BY <1>1, <1>10 DEF Sleep, Returns, Next1, shmVars
<1>11. CASE RunExpired
  <2>1. stats.expiredReaders % 256 \in Int
    BY <1>1 DEF AgentTypes, StatsRecord
  <2> QED
    BY <1>1, <1>11, <2>1 DEF RunExpired, Returns, Next1, shmVars
<1>12. CASE RunUnlink
  <2>1. named' \in BOOLEAN
    BY <1>12 DEF RunUnlink
  <2> QED
    BY <1>1, <1>12, <2>1 DEF RunUnlink, Returns, Next1, shmVars
<1>13. CASE ScriptDone
  BY <1>1, <1>13 DEF ScriptDone, shmVars, EC_SUCCESS
<1> QED
  BY <1>3, <1>4, <1>5, <1>6, <1>7, <1>8, <1>9, <1>10, <1>11, <1>12, <1>13 DEF ScriptStep

(* A script keeps the types.                                               *)
LEMMA ScriptTypesStep ==
    ASSUME TypeOK, BenchInv, RobustInv, ScriptStep
    PROVE  TypeOK'
<1>1. /\ AgentTypes /\ test \in Tests /\ iter \in 1 .. test.iterations
      /\ line \in 1 .. Len(Script(test, iter)) + 1 /\ line \in Nat /\ line >= 1
  BY TypesAre DEF ScriptTypes
<1>2. Len(Script(test, iter)) \in Nat
  <2>1. CASE test.script = "bench-cell"
    BY <1>1, <2>1, BenchCommand, TestIs DEF BodyLines
  <2>2. CASE test.script # "bench-cell"
    BY <1>1, <2>2, RobustCommand, TestIs DEF Before
  <2> QED
    BY <2>1, <2>2
<1>3. ScriptTypes'
  <2>1. test' = test /\ named' \in BOOLEAN /\ exit' \in Int
    BY ScriptCases
  <2>2. CASE line' = line /\ iter' = iter
    BY <1>1, <2>1, <2>2 DEF ScriptTypes
  <2>3. CASE line' = line + 1 /\ line <= Len(Script(test, iter)) /\ iter' = iter
    BY <1>1, <1>2, <2>1, <2>3 DEF ScriptTypes
  <2>4. CASE Loop /\ line' = 1 /\ iter' = iter + 1 /\ iter < test.iterations
    <3>1. test.script = "bench-cell"
      <4>1. Command.do = "loop" /\ line <= Len(Script(test, iter))
        BY <2>4 DEF Loop, Next1
      <4> QED
        BY <1>1, <4>1, RobustCommand DEF RobustLine, Start, Wait, Kill, Cmp, Agent
    <3>2. iter' \in 1 .. test.iterations
      BY <1>1, <2>4, TestIs
    <3>3. Script(test, iter') = BenchCell(test, iter')
      BY <3>1 DEF Script
    <3>4. Len(BenchCell(test, iter')) = 2 * test.readers + 2 * test.writers + 5
      BY <1>1, <3>1, <3>2, BenchLines
    <3>5. Len(Script(test, iter')) \in Nat
      BY <1>1, <3>3, <3>4, TestIs
    <3> QED
      BY <1>1, <2>1, <2>4, <3>2, <3>5 DEF ScriptTypes
  <2> QED
    BY <2>2, <2>3, <2>4, ScriptCases
<1>4. AgentTypes'
  <2>1. /\ end' \in Nat /\ writerMtx' \in Mutexes(Agents)
        /\ info' \in [1 .. MaxSlots -> SlotRecord] /\ recovered' \subseteq {"writerMtx", "info"}
        /\ test' = test /\ AgentRecord' = AgentRecord
    BY <1>1, ScriptCases DEF AgentTypes, AgentRecord, Slots
  <2>2. stats' \in StatsRecord
    <3>1. stats' = stats \/ stats' = [stats EXCEPT !.readersReady = 0]
      BY ScriptCases
    <3> QED
      BY <1>1, <3>1 DEF AgentTypes, StatsRecord
  <2>3. ag' \in [Agents -> AgentRecord]
    <3>1. CASE StartAgent
      BY <3>1, Starts
    <3>2. CASE KillAgent
      BY <1>1, <3>2, Kills, ExitsIs DEF AgentTypes
    <3>3. CASE ag' = ag
      BY <1>1, <3>3 DEF AgentTypes
    <3> QED
      BY <3>1, <3>2, <3>3, ScriptCases
  <2> QED
    BY <2>1, <2>2, <2>3 DEF AgentTypes
<1>5. SocketTypes'
  BY SocketStep, TypesAre DEF Next
<1> QED
  BY <1>3, <1>4, <1>5
     DEF TypeOK, ScriptTypes, SocketTypes, AgentTypes, AgentRecord, SlotRecord, StatsRecord

(* What is true of every agent, and of the locks, is kept by the scripts.  *)
LEMMA ScriptAgents ==
    ASSUME TypeOK, AgentInv, LockInv, ExpiredInv, BenchInv, RobustInv, ScriptStep
    PROVE  AgentInv' /\ LockInv' /\ ExpiredInv'
<1>1. /\ AgentTypes /\ test \in Tests /\ \A q \in Agents : ag[q].id \in 1 .. MaxSlots
      /\ All' = All
  <2>1. AgentTypes /\ test \in Tests /\ test' = test
    BY TypesAre, ScriptCases
  <2> QED
    BY <2>1, TestIs DEF AgentTypes, AgentRecord, Slots, All
<1>2. /\ test' = test /\ end' = end /\ writerMtx' = writerMtx /\ info' = info
      /\ stats'.expiredReaders = stats.expiredReaders
  <2>1. stats' = stats \/ stats' = [stats EXCEPT !.readersReady = 0]
    BY ScriptCases
  <2> QED
    BY <1>1, <2>1, ScriptCases DEF AgentTypes, StatsRecord
<1>3. CASE StartAgent
  <2>1. ag[Command.p] \in AgentRecord /\ Command.p \in Agents
    BY <1>1, <1>3, Starts DEF AgentTypes
  <2>2. /\ \A q \in Agents : q # Command.p => ag'[q] = ag[q]
        /\ At(Command.p, "none") /\ ag'[Command.p].pc = "open"
        /\ ag'[Command.p].code = ag[Command.p].code /\ ag'[Command.p].pos = ag[Command.p].pos
        /\ ag'[Command.p].rcved = ag[Command.p].rcved
        /\ ag'[Command.p].todo = ag[Command.p].todo /\ ag'[Command.p].id = ag[Command.p].id
    BY <1>3, <2>1, Starts DEF AgentRecord
  <2>3. ASSUME NEW q \in Agents
        PROVE  Control(q)'
    <3>1. CASE q = Command.p
      BY <1>2, <2>2, <3>1, <1>1
         DEF AgentInv, Control, At, Gone, Passed, ReaderLabels, WriterLabels, Early
    <3>2. CASE q # Command.p
      BY <1>1, <1>2, <2>2, <3>2 DEF AgentInv, Control, At, Gone, Passed
    <3> QED
      BY <3>1, <3>2
  <2>4. LockInv'
    <3>1. \A q \in Agents : Inside(q)' =>
            /\ Inside(q) /\ ag'[q].id = ag[q].id
            /\ (At(q, "consist") => At(q, "consist")')
      BY <2>2 DEF Inside, At
    <3> QED
      BY <1>1, <1>2, <3>1, LocksKept
  <2>5. ExpiredInv'
    BY <1>2, <2>2 DEF ExpiredInv
  <2> QED
    BY <2>3, <2>4, <2>5 DEF AgentInv
<1>4. CASE ag' = ag
  <2>1. AgentInv'
    BY <1>1, <1>2, <1>4 DEF AgentInv, Control, At, Gone, Passed
  <2>2. LockInv'
    BY <1>2, <1>4 DEF LockInv, Inside, Mutex, At
  <2>3. ExpiredInv'
    BY <1>2, <1>4 DEF ExpiredInv
  <2> QED
    BY <2>1, <2>2, <2>3
<1>5. CASE KillAgent /\ ag' # ag
  <2>1. First \in Agents /\ ~Gone(First) /\ Exits(First, Killed) /\ First[1] = "reader"
    BY <1>5, Kills DEF First
  <2>2. /\ \A q \in Agents : q # First => ag'[q] = ag[q]
        /\ ag'[First].pc = "exited" /\ ag'[First].code = Killed
        /\ ag'[First].pos = ag[First].pos
    BY <1>1, <2>1, ExitsIs DEF AgentTypes
  <2>3. ASSUME NEW q \in Agents
        PROVE  Control(q)'
    <3>1. CASE q = First
      BY <1>1, <1>2, <2>1, <2>2, <3>1
         DEF AgentInv, Control, At, Gone, Passed, ReaderLabels, Early, Killed, EC_SUCCESS
    <3>2. CASE q # First
      BY <1>1, <1>2, <2>2, <3>2 DEF AgentInv, Control, At, Gone, Passed
    <3> QED
      BY <3>1, <3>2
  <2>4. LockInv'
    <3>1. \A q \in Agents : Inside(q)' =>
            /\ Inside(q) /\ ag'[q].id = ag[q].id
            /\ (At(q, "consist") => At(q, "consist")')
      BY <2>1, <2>2 DEF Inside, At
    <3> QED
      BY <1>1, <1>2, <3>1, LocksKept
  <2>5. ExpiredInv'
    <3>1. ag[First].code = EC_SUCCESS
      BY <2>1 DEF AgentInv, Control
    <3> QED
      BY <1>2, <2>2, <3>1 DEF ExpiredInv, EC_SUCCESS, EC_READER_EXPIRED
  <2> QED
    BY <2>3, <2>4, <2>5 DEF AgentInv
<1> QED
  BY <1>3, <1>4, <1>5, ScriptCases

(* A script exits with 0 at its end.                                       *)
LEMMA ExitStep ==
    ASSUME TypeOK, ExitInv, ScriptStep
    PROVE  ExitInv'
<1>1. CASE ScriptDone
  BY <1>1 DEF ScriptDone, ExitInv
<1> QED
  BY <1>1, ScriptCases DEF ExitInv

(* The scripts that crash an agent.                                        *)
LEMMA RobustStarts ==
    ASSUME TypeOK, BenchInv, RobustInv, test.script # "bench-cell", StartAgent
    PROVE  RobustInv'
<1>1. /\ First \in Agents /\ Second \in Agents /\ LastWriter \in Agents
      /\ <<"writer", 1, 1>> \in Agents /\ Command = RobustLine(line)
      /\ Command.do = "start" /\ line <= Before + 8
  <2>1. Command.do = "start" /\ line <= Len(Script(test, iter))
    BY DEF StartAgent, Next1
  <2> QED
    BY <2>1, RobustCommand
<1>2. /\ RobustScript /\ RobustCount /\ RecoveredInv /\ line \in Nat /\ line >= 1
      /\ test.script \in {"robust-reader", "robust-writer"} /\ AgentTypes
  BY TypesAre, TestIs DEF RobustInv
<1>3. /\ test' = test /\ iter' = iter /\ line' = line + 1 /\ UNCHANGED shmVars
      /\ Before' = Before /\ LastWriter' = LastWriter
  BY Starts DEF Before, LastWriter
<1>4. /\ First # Second /\ First # LastWriter /\ Second # LastWriter
      /\ <<"writer", 1, 1>> # First /\ <<"writer", 1, 1>> # Second
      /\ test.script = "robust-writer" => <<"writer", 1, 1>> # LastWriter
      /\ Before = (IF test.script = "robust-reader" THEN 2 ELSE 4)
  BY DEF First, Second, LastWriter, Before
<1>5. /\ \/ line = 1 /\ Command.p = First
            /\ Command.flavor = (IF test.script = "robust-reader" THEN "ROBUST_READER"
                                 ELSE "ROBUST_WRITER")
         \/ line = 2 /\ test.script = "robust-writer" /\ Command.p = <<"writer", 1, 1>>
            /\ Command.flavor = "ROBUST_WRITER"
         \/ line = Before + 2 /\ Command.p = Second /\ Command.flavor = "LATENCY"
         \/ line = Before + 4 /\ Command.p = LastWriter /\ Command.flavor = "LATENCY"
  BY <1>1, <1>2, <1>4 DEF RobustLine, Start, Wait, Kill, Cmp, Agent
<1>6. /\ At(Command.p, "none") /\ ag'[Command.p].pc = "open"
      /\ ag'[Command.p].flavor = Command.flavor /\ ag'[Command.p].code = ag[Command.p].code
      /\ ag'[Command.p].rcved = ag[Command.p].rcved /\ Command.p \in Agents
      /\ \A q \in Agents : q # Command.p => ag'[q] = ag[q]
  <2>1. Command.p \in Agents /\ ag[Command.p] \in AgentRecord
    BY <1>2, Starts DEF AgentTypes
  <2> QED
    BY <2>1, Starts DEF AgentRecord
<1>7. \A q \in Agents : /\ At(q, "none")' <=> At(q, "none") /\ q # Command.p
                        /\ ag'[q].code = ag[q].code /\ ag'[q].rcved = ag[q].rcved
                        /\ Gone(q)' <=> Gone(q)
                        /\ Passed(q)' <=> Passed(q)
                        /\ ag'[q].flavor = (IF q = Command.p THEN Command.flavor ELSE ag[q].flavor)
  BY <1>6 DEF At, Gone, Passed
<1> HIDE DEF RobustLine
<1>8. RobustScript'
  <2>1. \A q \in Agents : ~At(q, "none")' =>
        \/ q = First /\ ag'[q].flavor \in {"ROBUST_READER", "ROBUST_WRITER"}
        \/ q \in {Second, LastWriter} /\ ag'[q].flavor = "LATENCY"
        \/ /\ q = <<"writer", 1, 1>> /\ test.script = "robust-writer"
           /\ ag'[q].flavor = "ROBUST_WRITER"
    BY <1>2, <1>4, <1>5, <1>7 DEF RobustScript
  <2>2. /\ At(First, "none")' <=> line + 1 <= 1
        /\ At(Second, "none")' <=> line + 1 <= Before + 2
        /\ At(LastWriter, "none")' <=> line + 1 <= Before + 4
    BY <1>1, <1>2, <1>3, <1>4, <1>5, <1>7 DEF RobustScript
  <2>3. /\ line + 1 > Before => ag'[First].code # EC_READER_EXPIRED /\ Gone(First)'
        /\ line + 1 > Before + 5 => Passed(LastWriter)'
        /\ line + 1 > Before + 6 => Passed(Second)'
    BY <1>1, <1>2, <1>4, <1>5, <1>7 DEF RobustScript
  <2>4. test.script = "robust-reader" =>
        /\ ~At(First, "none")' => ag'[First].flavor = "ROBUST_READER"
        /\ line + 1 > 2 => Passed(First)'
    BY <1>1, <1>2, <1>4, <1>5, <1>7 DEF RobustScript
  <2>5. test.script = "robust-writer" =>
        /\ At(<<"writer", 1, 1>>, "none")' <=> line + 1 <= 2
        /\ line + 1 > 3 => Passed(<<"writer", 1, 1>>)'
    BY <1>1, <1>2, <1>4, <1>5, <1>7 DEF RobustScript
  <2>6. iter' = 1
    BY <1>2, <1>3 DEF RobustScript
  <2> QED
    BY <1>3, <2>1, <2>2, <2>3, <2>4, <2>5, <2>6 DEF RobustScript
<1>9. RobustCount'
  <2>1. stats' = stats /\ (line + 1 > Before + 7 => line > Before + 7)
    BY <1>2, <1>3, <1>4, <1>5 DEF shmVars
  <2> QED
    BY <1>1, <1>2, <1>3, <1>7, <2>1 DEF RobustCount
<1>10. RecoveredInv'
  <2>1. info' = info /\ recovered' = recovered
    BY <1>3 DEF shmVars
  <2>2. ag'[First].pc \in {"open", ag[First].pc}
    BY <1>1, <1>6
  <2>3. Inside(Second)' \/ At(Second, "main")' => Inside(Second) \/ At(Second, "main")
    BY <1>1, <1>6 DEF Inside, At, Second
  <2> QED
    BY <1>1, <1>2, <1>3, <1>7, <2>1, <2>2, <2>3 DEF RecoveredInv
<1> QED
  BY <1>8, <1>9, <1>10 DEF RobustInv

(* kill ends the first reader of robust-writer.sh.                         *)
LEMMA RobustKills ==
    ASSUME TypeOK, RobustInv, test.script # "bench-cell", KillAgent, ag' # ag
    PROVE  RobustInv'
<1>1. /\ test.script = "robust-writer" /\ Before = 4 /\ line = 4 /\ First \in Agents
      /\ ~Gone(First) /\ line' = line + 1 /\ Exits(First, Killed)
      /\ ~At(First, "none") /\ test' = test /\ iter' = iter /\ UNCHANGED shmVars
      /\ Before' = Before /\ LastWriter' = LastWriter
  BY Kills DEF Before, LastWriter
<1>2. /\ RobustScript /\ RobustCount /\ AgentTypes /\ Second \in Agents /\ LastWriter \in Agents
      /\ <<"writer", 1, 1>> \in Agents
  BY <1>1, TypesAre, RobustCommand DEF RobustInv
<1>3. /\ First # Second /\ First # LastWriter /\ <<"writer", 1, 1>> # First
  BY DEF First, Second, LastWriter
<1>4. /\ \A q \in Agents : q # First => ag'[q] = ag[q]
      /\ ag'[First].pc = "exited" /\ ag'[First].code = Killed
      /\ ag'[First].flavor = ag[First].flavor
  BY <1>1, <1>2, ExitsIs DEF AgentTypes
<1>5. RobustScript'
  <2>1. \A q \in Agents : /\ At(q, "none")' <=> At(q, "none")
                          /\ ag'[q].flavor = ag[q].flavor
                          /\ q # First => (Passed(q)' <=> Passed(q))
    BY <1>1, <1>4 DEF At, Passed, Gone
  <2>2. ag'[First].code # EC_READER_EXPIRED /\ Gone(First)'
    BY <1>4 DEF Gone, At, Killed, EC_READER_EXPIRED
  <2> QED
    BY <1>1, <1>2, <1>3, <2>1, <2>2 DEF RobustScript
<1>6. RobustCount'
  BY <1>1, <1>2, <1>3, <1>4 DEF RobustCount, Passed, Gone, At, shmVars
<1>7. RecoveredInv'
  BY <1>1 DEF RecoveredInv
<1> QED
  BY <1>5, <1>6, <1>7 DEF RobustInv

(* A command after which the script goes on has done what it is for.       *)
LEMMA GoesOn ==
    ASSUME TypeOK, BenchInv, RobustInv, ScriptStep, ag' = ag, line' = line + 1, iter' = iter
    PROVE  /\ line <= Len(Script(test, iter)) /\ Command.do \notin {"start", "kill"}
           /\ Command.do = "wait" => Passed(Command.p)
           /\ Command.do = "waitreaders" => stats.readersReady >= test.readers
           /\ Command.do = "resetiter" => stats'.readersReady = 0
           /\ Command.do = "loop" => iter = test.iterations
           /\ Command.do = "cmprcved" => stats.msgCount = Command.n
           /\ stats'.msgCount = stats.msgCount
           /\ stats'.readersReady \in {0, stats.readersReady}
<1>1. /\ AgentTypes /\ line \in Nat /\ test \in Tests /\ iter \in 1 .. test.iterations
      /\ test.iterations \in Nat
  BY TypesAre, TestIs DEF ScriptTypes
<1>2. ~StartAgent
  <2>1. StartAgent => ag[Command.p].pc # ag'[Command.p].pc
    <3>1. ASSUME StartAgent
          PROVE  ag[Command.p].pc = "none" /\ ag'[Command.p].pc = "open"
      <4>1. Command.p \in Agents /\ ag[Command.p] \in AgentRecord
        BY <1>1, <3>1, Starts DEF AgentTypes
      <4> QED
        BY <3>1, <4>1, Starts DEF AgentRecord, At
    <3> QED
      BY <3>1
  <2> QED
    BY <2>1
<1>3. ~KillAgent
  <2>1. ASSUME KillAgent, ~Gone(First), Exits(First, Killed)
        PROVE  FALSE
    BY <1>1, <2>1, Kills, ExitsIs DEF AgentTypes, Gone, At
  <2> QED
    BY <1>1, <2>1, Kills
<1>4. line <= Len(Script(test, iter))
  BY <1>1, ScriptCases
<1>5. /\ stats'.msgCount = stats.msgCount /\ stats'.readersReady \in {0, stats.readersReady}
      /\ RunResetIter => stats'.readersReady = 0
  <2>1. stats' = stats \/ stats' = [stats EXCEPT !.readersReady = 0]
    BY ScriptCases
  <2>2. RunResetIter => stats' = [stats EXCEPT !.readersReady = 0]
    BY DEF RunResetIter
  <2> QED
    BY <1>1, <2>1, <2>2 DEF AgentTypes, StatsRecord
<1>6. CASE WaitAgent
  <2>1. Command.do = "wait" /\ Gone(Command.p) /\ ag[Command.p].code = EC_SUCCESS
    BY <1>1, <1>6 DEF WaitAgent, Next1, Returns
  <2> QED
    BY <1>4, <1>5, <2>1 DEF Passed
<1>7. CASE RunWaitReadersReady
  BY <1>4, <1>5, <1>7 DEF RunWaitReadersReady, Next1
<1>8. CASE RunResetIter
  BY <1>4, <1>5, <1>8 DEF RunResetIter, Next1
<1>9. CASE Loop
  <2>1. Command.do = "loop" /\ ~(iter < test.iterations)
    BY <1>1, <1>9 DEF Loop, Next1
  <2> QED
    BY <1>1, <1>4, <1>5, <2>1
<1>10. CASE RunCmpReceivedMessages
  <2>1. Command.do = "cmprcved" /\ stats.msgCount = Command.n
    BY <1>1, <1>10 DEF RunCmpReceivedMessages, Next1, Returns, EC_SUCCESS
  <2> QED
    BY <1>4, <1>5, <2>1
<1>11. CASE Sleep
  BY <1>4, <1>5, <1>11 DEF Sleep, Next1
<1>12. CASE RunExpired
  BY <1>4, <1>5, <1>12 DEF RunExpired, Next1
<1>13. CASE RunUnlink
  BY <1>4, <1>5, <1>13 DEF RunUnlink, Next1
<1>14. ~ScriptDone
  BY <1>1 DEF ScriptDone
<1> QED
  BY <1>2, <1>3, <1>6, <1>7, <1>8, <1>9, <1>10, <1>11, <1>12, <1>13, <1>14 DEF ScriptStep

(* So a robust script goes on, ...                                         *)
LEMMA RobustGoesOn ==
    ASSUME TypeOK, BenchInv, RobustInv, test.script # "bench-cell", ScriptStep, ag' = ag,
           line' = line + 1
    PROVE  RobustInv'
<1>1. /\ First \in Agents /\ Second \in Agents /\ LastWriter \in Agents
      /\ <<"writer", 1, 1>> \in Agents /\ line \in Nat /\ line >= 1
      /\ RobustScript /\ RobustCount /\ RecoveredInv
      /\ test.script \in {"robust-reader", "robust-writer"} /\ AgentTypes
      /\ Before = (IF test.script = "robust-reader" THEN 2 ELSE 4)
  BY RobustCommand, TypesAre, TestIs DEF RobustInv, Before
<1>2. /\ test' = test /\ info' = info /\ recovered' = recovered /\ iter' = iter
      /\ Before' = Before /\ LastWriter' = LastWriter /\ line <= Before + 8
      /\ Command = RobustLine(line)
  <2>1. line <= Len(Script(test, iter)) /\ iter' = iter
    BY <1>1, ScriptCases
  <2> QED
    BY <2>1, RobustCommand, ScriptCases DEF Before, LastWriter
<1>3. /\ RobustLine(line).do \notin {"start", "kill"}
      /\ RobustLine(line).do = "wait" => Passed(RobustLine(line).p)
      /\ RobustLine(line).do = "cmprcved" => stats.msgCount = RobustLine(line).n
      /\ stats'.msgCount = stats.msgCount
  BY <1>2, GoesOn
<1>4. /\ line # 1 /\ line # Before + 2 /\ line # Before + 4
      /\ test.script = "robust-writer" => line # 2 /\ line # 4
  BY <1>1, <1>3 DEF RobustLine, Start, Kill
<1>5. /\ test.script = "robust-reader" /\ line = 2 => Passed(First)
      /\ test.script = "robust-writer" /\ line = 3 => Passed(<<"writer", 1, 1>>)
      /\ line = Before + 5 => Passed(LastWriter)
      /\ line = Before + 6 => Passed(Second)
      /\ line = Before + 7 => stats.msgCount = test.messages
  BY <1>1, <1>3 DEF RobustLine, Wait, Cmp
<1>6. RobustScript'
  <2>1. \A q \in Agents : /\ At(q, "none")' <=> At(q, "none")
                          /\ ag'[q] = ag[q] /\ Gone(q)' <=> Gone(q)
                          /\ Passed(q)' <=> Passed(q)
    BY DEF At, Gone, Passed
  <2>2. Passed(First) => ag[First].code # EC_READER_EXPIRED /\ Gone(First)
    BY DEF Passed, EC_SUCCESS, EC_READER_EXPIRED
  <2>3. line + 1 > Before => ag[First].code # EC_READER_EXPIRED /\ Gone(First)
    BY <1>1, <1>4, <1>5, <2>2 DEF RobustScript
  <2>4. /\ line + 1 > Before + 5 => Passed(LastWriter)
        /\ line + 1 > Before + 6 => Passed(Second)
        /\ test.script = "robust-reader" /\ line + 1 > 2 => Passed(First)
        /\ test.script = "robust-writer" /\ line + 1 > 3 => Passed(<<"writer", 1, 1>>)
    BY <1>1, <1>4, <1>5 DEF RobustScript
  <2>5. /\ At(First, "none") <=> line + 1 <= 1
        /\ At(Second, "none") <=> line + 1 <= Before + 2
        /\ At(LastWriter, "none") <=> line + 1 <= Before + 4
        /\ test.script = "robust-writer" => (At(<<"writer", 1, 1>>, "none") <=> line + 1 <= 2)
    BY <1>1, <1>4 DEF RobustScript
  <2> QED
    BY <1>1, <1>2, <2>1, <2>3, <2>4, <2>5 DEF RobustScript
<1>7. RobustCount'
  <2>1. line + 1 > Before + 7 => stats.msgCount = test.messages
    BY <1>1, <1>5 DEF RobustCount
  <2> QED
    BY <1>1, <1>2, <1>3, <2>1 DEF RobustCount, Passed, Gone, At
<1>8. RecoveredInv'
  BY <1>1, <1>2 DEF RecoveredInv, Passed, Gone, At, Inside
<1> QED
  BY <1>6, <1>7, <1>8 DEF RobustInv

(* ... or stays where it is.                                               *)
LEMMA RobustScriptSteps ==
    ASSUME TypeOK, BenchInv, RobustInv, ScriptStep
    PROVE  RobustInv'
<1>1. /\ test' = test /\ info' = info /\ recovered' = recovered /\ AgentTypes
      /\ stats'.msgCount = stats.msgCount
  <2>1. stats' = stats \/ stats' = [stats EXCEPT !.readersReady = 0]
    BY ScriptCases
  <2> QED
    BY <2>1, TypesAre, ScriptCases DEF AgentTypes, StatsRecord
<1>2. SUFFICES ASSUME test.script # "bench-cell"
      PROVE  RobustInv'
  BY <1>1 DEF RobustInv
<1>3. CASE StartAgent
  BY <1>2, <1>3, RobustStarts
<1>4. CASE KillAgent /\ ag' # ag
  BY <1>2, <1>4, RobustKills
<1>5. CASE ag' = ag /\ line' = line + 1
  BY <1>2, <1>5, RobustGoesOn
<1>6. CASE ag' = ag /\ line' = line /\ iter' = iter
  BY <1>1, <1>6
     DEF RobustInv, RobustScript, RobustCount, RecoveredInv, Before, LastWriter, Passed, Gone,
         At, Inside
<1>7. CASE Loop
  <2>1. Command.do = "loop" /\ line <= Len(Script(test, iter))
    BY <1>7 DEF Loop, Next1
  <2> QED
    BY <1>2, <2>1, RobustCommand, TypesAre DEF RobustLine, Start, Wait, Kill, Cmp, Agent
<1> QED
  BY <1>3, <1>4, <1>5, <1>6, <1>7, ScriptCases

(* bench-cell.sh.                                                          *)
LEMMA BenchStarts ==
    ASSUME TypeOK, BenchInv, RobustInv, test.script = "bench-cell", StartAgent
    PROVE  BenchInv'
<1>1. /\ BenchScript /\ BarrierInv /\ StreamInv /\ OwnInv /\ CountInv
      /\ test \in Tests /\ AgentTypes /\ line \in Nat /\ line >= 1
      /\ test.readers \in Nat \ {0} /\ test.writers \in Nat \ {0}
  BY TypesAre, TestIs DEF BenchInv
<1>2. /\ Command.p \in Agents /\ Command.p[3] = iter /\ Command.p[2] <= Many(Command.p)
      /\ line = StartLine(Command.p) /\ Command.flavor = test.flavor
  <2>1. Command.do = "start" /\ line <= Len(Script(test, iter))
    BY DEF StartAgent, Next1
  <2> QED
    BY <2>1, BenchCommand
<1>3. /\ test' = test /\ iter' = iter /\ line' = line + 1 /\ end' = end /\ stats' = stats
      /\ BodyLines' = BodyLines /\ All' = All
  BY Starts DEF shmVars, BodyLines, All
<1>4. /\ At(Command.p, "none") /\ ag'[Command.p].pc = "open"
      /\ ag'[Command.p].flavor = Command.flavor /\ ag'[Command.p].code = ag[Command.p].code
      /\ ag'[Command.p].rcved = ag[Command.p].rcved /\ ag'[Command.p].pos = ag[Command.p].pos
      /\ ag'[Command.p].todo = ag[Command.p].todo
      /\ \A q \in Agents : q # Command.p => ag'[q] = ag[q]
  <2>1. ag[Command.p] \in AgentRecord
    BY <1>1, <1>2 DEF AgentTypes
  <2> QED
    BY <2>1, Starts DEF AgentRecord
<1>5. \A q \in Agents : /\ At(q, "none")' <=> At(q, "none") /\ q # Command.p
                        /\ ag'[q].code = ag[q].code /\ ag'[q].rcved = ag[q].rcved
                        /\ ag'[q].pos = ag[q].pos /\ ag'[q].todo = ag[q].todo
                        /\ ag'[q].pc \in Early <=> ag[q].pc \in Early
                        /\ Passed(q)' <=> Passed(q)
                        /\ Reading(q)' <=> Reading(q)
                        /\ ag'[q].flavor = (IF q = Command.p THEN test.flavor ELSE ag[q].flavor)
  BY <1>2, <1>4 DEF At, Gone, Passed, Reading, Early
<1>6. /\ StartLine(Command.p) <= test.readers + 1 + test.writers
      /\ Command.p[1] = "reader" => line <= test.readers
      /\ line # test.readers + 1 /\ line + 1 < BodyLines - 1
  <2>1. BodyLines = 2 * test.readers + 2 * test.writers + 3
    BY DEF BodyLines
  <2> QED
    BY <1>1, <1>2, <2>1, LinesAre
<1>7. BenchScript'
  <2>1. ASSUME NEW q \in Agents
        PROVE  /\ q[2] > Many(q) \/ q[3] > iter => At(q, "none")'
               /\ q[2] <= Many(q) /\ q[3] = iter => (At(q, "none")' <=> line + 1 <= StartLine(q))
               /\ q[2] <= Many(q) /\ (q[3] < iter \/ (q[3] = iter /\ line + 1 > WaitLine(q))) =>
                    Passed(q)'
               /\ ~At(q, "none")' => ag'[q].flavor = test.flavor
    <3>1. /\ q[2] > Many(q) \/ q[3] > iter => At(q, "none")
          /\ q[2] <= Many(q) /\ q[3] = iter => (At(q, "none") <=> line <= StartLine(q))
          /\ q[2] <= Many(q) /\ (q[3] < iter \/ (q[3] = iter /\ line > WaitLine(q))) => Passed(q)
          /\ ~At(q, "none") => ag[q].flavor = test.flavor
      BY <1>1 DEF BenchScript
    <3>2. /\ q[2] \in Nat /\ q[3] \in Nat /\ Many(q) \in Nat /\ iter \in Nat
      BY <1>1, AgentsAre, TypesAre, TestIs DEF Many
    <3>3. q[2] > Many(q) \/ q[3] > iter => q # Command.p
      BY <1>2, <3>2
    <3>4. q[2] <= Many(q) /\ q[3] = iter =>
            /\ StartLine(q) = line <=> q = Command.p
            /\ StartLine(q) \in Nat /\ WaitLine(q) \in Nat /\ WaitLine(q) >= line + 1
      BY <1>1, <1>2, <1>6, LinesAre
    <3>5. q[2] <= Many(q) /\ q[3] = iter => (At(q, "none")' <=> line + 1 <= StartLine(q))
      BY <1>1, <1>5, <3>1, <3>4
    <3>6. q[2] <= Many(q) /\ (q[3] < iter \/ (q[3] = iter /\ line + 1 > WaitLine(q))) => Passed(q)'
      BY <1>1, <1>5, <3>1, <3>4
    <3> QED
      BY <1>5, <3>1, <3>3, <3>5, <3>6
  <2> QED
    BY <1>3, <2>1 DEF BenchScript, Many, StartLine, WaitLine
<1>8. BarrierInv'
  <2>1. \A a \in 1 .. test.readers :
            ag'[<<"reader", a, iter>>].pc \in Early <=> ag[<<"reader", a, iter>>].pc \in Early
    BY <1>5, PresentAre
  <2>2. Counted1' = Counted1
    BY <1>3, <2>1 DEF Counted1
  <2>3. line + 1 > test.readers + 1 => line > test.readers + 1
    BY <1>1, <1>6
  <2>4. ~(line + 1 >= BodyLines)
    <3>1. BodyLines \in Nat
      BY <1>1 DEF BodyLines
    <3> QED
      BY <1>1, <1>6, <3>1
  <2> QED
    BY <1>1, <1>3, <2>1, <2>2, <2>3, <2>4 DEF BarrierInv
<1>9. StreamInv'
  <2>1. \A a \in 1 .. test.writers :
            ag'[<<"writer", a, iter>>].todo = ag[<<"writer", a, iter>>].todo
    BY <1>5, PresentAre
  <2>2. Written' = Written
    BY <1>3, <2>1 DEF Written
  <2> QED
    BY <1>1, <1>3, <2>2 DEF StreamInv
<1>10. OwnInv'
  BY <1>1, <1>3, <1>5 DEF OwnInv
<1>11. CountInv'
  <2>1. \A a \in 1 .. test.readers :
            HasAdded(<<"reader", a, iter>>)' <=> HasAdded(<<"reader", a, iter>>)
    BY <1>3, <1>5, PresentAre DEF HasAdded
  <2>2. Added' = Added
    BY <1>3, <2>1 DEF Added
  <2> QED
    BY <1>1, <1>3, <2>2 DEF CountInv
<1>12. ~(line + 1 > BodyLines)
  <2>1. BodyLines \in Nat
    BY <1>1 DEF BodyLines
  <2> QED
    BY <1>1, <1>6, <2>1
<1> QED
  BY <1>3, <1>7, <1>8, <1>9, <1>10, <1>11, <1>12 DEF BenchInv

(* From one line of an iteration to the next.                              *)
LEMMA BenchGoesOn ==
    ASSUME TypeOK, BenchInv, RobustInv, test.script = "bench-cell", ScriptStep, ag' = ag,
           line' = line + 1, iter' = iter
    PROVE  BenchInv'
<1>1. /\ BenchScript /\ BarrierInv /\ StreamInv /\ OwnInv /\ CountInv
      /\ line > BodyLines => iter = test.iterations
      /\ test \in Tests /\ AgentTypes /\ line \in Nat /\ line >= 1
      /\ test.readers \in Nat \ {0} /\ test.writers \in Nat \ {0}
      /\ BodyLines \in Nat /\ BodyLines = 2 * test.readers + 2 * test.writers + 3
  BY TypesAre, TestIs DEF BenchInv, BodyLines
<1>2. /\ Command.do \in {"wait", "waitreaders", "resetiter", "loop", "expired", "unlink"}
      /\ Command.do = "wait" =>
            /\ Command.p \in Agents /\ Command.p[3] = iter /\ Command.p[2] <= Many(Command.p)
            /\ line = WaitLine(Command.p) /\ Passed(Command.p)
      /\ Command.do = "waitreaders" =>
            line = test.readers + 1 /\ stats.readersReady >= test.readers
      /\ Command.do = "resetiter" => line = BodyLines - 1 /\ stats'.readersReady = 0
      /\ Command.do = "loop" => line = BodyLines /\ iter = test.iterations
      /\ Command.do \in {"expired", "unlink"} => line > BodyLines
      /\ stats'.msgCount = stats.msgCount /\ stats'.readersReady \in {0, stats.readersReady}
  BY GoesOn, BenchCommand
<1>3. test' = test /\ end' = end /\ BodyLines' = BodyLines /\ All' = All
  BY ScriptCases DEF BodyLines, All
<1>4. \A q \in Agents : /\ At(q, "none")' <=> At(q, "none")
                        /\ ag'[q] = ag[q]
                        /\ Passed(q)' <=> Passed(q)
                        /\ Reading(q)' <=> Reading(q)
  BY DEF At, Passed, Gone, Reading
<1>5. BenchScript'
  <2>1. ASSUME NEW q \in Agents, q[2] <= Many(q), q[3] = iter
        PROVE  /\ line # StartLine(q)
               /\ line = WaitLine(q) => Passed(q)
    <3>1. Command.do = "wait" => /\ WaitLine(Command.p) > test.readers + 1 + test.writers
                                 /\ WaitLine(q) = WaitLine(Command.p) => q = Command.p
      BY <1>2, <2>1, LinesAre
    <3> QED
      BY <1>1, <1>2, <2>1, <3>1, LinesAre
  <2>2. ASSUME NEW q \in Agents
        PROVE  /\ q[2] > Many(q) \/ q[3] > iter => At(q, "none")'
               /\ q[2] <= Many(q) /\ q[3] = iter => (At(q, "none")' <=> line + 1 <= StartLine(q))
               /\ q[2] <= Many(q) /\ (q[3] < iter \/ (q[3] = iter /\ line + 1 > WaitLine(q))) =>
                    Passed(q)'
               /\ ~At(q, "none")' => ag'[q].flavor = test.flavor
    <3>1. /\ q[2] > Many(q) \/ q[3] > iter => At(q, "none")
          /\ q[2] <= Many(q) /\ q[3] = iter => (At(q, "none") <=> line <= StartLine(q))
          /\ q[2] <= Many(q) /\ (q[3] < iter \/ (q[3] = iter /\ line > WaitLine(q))) => Passed(q)
          /\ ~At(q, "none") => ag[q].flavor = test.flavor
      BY <1>1 DEF BenchScript
    <3>2. q[2] <= Many(q) => StartLine(q) \in Nat /\ WaitLine(q) \in Nat
      BY LinesAre
    <3>3. q[2] <= Many(q) /\ q[3] = iter => (At(q, "none")' <=> line + 1 <= StartLine(q))
      BY <1>1, <1>4, <2>1, <3>1, <3>2
    <3>4. q[2] <= Many(q) /\ (q[3] < iter \/ (q[3] = iter /\ line + 1 > WaitLine(q))) => Passed(q)'
      BY <1>1, <1>4, <2>1, <3>1, <3>2
    <3> QED
      BY <1>4, <3>1, <3>3, <3>4
  <2> QED
    BY <1>3, <2>2 DEF BenchScript, Many, StartLine, WaitLine
<1>6. BarrierInv'
  <2>1. Counted1' = Counted1 /\ Counted1 \subseteq 1 .. test.readers
    BY <1>3 DEF Counted1
  <2>2. /\ Cardinality(Counted1) \in Nat /\ Cardinality(Counted1) <= test.readers
        /\ Cardinality(Counted1) = test.readers => Counted1 = 1 .. test.readers
        /\ stats.readersReady \in Nat /\ stats.readersReady <= Cardinality(Counted1)
    BY <1>1, <2>1, NumbersAre DEF AgentTypes, StatsRecord, BarrierInv
  <2>3. line + 1 >= BodyLines => stats'.readersReady = 0
    <3>1. Command.do = "wait" => WaitLine(Command.p) <= BodyLines - 2 /\ WaitLine(Command.p) \in Nat
      BY <1>2, LinesAre
    <3>2. line >= BodyLines => stats.readersReady = 0
      BY <1>1 DEF BarrierInv
    <3>3. line = BodyLines - 1 => Command.do = "resetiter"
      BY <1>1, <1>2, <3>1
    <3> QED
      BY <1>1, <1>2, <3>2, <3>3
  <2>4. line + 1 > test.readers + 1 =>
            \A a \in 1 .. test.readers : ag[<<"reader", a, iter>>].pc \notin Early
    <3>1. CASE line > test.readers + 1
      BY <1>1, <3>1 DEF BarrierInv
    <3>2. CASE line = test.readers + 1
      <4>1. stats.readersReady >= test.readers
        <5>1. Command.do = "wait" => WaitLine(Command.p) > test.readers + 1 + test.writers
          BY <1>2, LinesAre
        <5> QED
          BY <1>1, <1>2, <3>2, <5>1
      <4>2. Counted1 = 1 .. test.readers
        BY <1>1, <2>2, <4>1
      <4> QED
        BY <4>2 DEF Counted1
    <3> QED
      BY <1>1, <3>1, <3>2
  <2>5. stats'.readersReady <= Cardinality(Counted1)
    BY <1>2, <2>2
  <2> QED
    BY <1>3, <2>1, <2>3, <2>4, <2>5 DEF BarrierInv
<1>7. StreamInv' /\ OwnInv' /\ CountInv'
  <2>1. Written' = Written /\ Added' = Added
    BY <1>3 DEF Written, Added, HasAdded, Passed, Gone, At
  <2> QED
    BY <1>1, <1>2, <1>3, <1>4, <2>1 DEF StreamInv, OwnInv, CountInv
<1>8. line + 1 > BodyLines => iter = test.iterations
  <2>1. line = BodyLines => iter = test.iterations
    <3>1. Command.do = "wait" => WaitLine(Command.p) <= BodyLines - 2 /\ WaitLine(Command.p) \in Nat
      BY <1>2, LinesAre
    <3> QED
      BY <1>1, <1>2, <3>1
  <2> QED
    BY <1>1, <2>1
<1> QED
  BY <1>3, <1>5, <1>6, <1>7, <1>8 DEF BenchInv

(* At the end of an iteration everything is written, and counted.          *)
LEMMA AllDone ==
    ASSUME TypeOK, AgentInv, BenchInv, test.script = "bench-cell", line >= BodyLines
    PROVE  /\ \A q \in Agents : q[2] <= Many(q) /\ q[3] <= iter => Passed(q)
           /\ Cardinality(Written) = All
           /\ Added = 1 .. test.readers
           /\ end = All * (iter - 1) + All
           /\ All > 1 \/ test.flavor = "LATENCY" =>
                stats.msgCount = test.readers * All * (iter - 1) + All * test.readers
<1>1. /\ BenchScript /\ StreamInv /\ OwnInv /\ CountInv /\ test \in Tests
      /\ test.readers \in Nat \ {0} /\ test.writers \in Nat \ {0} /\ test.messages \in Nat \ {0}
      /\ line \in Nat /\ iter \in Nat /\ BodyLines \in Nat
      /\ test.flavor \in {"FIRST_LAST_DURATION", "LATENCY"} /\ All = test.messages * test.writers
  BY TypesAre, TestIs DEF BenchInv, BodyLines, All
<1>2. \A q \in Agents : q[2] <= Many(q) /\ q[3] <= iter => Passed(q)
  <2>1. ASSUME NEW q \in Agents, q[2] <= Many(q), q[3] <= iter
        PROVE  Passed(q)
    <3>1. WaitLine(q) \in Nat /\ WaitLine(q) <= BodyLines - 2 /\ q[3] \in Nat
      BY <1>1, <2>1, LinesAre, AgentsAre, TestIs
    <3>2. q[3] < iter \/ (q[3] = iter /\ line > WaitLine(q))
      BY <1>1, <2>1, <3>1
    <3> QED
      BY <1>1, <2>1, <3>2 DEF BenchScript
  <2> QED
    BY <2>1
<1>3. Written = (1 .. test.writers) \X (1 .. test.messages)
  <2>1. \A a \in 1 .. test.writers : ag[<<"writer", a, iter>>].todo = 0
    <3>1. ASSUME NEW a \in 1 .. test.writers
          PROVE  ag[<<"writer", a, iter>>].todo = 0
      <4> DEFINE q == <<"writer", a, iter>>
      <4>1. q \in Agents /\ q[1] = "writer" /\ q[2] = a /\ q[3] = iter
        BY PresentAre
      <4>2. q[2] <= Many(q)
        BY <1>1, <4>1 DEF Many
      <4>3. Passed(q) /\ Control(q)
        BY <1>1, <1>2, <4>1, <4>2 DEF AgentInv
      <4>4. ag[q].flavor = test.flavor
        BY <1>1, <4>1, <4>3 DEF BenchScript, Passed, Gone, At
      <4> HIDE DEF q
      <4> QED
        BY <1>1, <4>1, <4>3, <4>4 DEF Control, q
    <3> QED
      BY <3>1
  <2> QED
    BY <1>1, <2>1 DEF Written
<1>4. Cardinality(Written) = All
  BY <1>1, <1>3, PairsAre
<1>5. Added = 1 .. test.readers
  <2>1. ASSUME NEW a \in 1 .. test.readers
        PROVE  HasAdded(<<"reader", a, iter>>)
    <3> DEFINE q == <<"reader", a, iter>>
    <3>1. q \in Agents /\ q[1] = "reader" /\ q[2] = a /\ q[3] = iter
      BY PresentAre
    <3>2. q[2] <= Many(q)
      BY <1>1, <3>1 DEF Many
    <3>3. Passed(q) /\ Control(q)
      BY <1>1, <1>2, <3>1, <3>2 DEF AgentInv
    <3>4. ag[q].flavor = test.flavor /\ ag[q].rcved \in Nat
      BY <1>1, <3>1, <3>3, TypesAre DEF BenchScript, Passed, Gone, At, AgentTypes, AgentRecord
    <3> HIDE DEF q
    <3>5. ag[q].rcved >= All
      BY <1>1, <3>1, <3>3, <3>4 DEF Control
    <3>6. ag[q].rcved <= All
      BY <1>1, <3>1, <3>3 DEF OwnInv, Reading, Passed, Gone, At, EC_SUCCESS, Abort, Killed
    <3>7. ag[q].rcved = All
      BY <1>1, <3>4, <3>5, <3>6
    <3>8. HasAdded(q)
      BY <3>3, <3>7 DEF HasAdded
    <3> QED
      BY <3>8 DEF q
  <2> QED
    BY <2>1 DEF Added
<1>6. Cardinality(Added) = test.readers
  BY <1>1, <1>5, NumbersAre
<1> QED
  BY <1>1, <1>2, <1>4, <1>5, <1>6 DEF StreamInv, CountInv

(* The next iteration begins where this one has ended.                     *)
LEMMA BenchLoops ==
    ASSUME TypeOK, TypeOK', AgentInv, BenchInv, test.script = "bench-cell", Loop,
           line' = 1, iter' = iter + 1, iter < test.iterations
    PROVE  BenchInv'
<1>1. /\ BenchScript /\ BarrierInv /\ StreamInv /\ OwnInv /\ CountInv
      /\ test \in Tests /\ AgentTypes /\ line \in Nat /\ iter \in Nat /\ iter >= 1
      /\ test.readers \in Nat \ {0} /\ test.writers \in Nat \ {0} /\ test.messages \in Nat \ {0}
      /\ BodyLines \in Nat /\ BodyLines > 1 /\ All \in Nat /\ All > 0
  <2>1. /\ test.readers \in Nat \ {0} /\ test.writers \in Nat \ {0} /\ test.messages \in Nat \ {0}
    BY TypesAre, TestIs
  <2>2. All \in Nat /\ All > 0
    BY <2>1 DEF All
  <2> QED
    BY <2>1, <2>2, TypesAre DEF BenchInv, BodyLines
<1>2. line = BodyLines
  <2>1. Command.do = "loop" /\ line <= Len(Script(test, iter))
    BY DEF Loop, Next1
  <2> QED
    BY <2>1, BenchCommand
<1>3. /\ test' = test /\ ag' = ag /\ end' = end /\ stats' = stats /\ BodyLines' = BodyLines
      /\ All' = All
  BY DEF Loop, shmVars, BodyLines, All
<1>4. /\ \A q \in Agents : q[2] <= Many(q) /\ q[3] <= iter => Passed(q)
      /\ end = All * (iter - 1) + All
      /\ All > 1 \/ test.flavor = "LATENCY" =>
            stats.msgCount = test.readers * All * (iter - 1) + All * test.readers
  BY <1>1, <1>2, AllDone
<1>5. \A q \in Agents : /\ q[2] \in Nat /\ q[3] \in Nat /\ Many(q) \in Nat
                        /\ q[3] > iter => At(q, "none")
  BY <1>1, AgentsAre, TestIs DEF BenchScript, Many
<1>6. BenchScript'
  <2>1. ASSUME NEW q \in Agents
        PROVE  /\ q[2] > Many(q) \/ q[3] > iter + 1 => At(q, "none")'
               /\ q[2] <= Many(q) /\ q[3] = iter + 1 => (At(q, "none")' <=> 1 <= StartLine(q))
               /\ q[2] <= Many(q) /\ (q[3] < iter + 1 \/ (q[3] = iter + 1 /\ 1 > WaitLine(q))) =>
                    Passed(q)'
               /\ ~At(q, "none")' => ag'[q].flavor = test.flavor
    <3>1. /\ q[2] > Many(q) => At(q, "none")
          /\ ~At(q, "none") => ag[q].flavor = test.flavor
      BY <1>1 DEF BenchScript
    <3>2. (At(q, "none")' <=> At(q, "none")) /\ (Passed(q)' <=> Passed(q)) /\ ag'[q] = ag[q]
      BY <1>3 DEF At, Passed, Gone
    <3>3. q[2] <= Many(q) => /\ StartLine(q) >= 1 /\ WaitLine(q) > test.readers + 1 + test.writers
                             /\ WaitLine(q) \in Nat
      BY LinesAre
    <3>4. q[3] > iter + 1 \/ q[3] = iter + 1 => q[3] > iter
      BY <1>1, <1>5
    <3>5. q[3] < iter + 1 => q[3] <= iter
      BY <1>1, <1>5
    <3>6. q[2] <= Many(q) => ~(1 > WaitLine(q))
      BY <1>1, <3>3
    <3> QED
      BY <1>4, <1>5, <3>1, <3>2, <3>3, <3>4, <3>5, <3>6
  <2> QED
    BY <1>3, <2>1 DEF BenchScript, Many, StartLine, WaitLine
<1>7. /\ \A a \in 1 .. test.readers : At(<<"reader", a, iter + 1>>, "none")
      /\ \A a \in 1 .. test.writers : At(<<"writer", a, iter + 1>>, "none")
  <2>1. iter + 1 \in 1 .. MaxIterations
    BY <1>1, TypesAre, TestIs
  <2>2. ASSUME NEW k \in {"reader", "writer"}, NEW a \in 1 .. MaxAgents
        PROVE  At(<<k, a, iter + 1>>, "none")
    <3>1. <<k, a, iter + 1>> \in Agents /\ <<k, a, iter + 1>>[3] = iter + 1
      BY <2>1, AgentsAre
    <3> QED
      BY <1>1, <1>5, <3>1
  <2>3. 1 .. test.readers \subseteq 1 .. MaxAgents /\ 1 .. test.writers \subseteq 1 .. MaxAgents
    BY <1>1, TestIs
  <2> QED
    BY <2>2, <2>3
<1>8. BarrierInv'
  <2>1. Counted1' \subseteq 1 .. test.readers
    BY <1>3 DEF Counted1
  <2>2. Cardinality(Counted1') \in Nat
    BY <1>1, <2>1, NumbersAre
  <2>3. stats.readersReady = 0
    BY <1>1, <1>2 DEF BarrierInv
  <2> QED
    BY <1>1, <1>3, <2>2, <2>3 DEF BarrierInv
<1>9. StreamInv'
  <2>1. Written' = {}
    <3>1. ASSUME NEW a \in 1 .. test.writers
          PROVE  ag[<<"writer", a, iter + 1>>].todo = test.messages
      <4> DEFINE q == <<"writer", a, iter + 1>>
      <4>1. At(q, "none") /\ q[1] = "writer"
        BY <1>7
      <4>2. q \in Agents
        <5>1. a \in 1 .. MaxAgents /\ iter + 1 \in 1 .. MaxIterations
          BY <1>1, TypesAre, TestIs
        <5> QED
          BY <5>1, AgentsAre
      <4> HIDE DEF q
      <4>3. ag[q].todo = test.messages
        BY <4>1, <4>2 DEF AgentInv, Control, At
      <4> QED
        BY <4>3 DEF q
    <3>2. \A x \in (1 .. test.writers) \X (1 .. test.messages) :
            ~(x[2] > ag[<<"writer", x[1], iter + 1>>].todo)
      BY <1>1, <3>1
    <3> QED
      BY <1>3, <3>2 DEF Written
  <2>2. Cardinality(Written') = 0
    BY <2>1, FS_EmptySet
  <2>3. All * (iter - 1) + All = All * (iter + 1 - 1) + 0
    BY <1>1
  <2>4. All' * (iter' - 1) + Cardinality(Written') = All * (iter + 1 - 1) + 0
    BY <1>1, <1>3, <2>2, SMT
  <2>5. end' = All' * (iter' - 1) + Cardinality(Written')
    BY <1>3, <1>4, <2>3, <2>4, Zenon
  <2> QED
    BY <2>5, Zenon DEF StreamInv
<1>10. OwnInv'
  BY <1>1, <1>3 DEF OwnInv, Reading
<1>11. CountInv'
  <2>1. Added' = {}
    <3>1. ASSUME NEW a \in 1 .. test.readers
          PROVE  ~HasAdded(<<"reader", a, iter + 1>>)
      <4> DEFINE q == <<"reader", a, iter + 1>>
      <4>1. At(q, "none") /\ q[1] = "reader"
        BY <1>7
      <4>2. q \in Agents
        <5>1. a \in 1 .. MaxAgents /\ iter + 1 \in 1 .. MaxIterations
          BY <1>1, TypesAre, TestIs
        <5> QED
          BY <5>1, AgentsAre
      <4> HIDE DEF q
      <4>3. ag[q].rcved = 0
        BY <4>1, <4>2 DEF AgentInv, Control, At, Early
      <4>4. ~HasAdded(q)
        BY <1>1, <4>1, <4>3 DEF HasAdded, Passed, Gone, At
      <4> QED
        BY <4>4 DEF q
    <3> QED
      BY <1>3, <3>1 DEF Added, HasAdded, Passed, Gone, At
  <2>2. Cardinality(Added') = 0
    BY <2>1, FS_EmptySet
  <2>3. test.readers * All * (iter - 1) + All * test.readers
        = test.readers * All * (iter + 1 - 1) + All * 0
    <3> DEFINE n == test.readers * All
    <3>1. n \in Nat /\ All * test.readers = n
      BY <1>1
    <3> HIDE DEF n
    <3>2. n * (iter - 1) + n = n * (iter + 1 - 1) + All * 0
      BY <1>1, <3>1
    <3> QED
      BY <3>1, <3>2 DEF n
  <2>4. test'.readers * All' * (iter' - 1) + All' * Cardinality(Added')
        = test.readers * All * (iter + 1 - 1) + All * 0
    BY <1>1, <1>3, <2>2, SMT
  <2>5. ASSUME All' > 1 \/ test'.flavor = "LATENCY"
        PROVE  stats'.msgCount = test'.readers * All' * (iter' - 1) + All' * Cardinality(Added')
    BY <1>3, <1>4, <2>3, <2>4, <2>5, Zenon
  <2> QED
    BY <2>5, Zenon DEF CountInv
<1> QED
  BY <1>1, <1>3, <1>6, <1>8, <1>9, <1>10, <1>11 DEF BenchInv

(* bench-cell.sh, when it takes a step itself.                             *)
LEMMA BenchScriptSteps ==
    ASSUME TypeOK, TypeOK', AgentInv, BenchInv, RobustInv, ScriptStep
    PROVE  BenchInv'
<1>1. SUFFICES ASSUME test.script = "bench-cell"
      PROVE  BenchInv'
  BY ScriptCases DEF BenchInv
<1>2. CASE StartAgent
  BY <1>1, <1>2, BenchStarts
<1>3. ~KillAgent
  BY <1>1, Kills
<1>4. CASE ag' = ag /\ line' = line + 1 /\ iter' = iter
  BY <1>1, <1>4, BenchGoesOn
<1>5. CASE Loop /\ line' = 1 /\ iter' = iter + 1 /\ iter < test.iterations
  BY <1>1, <1>5, BenchLoops
<1>6. CASE ag' = ag /\ line' = line /\ iter' = iter
  <2>1. /\ test' = test /\ end' = end /\ AgentTypes /\ BodyLines' = BodyLines
        /\ stats' = stats \/ stats' = [stats EXCEPT !.readersReady = 0]
    BY TypesAre, ScriptCases DEF BodyLines
  <2>2. /\ stats'.msgCount = stats.msgCount /\ stats.readersReady \in Nat
        /\ stats'.readersReady \in {0, stats.readersReady}
    BY <2>1 DEF AgentTypes, StatsRecord
  <2>3. /\ Counted1' = Counted1 /\ Written' = Written /\ Added' = Added /\ All' = All
    BY <1>6, <2>1 DEF Counted1, Written, Added, HasAdded, Passed, Gone, At, All
  <2>4. Cardinality(Counted1) \in Nat /\ test.readers \in Nat
    <3>1. Counted1 \subseteq 1 .. test.readers /\ test.readers \in Nat
      BY TypesAre, TestIs DEF Counted1
    <3> QED
      BY <3>1, NumbersAre
  <2>5. /\ BenchScript /\ BarrierInv /\ StreamInv /\ OwnInv /\ CountInv
        /\ line > BodyLines => iter = test.iterations
    BY <1>1 DEF BenchInv
  <2>6. BenchScript'
    BY <1>6, <2>1, <2>5 DEF BenchScript, At, Passed, Gone, Many, StartLine, WaitLine
  <2>7. BarrierInv'
    BY <1>6, <2>1, <2>2, <2>3, <2>4, <2>5 DEF BarrierInv
  <2>8. StreamInv' /\ OwnInv' /\ CountInv'
    BY <1>6, <2>1, <2>2, <2>3, <2>5 DEF StreamInv, OwnInv, CountInv, Reading
  <2> QED
    BY <1>6, <2>1, <2>5, <2>6, <2>7, <2>8 DEF BenchInv
<1> QED
  BY <1>2, <1>3, <1>4, <1>5, <1>6, ScriptCases

(* The step of a script preserves the invariant.                           *)
LEMMA ScriptsPreserve ==
    ASSUME BurstInv, ScriptStep
    PROVE  BurstInv'
<1>1. TypeOK /\ AgentInv /\ LockInv /\ ExpiredInv /\ BenchInv /\ RobustInv /\ ExitInv
  BY DEF BurstInv
<1>2. TypeOK'
  BY <1>1, ScriptTypesStep
<1>3. AgentInv' /\ LockInv' /\ ExpiredInv'
  BY <1>1, ScriptAgents
<1>4. BenchInv'
  BY <1>1, <1>2, BenchScriptSteps
<1>5. RobustInv'
  BY <1>1, RobustScriptSteps
<1>6. ExitInv'
  BY <1>1, ExitStep
<1> QED
  BY <1>2, <1>3, <1>4, <1>5, <1>6 DEF BurstInv

------------------------------------------------------------------------------
(* Nothing has been started at first.                                      *)
LEMMA InitIs ==
    ASSUME Init
    PROVE  BurstInv
<1>1. /\ test \in Tests /\ iter = 1 /\ line = 1 /\ exit = Running /\ named = TRUE
      /\ end = 0 /\ writerMtx = NewMutex
      /\ info = [s \in 1 .. MaxSlots |-> [lock |-> NewMutex, isActive |-> FALSE, position |-> 0]]
      /\ stats = [msgCount |-> 0, readersReady |-> 0, expiredReaders |-> 0]
      /\ recovered = {}
  BY DEF Init
<1>2. \A p \in Agents :
        /\ ag[p].pc = "none" /\ ag[p].flavor = "none" /\ ag[p].id = 1 /\ ag[p].pos = 0
        /\ ag[p].rcved = 0 /\ ag[p].todo = test.messages /\ ag[p].code = 0
  BY DEF Init
<1>3. /\ test.messages \in Nat \ {0} /\ test.readers \in Nat \ {0} /\ test.writers \in Nat \ {0}
      /\ test.iterations \in Nat \ {0} /\ test.slots \in Nat /\ test.slots >= 1
      /\ MaxSlots \in Nat /\ MaxSlots >= 1
      /\ test.script \in {"bench-cell", "robust-reader", "robust-writer"}
  BY <1>1, TestIs, BurstAssumption
<1>4. All \in Nat /\ All > 0 /\ BodyLines \in Nat /\ BodyLines > 1
  BY <1>3 DEF All, BodyLines
<1>5. AgentTypes
  <2>1. NewMutex \in Mutexes(Agents)
    BY DEF NewMutex, Mutexes
  <2>2. /\ writerMtx \in Mutexes(Agents) /\ info \in [1 .. MaxSlots -> SlotRecord]
        /\ stats \in StatsRecord /\ end \in Nat /\ recovered \subseteq {"writerMtx", "info"}
    BY <1>1, <2>1 DEF SlotRecord, StatsRecord
  <2>3. ag \in [Agents -> AgentRecord]
    <3>1. [pc |-> "none", flavor |-> "none", id |-> 1, pos |-> 0,
           rcved |-> 0, todo |-> test.messages, code |-> 0] \in AgentRecord
      BY <1>3 DEF AgentRecord, Labels, Slots, EC_SUCCESS
    <3> QED
      BY <3>1 DEF Init
  <2> QED
    BY <2>2, <2>3 DEF AgentTypes
<1>6. ScriptTypes
  <2>1. Len(Script(test, 1)) \in Nat
    <3>1. CASE test.script = "bench-cell"
      <4>1. Script(test, 1) = BenchCell(test, 1) /\ 1 \in 1 .. test.iterations
        BY <1>3, <3>1 DEF Script
      <4>2. Len(BenchCell(test, 1)) = 2 * test.readers + 2 * test.writers + 5
        BY <1>1, <3>1, <4>1, BenchLines
      <4> QED
        BY <1>3, <4>1, <4>2
    <3>2. CASE test.script = "robust-reader"
      BY <3>2 DEF Script, RobustReader, AfterCrash
    <3>3. CASE test.script = "robust-writer"
      BY <3>3 DEF Script, RobustWriter, AfterCrash
    <3> QED
      BY <1>3, <3>1, <3>2, <3>3
  <2> QED
    BY <1>1, <1>3, <2>1 DEF ScriptTypes, Running
<1>7. TypeOK
  <2>1. SocketTypes
    BY DEF Init, SocketTypes, Sockets
  <2> QED
    BY <1>5, <1>6, <2>1, TypesAre
<1>8. AgentInv
  BY <1>1, <1>2, <1>3, AgentsAre
     DEF AgentInv, Control, Gone, Passed, At, EC_SUCCESS, ReaderLabels, WriterLabels, Early
<1>9. LockInv
  BY <1>1, <1>2, <1>3 DEF LockInv, Inside, NewMutex
<1>10. ExpiredInv
  BY <1>1 DEF ExpiredInv
<1>11. BenchInv
  <2>1. SUFFICES ASSUME test.script = "bench-cell"
        PROVE  BenchInv
    BY DEF BenchInv
  <2>2. BenchScript
    <3>1. ASSUME NEW p \in Agents
          PROVE  /\ At(p, "none")
                 /\ p[2] <= Many(p) => 1 <= StartLine(p) /\ ~(1 > WaitLine(p)) /\ p[3] >= 1
                 /\ p[3] \in Nat
      <4>1. p[3] \in Nat /\ p[3] >= 1
        BY <1>1, AgentsAre, TestIs
      <4>2. p[2] <= Many(p) => /\ StartLine(p) >= 1 /\ WaitLine(p) \in Nat
                               /\ WaitLine(p) > test.readers + 1 + test.writers
        BY <1>7, LinesAre
      <4> QED
        BY <1>2, <1>3, <4>1, <4>2 DEF At
    <3> QED
      BY <1>1, <3>1 DEF BenchScript
  <2>3. BarrierInv
    <3>1. Counted1 \subseteq 1 .. test.readers
      BY DEF Counted1
    <3>2. Cardinality(Counted1) \in Nat
      BY <1>3, <3>1, NumbersAre
    <3> QED
      BY <1>1, <1>3, <1>4, <3>2 DEF BarrierInv
  <2>4. StreamInv
    <3>1. Written = {}
      <4>1. \A a \in 1 .. test.writers : ag[<<"writer", a, iter>>].todo = test.messages
        BY <1>2, <1>7, PresentAre
      <4> QED
        BY <1>3, <4>1 DEF Written
    <3>2. Cardinality(Written) = 0
      BY <3>1, FS_EmptySet
    <3> QED
      BY <1>1, <1>4, <3>2 DEF StreamInv
  <2>5. OwnInv
    BY <1>2 DEF OwnInv, Reading
  <2>6. CountInv
    <3>1. Added = {}
      <4>1. ASSUME NEW a \in 1 .. test.readers
            PROVE  ~HasAdded(<<"reader", a, iter>>)
        <5>1. <<"reader", a, iter>> \in Agents
          BY <1>7, PresentAre
        <5> QED
          BY <1>2, <1>4, <5>1 DEF HasAdded, Passed, Gone, At
      <4> QED
        BY <4>1 DEF Added
    <3>2. Cardinality(Added) = 0
      BY <3>1, FS_EmptySet
    <3>3. 0 = test.readers * All * (1 - 1) + All * 0
      <4>1. test.readers * All \in Nat
        BY <1>3, <1>4
      <4> QED
        BY <1>4, <4>1
    <3> QED
      BY <1>1, <3>2, <3>3 DEF CountInv
  <2> QED
    BY <1>1, <1>4, <2>2, <2>3, <2>4, <2>5, <2>6 DEF BenchInv
<1>12. RobustInv
  <2>1. SUFFICES ASSUME test.script # "bench-cell"
        PROVE  RobustInv
    BY DEF RobustInv
  <2>2. /\ First \in Agents /\ Second \in Agents /\ LastWriter \in Agents
        /\ <<"writer", 1, 1>> \in Agents /\ Before \in Nat /\ Before >= 1
    BY <1>7, <2>1, RobustCommand DEF Before
  <2>3. RobustScript
    BY <1>1, <1>2, <1>3, <2>2 DEF RobustScript, At
  <2>4. RobustCount
    BY <1>1, <1>2, <2>2 DEF RobustCount, Passed, Gone, At
  <2>5. RecoveredInv
    BY <1>2, <2>2 DEF RecoveredInv, Passed, Gone, At, Inside
  <2> QED
    BY <2>3, <2>4, <2>5 DEF RobustInv
<1>13. ExitInv
  BY <1>1 DEF ExitInv, Running, EC_SUCCESS
<1> QED
  BY <1>7, <1>8, <1>9, <1>10, <1>11, <1>12, <1>13 DEF BurstInv

(* The inductive invariant: what the script has run tells which agents     *)
(* have been started and have ended well, their control tells what they    *)
(* have read and written, and together they tell what was counted          *)
(* (burst/agent.cpp and the scripts beside it).                            *)
THEOREM BurstInvariance == Spec => []BurstInv
<1>1. Init => BurstInv
  BY InitIs
<1>2. BurstInv /\ [Next]_vars => BurstInv'
  <2>1. ASSUME BurstInv, ScriptStep
        PROVE  BurstInv'
    BY <2>1, ScriptsPreserve
  <2>2. ASSUME BurstInv, NEW p \in Agents, AgentStep(p) \/ Die(p)
        PROVE  BurstInv'
    BY <2>2, AgentsPreserve
  <2>3. ASSUME BurstInv, UNCHANGED vars
        PROVE  BurstInv'
    <3>1. UNCHANGED <<test, iter, line, exit, named, end, writerMtx, info, stats, sock, ag,
                        recovered>>
      BY <2>3 DEF vars
    <3>2. TypeOK'
      BY <2>3, <3>1 DEF BurstInv, TypeOK, Slots
    <3>3. AgentInv' /\ LockInv' /\ ExpiredInv' /\ ExitInv'
      BY <2>3, <3>1
         DEF BurstInv, AgentInv, Control, LockInv, ExpiredInv, ExitInv, Inside, Mutex, Passed,
             Gone, At, All
    <3>4. BenchInv'
      BY <2>3, <3>1
         DEF BurstInv, BenchInv, BenchScript, BarrierInv, StreamInv, OwnInv, CountInv, Passed,
             Gone, At, All, Many, StartLine, WaitLine, BodyLines, Counted1, Written, Reading,
             Added, HasAdded
    <3>5. RobustInv'
      BY <2>3, <3>1
         DEF BurstInv, RobustInv, RobustScript, RobustCount, RecoveredInv, Before, LastWriter,
             Passed, Gone, At, Inside
    <3> QED
      BY <3>2, <3>3, <3>4, <3>5 DEF BurstInv
  <2> QED
    BY <2>1, <2>2, <2>3 DEF Next
<1> QED
  BY <1>1, <1>2, PTL DEF Spec

------------------------------------------------------------------------------
(* The variables keep their types, whoever is killed.                      *)
THEOREM BurstTypes == Spec => []TypeOK
<1>1. BurstInv => TypeOK
  BY DEF BurstInv
<1> QED
  BY BurstInvariance, <1>1, PTL

(* Whoever dies with a lock, one live writer at most writes, and one live  *)
(* reader at most has a slot; nobody is aborted by a mutex that cannot be  *)
(* recovered (robustProcMutex.hpp:45-82).                                  *)
THEOREM OnlyOneInside == Spec => []OneInside
<1>1. BurstInv => OneInside
  <2>1. SUFFICES ASSUME BurstInv
        PROVE  OneInside
    OBVIOUS
  <2>2. AgentInv /\ LockInv
    BY <2>1 DEF BurstInv
  <2>3. \A p \in Agents : Inside(p) =>
            p = (IF p[1] = "writer" THEN writerMtx ELSE info[ag[p].id].lock).owner
    BY <2>2 DEF LockInv, Mutex
  <2>4. \A p \in Agents : ~At(p, "aborted")
    BY <2>2, AgentsAre DEF AgentInv, Control, At, ReaderLabels, WriterLabels, Early
  <2> QED
    BY <2>3, <2>4 DEF OneInside
<1> QED
  BY BurstInvariance, <1>1, PTL

(* waitreaders and resetiter keep the iterations of bench-cell.sh apart: a *)
(* reader that is counted has loaded the end of the stream before any      *)
(* writer of its iteration starts, and after all of the one before ended.  *)
THEOREM ReadsItsOwnBurst == Spec => []OwnBurst
<1>1. BurstInv => OwnBurst
  BY DEF BurstInv, BenchInv, OwnInv, Reading, OwnBurst
<1> QED
  BY BurstInvariance, <1>1, PTL

(* The exit code 0 of a script is to be trusted: every reader has received *)
(* every message, and msgCount is what was to be received.                 *)
THEOREM ReceivedIfPassed == Spec => []PassMeansAllReceived
<1>1. BurstInv => PassMeansAllReceived
  <2>1. SUFFICES ASSUME BurstInv, exit = EC_SUCCESS
        PROVE  /\ stats.expiredReaders = 0
               /\ IF test.script = "bench-cell"
                  THEN (All > 1 \/ test.flavor = "LATENCY") =>
                            stats.msgCount = test.readers * All * test.iterations
                  ELSE /\ stats.msgCount = test.messages
                       /\ ag[<<"reader", 2, 1>>].rcved = test.messages
    BY DEF PassMeansAllReceived
  <2>2. /\ TypeOK /\ AgentInv /\ ExpiredInv /\ BenchInv /\ RobustInv
        /\ line > Len(Script(test, iter)) /\ line \in Nat /\ AgentTypes /\ test \in Tests
        /\ stats.expiredReaders \in Nat
    BY <2>1, TypesAre DEF BurstInv, ExitInv, AgentTypes, StatsRecord
  <2>3. CASE test.script = "bench-cell"
    <3>1. /\ line >= BodyLines /\ line > BodyLines /\ BenchScript
      <4>1. Len(Script(test, iter)) = BodyLines + 2
        BY <2>2, <2>3, BenchCommand
      <4>2. BodyLines \in Nat
        <5>1. test.readers \in Nat /\ test.writers \in Nat
          BY <2>2, TestIs
        <5> QED
          BY <5>1 DEF BodyLines
      <4>3. BenchScript
        BY <2>2, <2>3 DEF BenchInv
      <4> QED
        BY <2>2, <4>1, <4>2, <4>3
    <3>2. /\ iter = test.iterations
          /\ \A q \in Agents : q[2] <= Many(q) /\ q[3] <= iter => Passed(q)
          /\ All > 1 \/ test.flavor = "LATENCY" =>
                stats.msgCount = test.readers * All * (iter - 1) + All * test.readers
      BY <2>2, <2>3, <3>1, AllDone DEF BenchInv
    <3>3. ASSUME NEW q \in Agents
          PROVE  ag[q].code # EC_READER_EXPIRED
      <4>1. q[2] \in Nat /\ q[3] \in Nat /\ Many(q) \in Nat /\ iter \in Nat
        BY <2>2, AgentsAre, TypesAre, TestIs DEF Many
      <4>2. Passed(q) \/ At(q, "none")
        BY <3>1, <3>2, <4>1 DEF BenchScript
      <4> QED
        BY <2>2, <4>2 DEF Passed, AgentInv, Control, Gone, At, EC_SUCCESS, EC_READER_EXPIRED
    <3>4. stats.expiredReaders = 0
      BY <2>2, <3>3 DEF ExpiredInv
    <3>5. test.readers * All * (iter - 1) + All * test.readers = test.readers * All * iter
      <4>1. /\ test.readers \in Nat /\ test.writers \in Nat /\ test.messages \in Nat /\ iter \in Nat
        BY <2>2, TypesAre, TestIs
      <4>2. All \in Nat
        BY <4>1 DEF All
      <4> DEFINE n == test.readers * All
      <4>3. n \in Nat /\ All * test.readers = n
        BY <4>1, <4>2
      <4> HIDE DEF n
      <4>4. n * (iter - 1) + n = n * iter
        BY <4>1, <4>3
      <4> QED
        BY <4>3, <4>4 DEF n
    <3> QED
      BY <2>3, <3>2, <3>4, <3>5
  <2>4. CASE test.script # "bench-cell"
    <3>1. /\ RobustScript /\ RobustCount /\ line > Before + 7 /\ line > Before + 6
          /\ line > Before + 5 /\ line > Before
      <4>1. Len(Script(test, iter)) = Before + 8 /\ Before \in Nat
        BY <2>2, <2>4, RobustCommand DEF Before
      <4>2. RobustScript /\ RobustCount
        BY <2>2, <2>4 DEF RobustInv
      <4> QED
        BY <2>2, <4>1, <4>2
    <3>2. stats.msgCount = test.messages /\ Passed(Second) /\ ag[Second].rcved = test.messages
      BY <3>1 DEF RobustScript, RobustCount
    <3>3. ASSUME NEW q \in Agents, q[1] = "reader"
          PROVE  ag[q].code # EC_READER_EXPIRED
      <4>1. LastWriter # q /\ <<"writer", 1, 1>> # q
        BY <3>3 DEF LastWriter
      <4>2. At(q, "none") \/ q = First \/ q = Second
        BY <3>1, <4>1 DEF RobustScript
      <4>3. ag[First].code # EC_READER_EXPIRED
        BY <3>1 DEF RobustScript
      <4> QED
        BY <2>2, <3>2, <4>2, <4>3
           DEF Passed, AgentInv, Control, Gone, At, EC_SUCCESS, EC_READER_EXPIRED
    <3>4. stats.expiredReaders = 0
      BY <2>2, <3>3 DEF ExpiredInv
    <3> QED
      BY <2>4, <3>2, <3>4 DEF Second
  <2> QED
    BY <2>3, <2>4
<1> QED
  BY BurstInvariance, <1>1, PTL

(* robust-reader.sh tests what it is for: it passes only if the slot of    *)
(* the reader that ended with it was recovered by the second one.          *)
THEOREM ReaderRecovered == Spec => []RobustReaderTests
<1>1. BurstInv => RobustReaderTests
  <2>1. SUFFICES ASSUME BurstInv, exit = EC_SUCCESS, test.script = "robust-reader"
        PROVE  "info" \in recovered
    BY DEF RobustReaderTests
  <2>2. /\ RobustScript /\ RecoveredInv /\ line > Len(Script(test, iter)) /\ TypeOK
        /\ line \in Nat
    BY <2>1, TypesAre DEF BurstInv, ExitInv, RobustInv
  <2>3. line > Before + 6
    <3>1. Len(Script(test, iter)) = Before + 8 /\ Before \in Nat
      BY <2>1, <2>2, RobustCommand DEF Before
    <3> QED
      BY <2>2, <3>1
  <2> QED
    BY <2>1, <2>2, <2>3 DEF RobustScript, RecoveredInv
<1> QED
  BY BurstInvariance, <1>1, PTL
=============================================================================
