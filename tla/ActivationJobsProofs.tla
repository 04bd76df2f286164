------------------------- MODULE ActivationJobsProofs --------------------------
(***************************************************************************)
(* What is proved of the activation jobs for every library, every set of   *)
(* requests and any number of jobs, clicks and scopes.                     *)
(***************************************************************************)
EXTENDS ActivationJobs, ListLemmas

-------------------------------------------------------------------------------
(* The invariant.                                                            *)

Ended == {"done", "cancelled"}

\* Messages of the kinds C are under way; no two of them are; none of the kinds L is
\* behind one of the kinds E.
Holds(w, C)        == \E i \in 1..Len(w) : w[i].cmd \in C
AtMostOne(w, C)    == \A i, k \in 1..Len(w) : w[i].cmd \in C /\ w[k].cmd \in C => i = k
NoneAfter(w, L, E) == \A i, k \in 1..Len(w) : k < i /\ w[i].cmd \in L => w[k].cmd \notin E

\* The jobs whose stop is under way.
StopsSent(w) == {w[i].id : i \in {k \in 1..Len(w) : w[k].cmd = "stop"}}

\* The job that runs is the runner's, and a job that was not asked for has no state.
RunnerInv ==
    /\ Running = IF runner.at = "idle" THEN {} ELSE {runner.id}
    /\ \A j \in JobIds : job[j].state = "none" <=> j >= nextId
    /\ runner.at = "call" => ~job[runner.id].batch /\ runner.mod \in Mods
    /\ runner.at = "batch" => job[runner.id].batch

\* The runner has at most one call under way, in the mail or on the backend.
CallInv ==
    /\ call.at # "none" => runner.at \in {"call", "batch"}
    /\ call.at = "none" => call = NoCall
    /\ call.at \in {"plan", "work"} => call.mod \in Mods /\ call.to \in Profiles
    /\ call.at \in {"plan", "work"} /\ runner.at = "call" => call.mod = runner.mod
    /\ call.at = "loop" => runner.at = "batch"
    /\ runner.at = "batch" => call.left \subseteq ModsOf(job[runner.id])
    /\ Holds(mail, {"call"}) => call.at = "none" /\ runner.at \in {"call", "batch"}
    /\ Holds(mail, {"clear"}) => runner.at = "clear"
    /\ AtMostOne(mail, {"call", "clear"})

\* Enable all works on mods of the library.
SweepInv == sweep.at \in {"plan", "work"} => sweep.mod \in Mods

\* A lowering of the flag under way is never behind the start of Enable all.
LowerInv ==
    /\ Holds(mail, {"lower"}) => sweep.at \in {"idle", "sent", "clearing", "closing"}
    /\ Holds(mail, {"sweep"}) => sweep.at = "sent"
    /\ AtMostOne(mail, {"sweep"})
    /\ NoneAfter(mail, {"lower"}, {"sweep"})
    /\ sweep.at \in {"clearing", "closing"} => AtMostOne(mail, {"lower"})

\* The job j has begun; it has been stopped, or is over.
Begun(j)   == job[j].state \in {"running"} \cup Ended
Stopped(j) == (job[j].state = "running" /\ job[j].stop) \/ job[j].state \in Ended

\* The job that runs was not stopped.
Unasked == runner.at # "idle" /\ ~job[runner.id].stop

\* Stops under way are of jobs that were stopped.
SentInv == \A j \in StopsSent(mail) : Stopped(j)

\* A Cancel all under way that was not meant for the job that runs is not behind that
\* job's call; nor is a kill.
AllsInv ==
    Unasked => /\ Holds(mail, {"stopAll"}) => runner.id \notin Known(tokens) /\ call.at = "none"
               /\ NoneAfter(mail, {"stopAll"}, {"call"})

KillsInv ==
    ~runner.skip => /\ Holds(mail, {"kill"}) => call.at = "none"
                    /\ NoneAfter(mail, {"kill"}, {"call"})

\* Scopes are of jobs that have begun, those that are cut of jobs that were stopped; the
\* scope of a call at work is there.
ScopesInv ==
    /\ \A j \in Known(tokens) :
         /\ Begun(j)
         /\ tokens.scope[j].cut \/ tokens.epoch > tokens.scope[j].since => Stopped(j)
    /\ call.at \in {"loop", "plan", "work"} => runner.id \in Known(tokens)

StopInv == SentInv /\ AllsInv /\ KillsInv /\ ScopesInv

\* What was cut was stopped or skipped.
Asked == job[runner.id].stop \/ runner.skip

CutInv ==
    /\ call.at \in {"none", "spawned"} => call.cut = {}
    /\ call.at = "work" /\ killed => Asked
    /\ call.cut # {} => Asked

\* The lines of a batch are of its mods.
LinesInv ==
    \A j \in JobIds, m \in Mods :
        job[j].batch /\ job[j].line[m] # "absent" => m \in ModsOf(job[j])

\* A line that the backend has not settled.
Unsettled == {"queued", "running"}

\* Every mod of the job that runs is accounted for on the backend's side, and what was
\* cut does not show as under way.
CoverInv ==
    /\ runner.at = "call" /\ call.at = "answered" /\ call.reply = "ok" =>
         runner.mod \in call.did \cup call.cut
    /\ runner.at = "batch" /\ call.at \in {"loop", "plan", "work"} =>
         ModsOf(job[runner.id]) \subseteq call.left \cup call.did \cup call.bad \cup call.cut
    /\ runner.at = "batch" /\ call.at = "answered" /\ call.reply = "ok" =>
         ModsOf(job[runner.id]) \subseteq call.did \cup call.bad \cup call.cut
    /\ runner.at = "batch" => \A m \in call.cut \cap Mods :
         job[runner.id].line[m] \notin Unsettled

DoneInv == LinesInv /\ CoverInv

AllInv == TypeOK /\ RunnerInv /\ CallInv /\ SweepInv /\ LowerInv /\ StopInv

AskedInv == AllInv /\ CutInv /\ DoneInv

-------------------------------------------------------------------------------
(* The cancel tokens.                                                        *)

LEMMA NoTokensAre ==
    NoTokens \in Tokens /\ Known(NoTokens) = {}
BY DEF NoTokens, Tokens, Known, Absent

\* A scope that is opened is there, those that are held stay, and nothing else comes.
Opens(t, held, n, u) ==
    /\ u \in Tokens /\ u.flag = t.flag /\ u.epoch = t.epoch
    /\ n \in Known(u) /\ Known(u) \subseteq Known(t) \cup {n}
    /\ Known(t) \cap held \subseteq Known(u)
    /\ \A k \in Known(u) \ {n} : u.scope[k] = t.scope[k]

LEMMA OpenedScopes ==
    ASSUME NEW t \in Tokens, NEW held, NEW n \in JobIds
    PROVE  /\ Opens(t, held, n, Opened(t, held, n))
           /\ n \in Known(t) => Opened(t, held, n) = t
           /\ n \notin Known(t) => /\ Opened(t, held, n).scope[n].cut = FALSE
                                  /\ Opened(t, held, n).scope[n].since = t.epoch
<1>1. CASE n \in Known(t)
  BY <1>1 DEF Opened, Opens
<1>2. CASE n \notin Known(t)
  <2> DEFINE kept == IF Cardinality(Known(t)) >= MaxScopes THEN Known(t) \cap held ELSE Known(t)
             rest == [k \in JobIds |-> IF k \in kept THEN t.scope[k] ELSE Absent]
             new  == [known |-> TRUE, cut |-> FALSE, since |-> t.epoch]
             sc   == [rest EXCEPT ![n] = new]
             u    == [t EXCEPT !.scope = sc]
  <2>1. Opened(t, held, n) = u BY <1>2 DEF Opened
  <2>2. kept \subseteq Known(t) /\ Known(t) \cap held \subseteq kept OBVIOUS
  <2> HIDE DEF kept
  <2>3. t.scope \in [JobIds -> [known : BOOLEAN, cut : BOOLEAN, since : Nat]] /\ t.epoch \in Nat
    BY DEF Tokens
  <2>4. rest \in [JobIds -> [known : BOOLEAN, cut : BOOLEAN, since : Nat]]
    BY <2>3 DEF Absent
  <2>5. sc \in [JobIds -> [known : BOOLEAN, cut : BOOLEAN, since : Nat]] /\ sc[n] = new
        /\ \A k \in JobIds \ {n} : sc[k] = IF k \in kept THEN t.scope[k] ELSE Absent
    BY <2>3, <2>4
  <2> HIDE DEF sc
  <2>6. u \in Tokens /\ u.flag = t.flag /\ u.epoch = t.epoch /\ u.scope = sc
    BY <2>5 DEF Tokens
  <2> HIDE DEF u
  <2>7. Known(u) = kept \cup {n}
    BY <2>2, <2>5, <2>6 DEF Known, Absent
  <2>8. \A k \in Known(u) \ {n} : u.scope[k] = t.scope[k]
    BY <2>2, <2>5, <2>6, <2>7 DEF Known
  <2> QED BY <1>2, <2>1, <2>2, <2>5, <2>6, <2>7, <2>8 DEF Opens
<1> QED BY <1>1, <1>2

LEMMA StopScopeScopes ==
    ASSUME NEW t \in Tokens, NEW held, NEW n \in JobIds
    PROVE  Opens(t, held, n, StopScope(t, held, n))
<1> DEFINE v == Opened(t, held, n)
           u == [v EXCEPT !.scope[n].cut = TRUE]
<1>1. StopScope(t, held, n) = u BY DEF StopScope
<1>2. Opens(t, held, n, v) BY OpenedScopes
<1> HIDE DEF v
<1>3. v \in Tokens BY <1>2 DEF Opens
<1>4. /\ u \in Tokens /\ u.flag = v.flag /\ u.epoch = v.epoch
      /\ \A k \in JobIds : u.scope[k].known = v.scope[k].known
      /\ \A k \in JobIds \ {n} : u.scope[k] = v.scope[k]
  BY <1>3 DEF Tokens
<1> HIDE DEF u
<1>5. Known(u) = Known(v) BY <1>4 DEF Known
<1>6. \A k \in Known(u) : k \in JobIds BY DEF Known
<1> QED BY <1>1, <1>2, <1>4, <1>5, <1>6 DEF Opens

LEMMA OtherTokens ==
    ASSUME NEW t \in Tokens, NEW n \in JobIds
    PROVE  /\ DropScope(t, n) \in Tokens /\ DropScope(t, n).flag = t.flag
           /\ DropScope(t, n).epoch = t.epoch /\ Known(DropScope(t, n)) = Known(t) \ {n}
           /\ \A k \in JobIds \ {n} : DropScope(t, n).scope[k] = t.scope[k]
           /\ StopAll(t) \in Tokens /\ StopAll(t).flag = TRUE /\ StopAll(t).scope = t.scope
           /\ LowerFlag(t) \in Tokens /\ LowerFlag(t).epoch = t.epoch
           /\ LowerFlag(t).scope = t.scope
<1>1. /\ DropScope(t, n) \in Tokens /\ DropScope(t, n).flag = t.flag
      /\ DropScope(t, n).epoch = t.epoch
      /\ DropScope(t, n).scope = [t.scope EXCEPT ![n] = Absent]
  BY DEF DropScope, Tokens, Absent
<1>2. \A k \in JobIds \ {n} : DropScope(t, n).scope[k] = t.scope[k]
  BY <1>1 DEF Tokens
<1>3. Known(DropScope(t, n)) = Known(t) \ {n}
  BY <1>1, <1>2 DEF Known, Tokens, Absent
<1>4. StopAll(t) \in Tokens /\ StopAll(t).flag = TRUE /\ StopAll(t).scope = t.scope
  <2>1. t.epoch \in Nat BY DEF Tokens
  <2>2. t.epoch + 1 \in Nat BY <2>1
  <2> DEFINE n1 == t.epoch + 1
             v  == [t EXCEPT !.flag = TRUE, !.epoch = n1]
  <2>3. StopAll(t) = v BY DEF StopAll
  <2>4. n1 \in Nat BY <2>2
  <2> HIDE DEF n1
  <2>5. v \in Tokens /\ v.flag = TRUE /\ v.scope = t.scope BY <2>4 DEF Tokens
  <2> QED BY <2>3, <2>5
<1>5. /\ LowerFlag(t) \in Tokens /\ LowerFlag(t).epoch = t.epoch /\ LowerFlag(t).scope = t.scope
  BY DEF LowerFlag, Tokens
<1> QED BY <1>1, <1>2, <1>3, <1>4, <1>5

-------------------------------------------------------------------------------
(* The mail.                                                                 *)

\* A message more: those before it are where they were.
LEMMA MailGrows ==
    ASSUME mail \in Seq(Messages), NEW msg \in Messages
    PROVE  LET w == Append(mail, msg) IN
           /\ w \in Seq(Messages) /\ Len(w) = Len(mail) + 1 /\ Len(mail) \in Nat
           /\ mail \o <<msg>> = w
           /\ \A i \in 1..Len(w) : i = Len(mail) + 1 \/ i \in 1..Len(mail)
           /\ \A i \in 1..Len(mail) : i \in 1..Len(w) /\ w[i] = mail[i]
           /\ w[Len(mail) + 1] = msg
OBVIOUS

\* The head is gone: the others are one place further.
LEMMA MailMoves ==
    ASSUME mail \in Seq(Messages), mail # <<>>
    PROVE  /\ Tail(mail) \in Seq(Messages) /\ Len(Tail(mail)) = Len(mail) - 1
           /\ Len(mail) \in Nat /\ 1 \in 1..Len(mail) /\ Head(mail) = mail[1]
           /\ mail[1] \in Messages
           /\ \A i \in 1..Len(Tail(mail)) : i + 1 \in 1..Len(mail)
                                            /\ Tail(mail)[i] = mail[i + 1]
OBVIOUS

\* One message more at the end of a mail w.
LEMMA MailOneMore ==
    ASSUME NEW w \in Seq(Messages), NEW msg \in Messages
    PROVE  /\ Append(w, msg) \in Seq(Messages)
           /\ \A C : Holds(Append(w, msg), C) <=> Holds(w, C) \/ msg.cmd \in C
           /\ \A C : AtMostOne(w, C) /\ (msg.cmd \in C => ~Holds(w, C)) =>
                       AtMostOne(Append(w, msg), C)
           /\ \A L, E : NoneAfter(w, L, E) /\ (msg.cmd \in L => ~Holds(w, E)) =>
                          NoneAfter(Append(w, msg), L, E)
           /\ StopsSent(Append(w, msg)) \subseteq
                StopsSent(w) \cup (IF msg.cmd = "stop" THEN {msg.id} ELSE {})
<1> DEFINE v == Append(w, msg)
           n == Len(w) + 1
<1>1. /\ v \in Seq(Messages) /\ Len(v) = n /\ Len(w) \in Nat /\ n \in Nat
      /\ \A i \in 1..Len(v) : i = n \/ i \in 1..Len(w)
      /\ \A i \in 1..Len(w) : i \in 1..Len(v) /\ v[i] = w[i] /\ i < n
      /\ n \in 1..Len(v) /\ v[n] = msg
  OBVIOUS
<1> HIDE DEF v, n
<1>2. ASSUME NEW C PROVE Holds(v, C) <=> Holds(w, C) \/ msg.cmd \in C
  BY <1>1 DEF Holds
<1>3. ASSUME NEW C, AtMostOne(w, C), msg.cmd \in C => ~Holds(w, C) PROVE AtMostOne(v, C)
  BY <1>1, <1>3 DEF Holds, AtMostOne
<1>4. ASSUME NEW L, NEW E, NoneAfter(w, L, E), msg.cmd \in L => ~Holds(w, E)
      PROVE  NoneAfter(v, L, E)
  <2> SUFFICES ASSUME NEW i \in 1..Len(v), NEW k \in 1..Len(v), k < i, v[i].cmd \in L
               PROVE  v[k].cmd \notin E
    BY DEF NoneAfter
  <2>1. k # n /\ k \in 1..Len(w)
    <3>1. i \in Nat /\ k \in Nat /\ (i = n \/ i < n) BY <1>1
    <3>2. k < n BY <1>1, <3>1
    <3> QED BY <1>1, <3>1, <3>2
  <2>2. CASE i = n BY <1>1, <1>4, <2>1, <2>2 DEF Holds
  <2>3. CASE i \in 1..Len(w) BY <1>1, <1>4, <2>1, <2>3 DEF NoneAfter
  <2> QED BY <1>1, <2>2, <2>3
<1>5. StopsSent(v) \subseteq StopsSent(w) \cup (IF msg.cmd = "stop" THEN {msg.id} ELSE {})
  BY <1>1 DEF StopsSent
<1> QED BY <1>1, <1>2, <1>3, <1>4, <1>5 DEF v

\* The message at the head of a mail w is taken.
LEMMA MailOneLess ==
    ASSUME NEW w \in Seq(Messages), w # <<>>
    PROVE  /\ Tail(w) \in Seq(Messages) /\ Head(w) \in Messages
           /\ \A C : /\ Holds(Tail(w), C) => Holds(w, C)
                     /\ Head(w).cmd \in C => Holds(w, C)
                     /\ AtMostOne(w, C) => AtMostOne(Tail(w), C)
                     /\ AtMostOne(w, C) /\ Head(w).cmd \in C => ~Holds(Tail(w), C)
           /\ \A L, E : NoneAfter(w, L, E) =>
                          /\ NoneAfter(Tail(w), L, E)
                          /\ Head(w).cmd \in E => ~Holds(Tail(w), L)
           /\ StopsSent(Tail(w)) \subseteq StopsSent(w)
           /\ Head(w).cmd = "stop" => Head(w).id \in StopsSent(w)
<1> DEFINE v == Tail(w)
           h == Head(w)
<1>1. /\ v \in Seq(Messages) /\ h \in Messages /\ 1 \in 1..Len(w) /\ w[1] = h
      /\ \A i \in 1..Len(v) : i + 1 \in 1..Len(w) /\ v[i] = w[i + 1] /\ 1 < i + 1 /\ i \in Nat
  OBVIOUS
<1> HIDE DEF v, h
<1>2. ASSUME NEW C
      PROVE  /\ Holds(v, C) => Holds(w, C)
             /\ h.cmd \in C => Holds(w, C)
  BY <1>1 DEF Holds
<1>3. ASSUME NEW C, AtMostOne(w, C)
      PROVE  AtMostOne(v, C) /\ (h.cmd \in C => ~Holds(v, C))
  <2>1. ASSUME NEW i \in 1..Len(v), NEW k \in 1..Len(v), v[i].cmd \in C, v[k].cmd \in C
        PROVE  i = k
    <3>1. i + 1 = k + 1 BY <1>1, <1>3, <2>1 DEF AtMostOne
    <3> QED BY <3>1, <1>1
  <2>2. ASSUME h.cmd \in C, NEW i \in 1..Len(v), v[i].cmd \in C PROVE FALSE
    <3>1. i + 1 = 1 BY <1>1, <1>3, <2>2 DEF AtMostOne
    <3> QED BY <3>1, <1>1
  <2> QED BY <2>1, <2>2 DEF AtMostOne, Holds
<1>4. ASSUME NEW L, NEW E, NoneAfter(w, L, E)
      PROVE  NoneAfter(v, L, E) /\ (h.cmd \in E => ~Holds(v, L))
  <2>1. ASSUME NEW i \in 1..Len(v), NEW k \in 1..Len(v), k < i, v[i].cmd \in L
        PROVE  v[k].cmd \notin E
    <3>1. k + 1 < i + 1 BY <1>1, <2>1
    <3> QED BY <1>1, <1>4, <2>1, <3>1 DEF NoneAfter
  <2>2. ASSUME h.cmd \in E, NEW i \in 1..Len(v), v[i].cmd \in L PROVE FALSE
    BY <1>1, <1>4, <2>2 DEF NoneAfter
  <2> QED BY <2>1, <2>2 DEF NoneAfter, Holds
<1>5. StopsSent(v) \subseteq StopsSent(w) /\ (h.cmd = "stop" => h.id \in StopsSent(w))
  BY <1>1 DEF StopsSent
<1> QED BY <1>1, <1>2, <1>3, <1>4, <1>5 DEF v, h

\* A step takes the head of the mail, or posts messages of the kinds D, or neither.
Posts(D) ==
    \/ mail' = mail
    \/ mail # <<>> /\ mail' = Tail(mail)
    \/ \E m \in Messages : m.cmd \in D /\ mail' = Append(mail, m)
    \/ \E m, n \in Messages : m.cmd \in D /\ n.cmd \in D /\ mail' = Append(Append(mail, m), n)

LEMMA PostsNone == ASSUME UNCHANGED mail PROVE \A D : Posts(D)
BY DEF Posts

LEMMA StopsAreOfJobs == ASSUME mail \in Seq(Messages) PROVE StopsSent(mail) \subseteq JobIds
<1>1. \A i \in 1..Len(mail) : mail[i] \in Messages OBVIOUS
<1>2. \A m \in Messages : m.id \in JobIds BY DEF Messages
<1> QED BY <1>1, <1>2 DEF StopsSent

\* Then there are no more messages of other kinds, nor more of them out of place.
LEMMA PostsQuiet ==
    ASSUME mail \in Seq(Messages), NEW D, Posts(D)
    PROVE  /\ \A C : C \cap D = {} => /\ Holds(mail', C) => Holds(mail, C)
                                      /\ AtMostOne(mail, C) => AtMostOne(mail', C)
           /\ \A L, E : L \cap D = {} /\ NoneAfter(mail, L, E) => NoneAfter(mail', L, E)
           /\ "stop" \notin D => StopsSent(mail') \subseteq StopsSent(mail)
<1>1. CASE mail' = mail BY <1>1
<1>2. CASE mail # <<>> /\ mail' = Tail(mail)
  <2> DEFINE v == mail'
  <2>1. v = Tail(mail) BY <1>2
  <2> HIDE DEF v
  <2>2. /\ \A C : /\ Holds(v, C) => Holds(mail, C)
                  /\ AtMostOne(mail, C) => AtMostOne(v, C)
        /\ \A L, E : NoneAfter(mail, L, E) => NoneAfter(v, L, E)
        /\ StopsSent(v) \subseteq StopsSent(mail)
    BY <1>2, <2>1, MailOneLess
  <2> QED BY <2>2 DEF v
<1>3. ASSUME NEW w \in Seq(Messages), NEW m \in Messages, m.cmd \in D
      PROVE  /\ \A C : C \cap D = {} => /\ Holds(Append(w, m), C) => Holds(w, C)
                                        /\ AtMostOne(w, C) => AtMostOne(Append(w, m), C)
             /\ \A L, E : L \cap D = {} /\ NoneAfter(w, L, E) => NoneAfter(Append(w, m), L, E)
             /\ "stop" \notin D => StopsSent(Append(w, m)) \subseteq StopsSent(w)
             /\ Append(w, m) \in Seq(Messages)
  <2>1. \A C : C \cap D = {} => m.cmd \notin C BY <1>3
  <2> DEFINE v == Append(w, m)
  <2>2. /\ v \in Seq(Messages)
        /\ \A C : Holds(v, C) <=> Holds(w, C) \/ m.cmd \in C
        /\ \A C : AtMostOne(w, C) /\ (m.cmd \in C => ~Holds(w, C)) => AtMostOne(v, C)
        /\ \A L, E : NoneAfter(w, L, E) /\ (m.cmd \in L => ~Holds(w, E)) => NoneAfter(v, L, E)
        /\ StopsSent(v) \subseteq StopsSent(w) \cup (IF m.cmd = "stop" THEN {m.id} ELSE {})
    BY MailOneMore
  <2> HIDE DEF v
  <2>3. "stop" \notin D => StopsSent(v) \subseteq StopsSent(w) BY <1>3, <2>2
  <2>4. \A C : C \cap D = {} => /\ Holds(v, C) => Holds(w, C)
                                /\ AtMostOne(w, C) => AtMostOne(v, C)
    BY <2>1, <2>2
  <2>5. \A L, E : L \cap D = {} /\ NoneAfter(w, L, E) => NoneAfter(v, L, E)
    BY <2>1, <2>2
  <2> QED BY <2>2, <2>3, <2>4, <2>5 DEF v
<1>4. ASSUME NEW m \in Messages, m.cmd \in D, mail' = Append(mail, m)
      PROVE  /\ \A C : C \cap D = {} => /\ Holds(mail', C) => Holds(mail, C)
                                        /\ AtMostOne(mail, C) => AtMostOne(mail', C)
             /\ \A L, E : L \cap D = {} /\ NoneAfter(mail, L, E) => NoneAfter(mail', L, E)
             /\ "stop" \notin D => StopsSent(mail') \subseteq StopsSent(mail)
  BY <1>3, <1>4
<1>5. ASSUME NEW m \in Messages, NEW n \in Messages, m.cmd \in D, n.cmd \in D,
             mail' = Append(Append(mail, m), n)
      PROVE  /\ \A C : C \cap D = {} => /\ Holds(mail', C) => Holds(mail, C)
                                        /\ AtMostOne(mail, C) => AtMostOne(mail', C)
             /\ \A L, E : L \cap D = {} /\ NoneAfter(mail, L, E) => NoneAfter(mail', L, E)
             /\ "stop" \notin D => StopsSent(mail') \subseteq StopsSent(mail)
  <2> DEFINE w == Append(mail, m)
             v == mail'
  <2>1. v = Append(w, n) BY <1>5
  <2>2. /\ \A C : C \cap D = {} => /\ Holds(w, C) => Holds(mail, C)
                                   /\ AtMostOne(mail, C) => AtMostOne(w, C)
        /\ \A L, E : L \cap D = {} /\ NoneAfter(mail, L, E) => NoneAfter(w, L, E)
        /\ "stop" \notin D => StopsSent(w) \subseteq StopsSent(mail)
        /\ w \in Seq(Messages)
    BY <1>3, <1>5
  <2> HIDE DEF w, v
  <2>3. /\ \A C : C \cap D = {} => /\ Holds(v, C) => Holds(w, C)
                                   /\ AtMostOne(w, C) => AtMostOne(v, C)
        /\ \A L, E : L \cap D = {} /\ NoneAfter(w, L, E) => NoneAfter(v, L, E)
        /\ "stop" \notin D => StopsSent(v) \subseteq StopsSent(w)
    BY <1>3, <1>5, <2>1, <2>2
  <2>4. /\ \A C : C \cap D = {} => /\ Holds(v, C) => Holds(mail, C)
                                   /\ AtMostOne(mail, C) => AtMostOne(v, C)
        /\ \A L, E : L \cap D = {} /\ NoneAfter(mail, L, E) => NoneAfter(v, L, E)
    BY <2>2, <2>3
  <2>5. "stop" \notin D => StopsSent(v) \subseteq StopsSent(mail) BY <2>2, <2>3
  <2> QED BY <2>4, <2>5 DEF v
<1> QED BY <1>1, <1>2, <1>4, <1>5 DEF Posts

-------------------------------------------------------------------------------
(* The jobs.                                                                 *)

Jobs == [JobIds -> JobRecords]

\* The job s is the job r, but for its lines.
SameJob(r, s) == s.mods = r.mods /\ s.batch = r.batch /\ s.state = r.state /\ s.stop = r.stop

JobsStand(jb, kb) == kb \in Jobs /\ \A j \in JobIds : SameJob(jb[j], kb[j])

\* An event moves one line of the running batch, or nothing.
LEMMA ToldJobs ==
    ASSUME job \in Jobs, runner \in Runners, NEW m \in Lines, NEW phase \in Phases,
           Told(m, phase)
    PROVE  /\ JobsStand(job, job')
           /\ \A j \in JobIds, k \in Lines :
                \/ job'[j].line[k] = job[j].line[k]
                \/ /\ runner.at = "batch" /\ j = runner.id /\ k = m
                   /\ job[j].line[k] \in {"queued", "running"} /\ job'[j].line[k] = phase
           /\ runner.at = "batch" /\ job[runner.id].line[m] \in {"queued", "running"} =>
                job'[runner.id].line[m] = phase
<1>1. runner.id \in JobIds BY DEF Runners
<1>2. CASE job' = job BY <1>2, <1>1 DEF JobsStand, SameJob, Told, Jobs, JobRecords
<1>3. CASE /\ runner.at = "batch" /\ job[runner.id].line[m] \in {"queued", "running"}
           /\ job' = [job EXCEPT ![runner.id].line[m] = phase]
  <2>1. job' \in Jobs BY <1>1, <1>3 DEF Jobs, JobRecords
  <2>2. \A j \in JobIds : SameJob(job[j], job'[j])
    BY <1>1, <1>3 DEF Jobs, JobRecords, SameJob
  <2>3. \A j \in JobIds, k \in Lines :
          job'[j].line[k] = IF j = runner.id /\ k = m THEN phase ELSE job[j].line[k]
    BY <1>1, <1>3 DEF Jobs, JobRecords
  <2> QED BY <1>1, <1>3, <2>1, <2>2, <2>3 DEF JobsStand
<1> QED BY <1>2, <1>3 DEF Told

\* The job s is the job r, gone on: no line of r came to be done, and none came to be.
GoneOn(r, s) ==
    /\ s \in JobRecords /\ SameJob(r, s)
    /\ \A m \in Mods : /\ s.line[m] = "done" => r.line[m] = "done"
                       /\ s.line[m] # "absent" => r.line[m] # "absent"

\* What a turn of the runner on the job j of jb leaves: the await it is at, with what it
\* sent on the way there.
Turns(jb, j) ==
    /\ job' \in Jobs
    /\ \A k \in JobIds \ {j} : job'[k] = jb[k]
    /\ GoneOn(jb[j], job'[j])
    /\ runner' \in Runners /\ runner'.id = j /\ runner'.skip = FALSE
    /\ runner'.at = "call" => ~jb[j].batch /\ runner'.mod \in Mods
    /\ runner'.at = "batch" => jb[j].batch
    /\ \/ runner'.at = "profile" /\ mail' = mail
       \/ runner'.at \in {"call", "batch"} /\ mail' = Append(mail, Msg("call", j))
       \/ runner'.at = "clear" /\ mail' = Append(mail, Msg("clear", j))

\* One line of a job moves.
Moved(r, m, phase, s) ==
    /\ s \in JobRecords /\ SameJob(r, s)
    /\ \A k \in Lines : s.line[k] = IF k = m THEN phase ELSE r.line[k]

LEMMA LineMoves ==
    ASSUME NEW r \in JobRecords, NEW m \in Lines, NEW phase \in Phases
    PROVE  Moved(r, m, phase, [r EXCEPT !.line[m] = phase])
<1> DEFINE ln == [r.line EXCEPT ![m] = phase]
           s == [r EXCEPT !.line = ln]
<1>1. ln \in [Lines -> Phases] /\ \A k \in Lines : ln[k] = IF k = m THEN phase ELSE r.line[k]
  BY DEF JobRecords
<1>2. [r EXCEPT !.line[m] = phase] = s OBVIOUS
<1> HIDE DEF ln
<1>3. s \in JobRecords /\ s.line = ln BY <1>1 DEF JobRecords
<1>4. SameJob(r, s) BY DEF JobRecords, SameJob
<1> HIDE DEF s
<1>5. Moved(r, m, phase, s) BY <1>1, <1>3, <1>4 DEF Moved
<1> QED BY <1>2, <1>5

LEMMA MsgIs ==
    \A cmd, id : Msg(cmd, id) = [cmd |-> cmd, id |-> id]
                 /\ Msg(cmd, id).cmd = cmd /\ Msg(cmd, id).id = id
BY DEF Msg

LEMMA GoOnTurns ==
    ASSUME NEW jb \in Jobs, NEW j \in JobIds, ~jb[j].batch, mail \in Seq(Messages), GoOn(jb, j)
    PROVE  Turns(jb, j)
<1> DEFINE s == jb[j].mods
           rest == {k \in 1..Len(s) : jb[j].line[s[k]] = "queued"}
           i == CHOOSE k \in rest : \A l \in rest : k <= l
<1>1. s \in Seq(Mods) /\ jb[j] \in JobRecords BY DEF Jobs, JobRecords
<1>2. CASE rest # {} /\ ~jb[j].stop
  <2>1. /\ job' = [jb EXCEPT ![j].line[s[i]] = "running"]
        /\ runner' = [at |-> "call", id |-> j, mod |-> s[i], skip |-> FALSE]
        /\ mail' = mail \o <<Msg("call", j)>>
    BY <1>2 DEF GoOn, Post
  <2>2. rest \subseteq Nat /\ rest # {} BY <1>2
  <2>3. \E k \in rest : \A l \in rest : k <= l
    <3> HIDE DEF rest
    <3> QED BY <2>2, LeastOf
  <2>4. i \in rest
    <3> HIDE DEF rest
    <3> QED BY <2>3
  <2> DEFINE m == s[i]
  <2>5. m \in Mods /\ m \in Lines /\ jb[j].line[m] = "queued"
    <3>1. i \in 1..Len(s) /\ jb[j].line[s[i]] = "queued" BY <2>4
    <3> HIDE DEF s, i
    <3> QED BY <1>1, <3>1 DEF Lines
  <2>6. job' = [jb EXCEPT ![j].line[m] = "running"]
        /\ runner' = [at |-> "call", id |-> j, mod |-> m, skip |-> FALSE] BY <2>1
  <2> HIDE DEF m, i, rest, s
  <2>7. job' \in Jobs /\ (\A k \in JobIds \ {j} : job'[k] = jb[k])
        /\ job'[j] = [jb[j] EXCEPT !.line[m] = "running"]
    BY <2>5, <2>6 DEF Jobs, JobRecords, Phases
  <2> DEFINE t == [jb[j] EXCEPT !.line[m] = "running"]
  <2>p. Moved(jb[j], m, "running", t) BY <1>1, <2>5, LineMoves DEF Phases
  <2> HIDE DEF t
  <2>q. job'[j] = t BY <2>7 DEF t
  <2>8. GoneOn(jb[j], job'[j]) BY <2>5, <2>p, <2>q DEF Moved, GoneOn, Lines
  <2>9. mail' = Append(mail, Msg("call", j)) BY <2>1
  <2> QED BY <2>5, <2>6, <2>7, <2>8, <2>9 DEF Turns, Runners
<1>3. CASE ~(rest # {} /\ ~jb[j].stop)
  <2> DEFINE line == [m \in Lines |-> IF jb[j].line[m] = "queued" THEN "cancelled"
                                      ELSE jb[j].line[m]]
  <2>1. /\ job' = [jb EXCEPT ![j].line = line]
        /\ runner' = [Idle EXCEPT !.at = "clear", !.id = j]
        /\ mail' = mail \o <<Msg("clear", j)>>
    BY <1>3 DEF GoOn, Post, Jobs, JobRecords
  <2>2. line \in [Lines -> Phases] BY <1>1 DEF JobRecords, Phases
  <2>3. \A m \in Mods : m \in Lines BY DEF Lines
  <2>4. \A m \in Mods : /\ line[m] = "done" => jb[j].line[m] = "done"
                        /\ line[m] # "absent" => jb[j].line[m] # "absent"
    BY <2>3
  <2> HIDE DEF line, rest, s
  <2>5. job' \in Jobs /\ (\A k \in JobIds \ {j} : job'[k] = jb[k])
        /\ job'[j] = [jb[j] EXCEPT !.line = line]
    BY <2>1, <2>2 DEF Jobs, JobRecords
  <2>6. GoneOn(jb[j], job'[j]) BY <1>1, <2>2, <2>4, <2>5 DEF GoneOn, SameJob, JobRecords
  <2>7. mail' = Append(mail, Msg("clear", j)) BY <2>1
  <2> QED BY <2>1, <2>5, <2>6, <2>7 DEF Turns, Runners, Idle, NoMod, Lines
<1> QED BY <1>2, <1>3

LEMMA SendBatchTurns ==
    ASSUME NEW jb \in Jobs, NEW j \in JobIds, jb[j].batch, mail \in Seq(Messages),
           SendBatch(jb, j)
    PROVE  Turns(jb, j)
<1>1. jb[j] \in JobRecords BY DEF Jobs
<1>2. \A cmd : mail \o <<Msg(cmd, j)>> = Append(mail, Msg(cmd, j)) OBVIOUS
<1>3. ASSUME job' = jb PROVE job' \in Jobs /\ GoneOn(jb[j], job'[j])
                             /\ \A k \in JobIds \ {j} : job'[k] = jb[k]
  BY <1>1, <1>3 DEF GoneOn, SameJob
<1>4. ASSUME job' = [jb EXCEPT ![j].line[Whole] = "running"]
      PROVE  job' \in Jobs /\ GoneOn(jb[j], job'[j])
             /\ \A k \in JobIds \ {j} : job'[k] = jb[k]
  <2>1. job' \in Jobs /\ (\A k \in JobIds \ {j} : job'[k] = jb[k])
        /\ job'[j] = [jb[j] EXCEPT !.line[Whole] = "running"]
    BY <1>4 DEF Jobs, JobRecords, Phases, Lines
  <2>2. \A m \in Mods : m \in Lines /\ m # Whole BY Jobs_Assumption DEF Lines
  <2> DEFINE t == [jb[j] EXCEPT !.line[Whole] = "running"]
  <2>p. Moved(jb[j], Whole, "running", t) BY <1>1, LineMoves DEF Phases, Lines
  <2> HIDE DEF t
  <2>q. job'[j] = t BY <2>1 DEF t
  <2>3. GoneOn(jb[j], job'[j]) BY <2>2, <2>p, <2>q DEF Moved, GoneOn
  <2> QED BY <2>1, <2>3
<1>5. CASE \E m \in Lines : jb[j].line[m] = "failed"
  <2>1. job' = jb /\ runner' = [Idle EXCEPT !.at = "clear", !.id = j]
        /\ mail' = Append(mail, Msg("clear", j))
    BY <1>2, <1>5 DEF SendBatch, Post
  <2> QED BY <1>3, <2>1 DEF Turns, Runners, Idle, NoMod, Lines
<1>6. CASE ~(\E m \in Lines : jb[j].line[m] = "failed")
  <2>1. /\ job' = jb \/ job' = [jb EXCEPT ![j].line[Whole] = "running"]
        /\ runner' = [Idle EXCEPT !.at = "batch", !.id = j]
        /\ mail' = Append(mail, Msg("call", j))
    BY <1>2, <1>6 DEF SendBatch, Post
  <2> QED BY <1>3, <1>4, <2>1 DEF Turns, Runners, Idle, NoMod, Lines
<1> QED BY <1>5, <1>6

LEMMA WorkTurns ==
    ASSUME NEW jb \in Jobs, NEW j \in JobIds, mail \in Seq(Messages), Work(jb, j)
    PROVE  Turns(jb, j)
BY GoOnTurns, SendBatchTurns DEF Work

LEMMA IdsAreNumbers ==
    /\ JobIds \subseteq Nat
    /\ \A s \in Seq(JobIds) : s \in Seq(Nat)
<1>1. JobIds \subseteq Nat BY Jobs_Assumption DEF JobIds
<1>2. ASSUME NEW s \in Seq(JobIds) PROVE s \in Seq(Nat)
  <2>1. Len(s) \in Nat /\ \A i \in 1..Len(s) : s[i] \in JobIds OBVIOUS
  <2>2. \A i \in 1..Len(s) : s[i] \in Nat BY <1>1, <2>1
  <2> QED BY <2>1, <2>2
<1> QED BY <1>1, <1>2

\* The job j of jb begins.
Begins(jb, j) == [jb EXCEPT ![j].state = "running"]

LEMMA BeginsIs ==
    ASSUME NEW jb \in Jobs, NEW j \in JobIds
    PROVE  /\ Begins(jb, j) \in Jobs
           /\ \A k \in JobIds \ {j} : Begins(jb, j)[k] = jb[k]
           /\ Begins(jb, j)[j].state = "running" /\ Begins(jb, j)[j].stop = jb[j].stop
           /\ Begins(jb, j)[j].mods = jb[j].mods /\ Begins(jb, j)[j].batch = jb[j].batch
           /\ Begins(jb, j)[j].line = jb[j].line
BY DEF Begins, Jobs, JobRecords, States

\* The pump stops, or a queued job of the list takes its turn, and none of them was
\* queued before it.
Pumps(js, jb) ==
    \/ job' = jb /\ runner' = Idle /\ mail' = mail
    \/ \E j \in ToSet(js) :
        /\ jb[j].state = "queued"
        /\ \A k \in ToSet(js) : jb[k].state = "queued" => j <= k
        /\ Turns(Begins(jb, j), j)

LEMMA PumpPumps ==
    ASSUME NEW js \in Seq(JobIds), Ascending(js), NEW jb \in Jobs, mail \in Seq(Messages),
           Pump(js, jb)
    PROVE  Pumps(js, jb)
<1> DEFINE S == {j \in JobIds : jb[j].state # "queued"}
           w == Waiting(js, jb)
<1>1. w = Without(js, S) BY DEF Waiting
<1>2. w \in Seq(JobIds) /\ ToSet(w) = ToSet(js) \ S /\ ToSet(js) \subseteq JobIds
  BY <1>1, WithoutElements, ListElements
<1>3. js \in Seq(Nat) /\ w \in Seq(Nat) BY <1>2, IdsAreNumbers
<1>4. Ascending(w) BY <1>1, <1>3, WithoutAscending
<1>5. CASE w = <<>> BY <1>5 DEF Pump, Pumps
<1>6. CASE w # <<>>
  <2> DEFINE j == Head(w)
  <2>1. j \in ToSet(w) BY <1>2, <1>6, ListElements
  <2>2. \A k \in ToSet(w) : j <= k BY <1>3, <1>4, <1>6, HeadIsLeast
  <2>3. j \in ToSet(js) /\ j \in JobIds /\ jb[j].state = "queued" BY <2>1, <1>2
  <2>4. \A k \in ToSet(js) : jb[k].state = "queued" => j <= k BY <2>2, <1>2
  <2>5. IF jb[j].profile # AnyProfile
        THEN /\ job' = Begins(jb, j) /\ runner' = [Idle EXCEPT !.at = "profile", !.id = j]
             /\ mail' = mail
        ELSE Work(Begins(jb, j), j)
    BY <1>6 DEF Pump, Begins
  <2> HIDE DEF j, w
  <2>6. Begins(jb, j) \in Jobs BY <2>3, BeginsIs
  <2>7. CASE jb[j].profile # AnyProfile
    <3>1. job' = Begins(jb, j) /\ runner' = [Idle EXCEPT !.at = "profile", !.id = j]
          /\ mail' = mail
      BY <2>5, <2>7
    <3>2. Begins(jb, j)[j] \in JobRecords BY <2>3, <2>6 DEF Jobs
    <3>3. GoneOn(Begins(jb, j)[j], job'[j]) BY <3>1, <3>2 DEF GoneOn, SameJob
    <3>4. Turns(Begins(jb, j), j)
      BY <2>3, <2>6, <3>1, <3>3 DEF Turns, Runners, Idle, NoMod, Lines
    <3> QED BY <2>3, <2>4, <3>4 DEF Pumps
  <2>8. CASE jb[j].profile = AnyProfile
    <3>1. Turns(Begins(jb, j), j) BY <2>3, <2>5, <2>6, <2>8, WorkTurns
    <3> QED BY <2>3, <2>4, <3>1 DEF Pumps
  <2> QED BY <2>7, <2>8
<1> QED BY <1>5, <1>6

-------------------------------------------------------------------------------
(* The types, and the list of the jobs that are not over.                    *)

Types ==
    /\ nextId \in 1..(MaxJobs + 1)
    /\ jobs \in Seq(JobIds)
    /\ job \in Jobs
    /\ runner \in Runners
    /\ call \in Calls
    /\ sweep \in Sweeps
    /\ click \in [Clicks -> [at : {"unused", "waiting", "over"}, jobs : SUBSET JobIds]]
    /\ worker \in {"none", "job", "sweep"}
    /\ killed \in BOOLEAN
    /\ tokens \in Tokens
    /\ mail \in Seq(Messages)
    /\ active \in Profiles
    /\ on \in [Profiles -> SUBSET Mods]

Live(jb) == {j \in JobIds : jb[j].state \in {"queued", "running"}}

ListInv == ToSet(jobs) = Live(job) /\ Ascending(jobs)

LEMMA TypeParts ==
    /\ TypeOK <=> Types /\ ListInv
    /\ TypeOK' <=> Types' /\ ListInv'
<1>1. \A s \in Seq(JobIds) : ToSet(s) = {s[i] : i \in 1..Len(s)}
  <2> TAKE s \in Seq(JobIds)
  <2>1. DOMAIN s = 1..Len(s) OBVIOUS
  <2> QED BY <2>1 DEF ToSet
<1>2. TypeOK <=> Types /\ ListInv
  BY <1>1 DEF TypeOK, Types, ListInv, Live, Ascending, Jobs
<1>3. TypeOK' <=> Types' /\ ListInv'
  BY <1>1 DEF TypeOK, Types, ListInv, Live, Ascending, Jobs
<1> QED BY <1>2, <1>3

\* The first mod of a list that is still left is one of those left.
LEMMA FirstLeftIs ==
    ASSUME NEW s \in Seq(Mods), NEW left, left \subseteq {s[i] : i \in 1..Len(s)}, left # {}
    PROVE  FirstLeft(s, left) \in left
<1> DEFINE B == {i \in 1..Len(s) : s[i] \in left}
           Q(i) == s[i] \in left /\ \A k \in 1..(i - 1) : s[k] \notin left
<1>1. B # {} /\ B \subseteq Nat OBVIOUS
<1>2. PICK b \in B : \A c \in B : b <= c
  <2> HIDE DEF B
  <2> QED BY <1>1, LeastOf
<1>3. b \in 1..Len(s) /\ s[b] \in left OBVIOUS
<1>4. \A k \in 1..(b - 1) : s[k] \notin left
  <2> TAKE k \in 1..(b - 1)
  <2>1. k \in 1..Len(s) /\ ~(b <= k) BY <1>3
  <2> QED BY <2>1, <1>2
<1>5. \E i \in 1..Len(s) : Q(i) BY <1>3, <1>4
<1>6. Q(CHOOSE i \in 1..Len(s) : Q(i))
  <2> HIDE DEF Q
  <2> QED BY <1>5
<1> QED BY <1>6 DEF FirstLeft

LEMMA DeliverTypes ==
    ASSUME Types, Deliver
    PROVE  Types'
<1> USE DEF Types, ui, backend
<1>1. mail # <<>> /\ mail' = Tail(mail) /\ Head(mail) \in Messages
  <2>1. mail # <<>> /\ mail' = Tail(mail)
    BY DEF Deliver, SpawnCall, SpawnSweep, StopArrives, StopAllArrives, KillArrives,
           ClearArrives, LowerArrives, Delivered
  <2> QED BY <2>1
<1>2. mail' \in Seq(Messages) /\ Head(mail).id \in JobIds BY <1>1 DEF Messages
<1>3. CASE SpawnCall BY <1>2, <1>3 DEF SpawnCall, Calls
<1>4. CASE SpawnSweep BY <1>2, <1>4 DEF SpawnSweep, Sweeps
<1>5. CASE StopArrives
  <2>1. tokens' \in Tokens BY <1>2, <1>5, StopScopeScopes DEF StopArrives, Opens
  <2> QED BY <1>2, <1>5, <2>1 DEF StopArrives
<1>6. CASE StopAllArrives
  <2>1. tokens' \in Tokens BY <1>2, <1>6, OtherTokens DEF StopAllArrives
  <2>2. killed' \in BOOLEAN BY <1>6 DEF StopAllArrives
  <2> QED BY <1>2, <1>6, <2>1, <2>2 DEF StopAllArrives
<1>7. CASE KillArrives
  <2>1. killed' \in BOOLEAN BY <1>7 DEF KillArrives
  <2> QED BY <1>2, <1>7, <2>1 DEF KillArrives
<1>8. CASE ClearArrives
  <2>1. tokens' \in Tokens BY <1>2, <1>8, OtherTokens DEF ClearArrives
  <2>2. runner' \in Runners BY <1>8 DEF ClearArrives, Runners
  <2> QED BY <1>2, <1>8, <2>1, <2>2 DEF ClearArrives
<1>9. CASE LowerArrives
  <2>1. tokens' \in Tokens
    <3>1. Head(mail).id \in JobIds BY <1>2
    <3> QED BY <3>1, <1>9, OtherTokens DEF LowerArrives
  <2>2. sweep' \in Sweeps BY <1>9 DEF LowerArrives, Sweeps
  <2> QED BY <1>2, <1>9, <2>1, <2>2 DEF LowerArrives
<1> QED BY <1>3, <1>4, <1>5, <1>6, <1>7, <1>8, <1>9 DEF Deliver

\* A call's operation ends within the types, and its mod leaves what is left to do.
LEMMA OpEndsTypes ==
    ASSUME Types, NEW c \in Calls, OpEnds(c)
    PROVE  call' \in Calls
<1>1. CASE job[runner.id].batch
  <2> DEFINE l == c.left \ {call.mod}
  <2>1. call' = [c EXCEPT !.at = "loop", !.left = l] BY <1>1 DEF OpEnds
  <2>2. l \in SUBSET Mods BY DEF Calls
  <2> HIDE DEF l
  <2> QED BY <2>1, <2>2 DEF Calls
<1>2. CASE ~job[runner.id].batch
  <2>1. call' = [c EXCEPT !.at = "answered"] BY <1>2 DEF OpEnds
  <2> QED BY <2>1 DEF Calls
<1> QED BY <1>1, <1>2

LEMMA RunnerOne ==
    ASSUME Types, RunnerInv
    PROVE  /\ runner.id \in JobIds /\ runner.mod \in Lines
           /\ job[runner.id] \in JobRecords
           /\ ModsOf(job[runner.id]) \subseteq Mods
           /\ runner.at # "idle" => job[runner.id].state = "running"
<1>1. runner.id \in JobIds /\ runner.mod \in Lines BY DEF Types, Runners
<1>2. job[runner.id] \in JobRecords BY <1>1 DEF Types, Jobs
<1>3. job[runner.id].mods \in Seq(Mods) BY <1>2 DEF JobRecords
<1>4. ModsOf(job[runner.id]) \subseteq Mods
  <2> DEFINE s == job[runner.id].mods
  <2>1. s \in Seq(Mods) BY <1>3
  <2> HIDE DEF s
  <2>2. \A i \in 1..Len(s) : s[i] \in Mods BY <2>1
  <2> QED BY <2>2 DEF ModsOf, s
<1>5. runner.at # "idle" => job[runner.id].state = "running"
  BY DEF RunnerInv, Running
<1> QED BY <1>1, <1>2, <1>4, <1>5

LEMMA CallTypes ==
    ASSUME Types, RunnerInv, CallInv, CallStep
    PROVE  Types'
<1> USE DEF Types, ui, backend
<1>1. /\ runner.id \in JobIds /\ runner.mod \in Lines
      /\ job[runner.id] \in JobRecords /\ ModsOf(job[runner.id]) \subseteq Mods
  BY RunnerOne
<1>2. active \in Profiles /\ on[active] \in SUBSET Mods OBVIOUS
<1>3. CASE CallBegins
  <2>1. tokens' \in Tokens BY <1>1, <1>3, OpenedScopes DEF CallBegins, Opens
  <2> DEFINE gone == ModsOf(job[runner.id]) \ on[active]
             here == ModsOf(job[runner.id]) \cap on[active]
             one == {runner.mod}
  <2>2. \/ call' = [call EXCEPT !.at = "answered", !.cut = one]
        \/ call' = [call EXCEPT !.at = "answered", !.did = one]
        \/ call' = [call EXCEPT !.at = "plan", !.mod = runner.mod, !.to = active]
        \/ call' = [call EXCEPT !.at = "answered", !.reply = "error"]
        \/ call' = [call EXCEPT !.at = "loop", !.pid = active, !.left = gone, !.did = here]
    BY <1>3 DEF CallBegins
  <2>3. gone \in SUBSET Mods /\ here \in SUBSET Lines /\ one \in SUBSET Lines
    BY <1>1 DEF Lines
  <2> HIDE DEF gone, here, one
  <2>4. call' \in Calls
    <3>1. CASE call' = [call EXCEPT !.at = "answered", !.cut = one]
      BY <2>3, <3>1 DEF Calls
    <3>2. CASE call' = [call EXCEPT !.at = "answered", !.did = one]
      BY <2>3, <3>2 DEF Calls
    <3>3. CASE call' = [call EXCEPT !.at = "plan", !.mod = runner.mod, !.to = active]
      BY <1>1, <1>2, <3>3 DEF Calls
    <3>4. CASE call' = [call EXCEPT !.at = "answered", !.reply = "error"]
      BY <3>4 DEF Calls
    <3>5. CASE call' = [call EXCEPT !.at = "loop", !.pid = active, !.left = gone, !.did = here]
      BY <1>2, <2>3, <3>5 DEF Calls
    <3> QED BY <2>2, <3>1, <3>2, <3>3, <3>4, <3>5
  <2> QED BY <1>3, <2>1, <2>4 DEF CallBegins
<1>4. CASE BatchTakes
  <2> DEFINE m == FirstLeft(job[runner.id].mods, call.left)
             L == call.left \ {m}
             D == call.did \cup {m}
             B == call.bad \cup {m}
  <2>1. \/ \E r \in {"ok", "cancelled"} :
             /\ call' = [call EXCEPT !.at = "answered", !.reply = r] /\ job' = job
        \/ /\ call.left # {}
           /\ \/ /\ call' = [call EXCEPT !.left = L, !.did = D] /\ job' = job
              \/ /\ call' = [call EXCEPT !.at = "plan", !.mod = m, !.to = active]
                 /\ Told(m, "running")
              \/ /\ call' = [call EXCEPT !.left = L, !.bad = B] /\ job' = job
    BY <1>4 DEF BatchTakes
  <2>2. call.left # {} => m \in Mods
    <3>1. call.left \subseteq ModsOf(job[runner.id]) BY <1>4 DEF BatchTakes, CallInv
    <3>2. job[runner.id].mods \in Seq(Mods) BY <1>1 DEF JobRecords
    <3> QED BY <1>1, <3>1, <3>2, FirstLeftIs DEF ModsOf
  <2> HIDE DEF m
  <2>s. call.left # {} => m \in Lines /\ L \in SUBSET Mods /\ D \in SUBSET Lines
                          /\ B \in SUBSET Lines
    BY <2>2 DEF Calls, Lines
  <2> HIDE DEF L, D, B
  <2>3. call' \in Calls
    <3>1. CASE \E r \in {"ok", "cancelled"} : call' = [call EXCEPT !.at = "answered", !.reply = r]
      BY <3>1 DEF Calls
    <3>2. CASE call.left # {} /\ call' = [call EXCEPT !.left = L, !.did = D]
      BY <2>s, <3>2 DEF Calls
    <3>3. CASE call.left # {} /\ call' = [call EXCEPT !.at = "plan", !.mod = m, !.to = active]
      BY <1>2, <2>s, <3>3 DEF Calls
    <3>4. CASE call.left # {} /\ call' = [call EXCEPT !.left = L, !.bad = B]
      BY <2>s, <3>4 DEF Calls
    <3> QED BY <2>1, <3>1, <3>2, <3>3, <3>4
  <2>4. job' \in Jobs
    <3>1. CASE job' = job BY <3>1
    <3>2. CASE call.left # {} /\ Told(m, "running")
      BY <2>2, <3>2, ToldJobs DEF JobsStand, Phases, Lines
    <3> QED BY <2>1, <3>1, <3>2
  <2> QED BY <1>4, <2>3, <2>4 DEF BatchTakes
<1>5. CASE LockTaken
  <2>1. call' \in Calls BY <1>5 DEF LockTaken, Calls
  <2> QED BY <1>5, <2>1 DEF LockTaken
<1>6. CASE OpDone
  <2>1. call.mod \in Mods /\ call.mod \in Lines /\ call.to \in Profiles
    BY <1>6 DEF OpDone, CallInv, Lines
  <2>2. on' \in [Profiles -> SUBSET Mods] BY <1>6, <2>1 DEF OpDone, Recorded
  <2> DEFINE d == call.did \cup {call.mod}
             c == [call EXCEPT !.did = d]
  <2>3. OpEnds(c) /\ Told(call.mod, "done") BY <1>6 DEF OpDone
  <2>4. d \in SUBSET Lines BY <2>1 DEF Calls
  <2> HIDE DEF d
  <2>5. c \in Calls BY <2>4 DEF Calls
  <2> HIDE DEF c
  <2>6. call' \in Calls BY <2>3, <2>5, OpEndsTypes
  <2>7. job' \in Jobs BY <2>1, <2>3, ToldJobs DEF JobsStand, Phases
  <2> QED BY <1>6, <2>2, <2>6, <2>7 DEF OpDone
<1>7. CASE OpFails
  <2>1. call.mod \in Mods /\ call.mod \in Lines BY <1>7 DEF OpFails, CallInv, Lines
  <2> DEFINE d == call.bad \cup {call.mod}
             c == IF job[runner.id].batch THEN [call EXCEPT !.bad = d]
                  ELSE [call EXCEPT !.reply = "error"]
  <2>3. OpEnds(c) /\ Told(call.mod, "failed") BY <1>7 DEF OpFails
  <2>4. d \in SUBSET Lines BY <2>1 DEF Calls
  <2> HIDE DEF d
  <2>5. c \in Calls BY <2>4 DEF Calls
  <2> HIDE DEF c
  <2>6. call' \in Calls BY <2>3, <2>5, OpEndsTypes
  <2>7. job' \in Jobs BY <2>1, <2>3, ToldJobs DEF JobsStand, Phases
  <2> QED BY <1>7, <2>6, <2>7 DEF OpFails
<1>8. CASE OpCut
  <2>1. call.mod \in Mods /\ call.mod \in Lines BY <1>8 DEF OpCut, CallInv, Lines
  <2> DEFINE d == call.cut \cup {call.mod}
             c == [call EXCEPT !.cut = d]
  <2>3. OpEnds(c) /\ Told(call.mod, "cancelled") BY <1>8 DEF OpCut
  <2>4. d \in SUBSET Lines BY <2>1 DEF Calls
  <2> HIDE DEF d
  <2>5. c \in Calls BY <2>4 DEF Calls
  <2> HIDE DEF c
  <2>6. call' \in Calls BY <2>3, <2>5, OpEndsTypes
  <2>7. job' \in Jobs BY <2>1, <2>3, ToldJobs DEF JobsStand, Phases
  <2> QED BY <1>8, <2>6, <2>7 DEF OpCut
<1> QED BY <1>3, <1>4, <1>5, <1>6, <1>7, <1>8 DEF CallStep

\* What ends leaves a record of its own.
LEMMA GoneIs ==
    \A state \in States : Gone(state) \in JobRecords /\ Gone(state).state = state
                          /\ \A m \in Lines : Gone(state).line[m] = "absent"
<1>1. NoLines \in [Lines -> Phases] /\ \A m \in Lines : NoLines[m] = "absent"
  BY DEF NoLines, Phases
<1>2. <<>> \in Seq(Mods) OBVIOUS
<1> HIDE DEF NoLines
<1> QED BY <1>1, <1>2 DEF Gone, NoJob, JobRecords, States, Modes

LEMMA MsgTypes ==
    \A cmd \in {"call", "sweep", "stop", "stopAll", "kill", "clear", "lower"}, j \in JobIds :
        Msg(cmd, j) \in Messages
BY DEF Msg, Messages

LEMMA TurnsTypes ==
    ASSUME mail \in Seq(Messages), NEW jb \in Jobs, NEW j \in JobIds, Turns(jb, j)
    PROVE  job' \in Jobs /\ runner' \in Runners /\ mail' \in Seq(Messages)
<1>1. mail' = mail \/ \E cmd \in {"call", "clear"} : mail' = Append(mail, Msg(cmd, j))
  BY DEF Turns
<1>2. mail' \in Seq(Messages) BY <1>1, MsgTypes, MailGrows
<1> QED BY <1>2 DEF Turns

LEMMA PumpsTypes ==
    ASSUME mail \in Seq(Messages), NEW js \in Seq(JobIds), NEW jb \in Jobs, Pumps(js, jb)
    PROVE  job' \in Jobs /\ runner' \in Runners /\ mail' \in Seq(Messages)
<1>1. CASE job' = jb /\ runner' = Idle /\ mail' = mail
  <2>1. 1 \in JobIds BY Jobs_Assumption DEF JobIds
  <2> QED BY <1>1, <2>1 DEF Runners, Idle, NoMod, Lines
<1>2. CASE \E j \in ToSet(js) : Turns(Begins(jb, j), j)
  BY <1>2, ListElements, BeginsIs, TurnsTypes
<1> QED BY <1>1, <1>2 DEF Pumps

\* The runner hears of its mod, and goes on.
Verdict ==
    IF job[runner.id].stop \/ (call.reply = "ok" /\ runner.skip) THEN "cancelled"
    ELSE IF call.reply = "ok" THEN "done" ELSE "failed"

Heard == [job EXCEPT ![runner.id].line[runner.mod] = Verdict]

LEMMA HearsTurns ==
    ASSUME Types, RunnerInv, RunnerHears
    PROVE  /\ Heard \in Jobs /\ Turns(Heard, runner.id) /\ call' = NoCall
           /\ \A k \in JobIds \ {runner.id} : Heard[k] = job[k]
           /\ Moved(job[runner.id], runner.mod, Verdict, Heard[runner.id])
           /\ runner.at = "call" /\ call.at = "answered"
<1>1. runner.id \in JobIds /\ runner.mod \in Lines /\ job[runner.id] \in JobRecords
  BY RunnerOne
<1>2. runner.at = "call" /\ call.at = "answered" /\ call' = NoCall /\ GoOn(Heard, runner.id)
  BY DEF RunnerHears, Heard, Verdict
<1>3. Verdict \in Phases BY DEF Verdict, Phases
<1>4. Heard \in Jobs /\ (\A k \in JobIds \ {runner.id} : Heard[k] = job[k])
      /\ Heard[runner.id] = [job[runner.id] EXCEPT !.line[runner.mod] = Verdict]
  BY <1>1, <1>3 DEF Types, Heard, Jobs, JobRecords
<1>5. Moved(job[runner.id], runner.mod, Verdict, Heard[runner.id])
  BY <1>1, <1>3, <1>4, LineMoves
<1>6. ~Heard[runner.id].batch BY <1>2, <1>5 DEF RunnerInv, Moved, SameJob
<1>7. Turns(Heard, runner.id) BY <1>1, <1>2, <1>4, <1>6, GoOnTurns DEF Types
<1> QED BY <1>2, <1>4, <1>5, <1>7

\* The profile is read: the runner goes on, with the lines refused or not.
LEMMA ProfileTurns ==
    ASSUME Types, RunnerInv, ProfileIsRead
    PROVE  Turns(job, runner.id)
<1> DEFINE j == runner.id
           refused == [m \in Lines |-> IF job[j].line[m] = "absent" THEN "absent" ELSE "failed"]
           jb == IF active = job[j].profile THEN job ELSE [job EXCEPT ![j].line = refused]
<1>1. j \in JobIds /\ job[j] \in JobRecords /\ job \in Jobs BY RunnerOne DEF Types
<1>2. Work(jb, j) BY DEF ProfileIsRead
<1>3. refused \in [Lines -> Phases] BY DEF Phases
<1>4. \A m \in Mods : m \in Lines BY DEF Lines
<1>5. \A m \in Mods : refused[m] # "done" /\ (refused[m] # "absent" => job[j].line[m] # "absent")
  BY <1>4
<1> HIDE DEF refused, j
<1>6. jb \in Jobs /\ (\A k \in JobIds \ {j} : jb[k] = job[k]) /\ GoneOn(job[j], jb[j])
  <2>1. CASE active = job[j].profile BY <1>1, <2>1 DEF GoneOn, SameJob
  <2>2. CASE active # job[j].profile
    <3>1. jb = [job EXCEPT ![j].line = refused] BY <2>2
    <3> HIDE DEF jb
    <3>2. jb \in Jobs /\ (\A k \in JobIds \ {j} : jb[k] = job[k])
          /\ jb[j] = [job[j] EXCEPT !.line = refused]
      BY <1>1, <1>3, <3>1 DEF Jobs, JobRecords
    <3>3. jb[j] \in JobRecords /\ SameJob(job[j], jb[j]) /\ jb[j].line = refused
      BY <1>1, <1>3, <3>2 DEF JobRecords, SameJob
    <3> QED BY <1>5, <3>2, <3>3 DEF GoneOn
  <2> QED BY <2>1, <2>2
<1> HIDE DEF jb
<1>7. Turns(jb, j) BY <1>1, <1>2, <1>6, WorkTurns DEF Types
<1>8. GoneOn(job[j], job'[j]) BY <1>6, <1>7 DEF Turns, GoneOn, SameJob
<1>9. jb[j].batch = job[j].batch BY <1>6 DEF GoneOn, SameJob
<1>10. Turns(job, j) BY <1>6, <1>7, <1>8, <1>9 DEF Turns
<1> QED BY <1>10 DEF j

\* A batch is heard: the job stands, its lines are settled, and it may turn out stopped.
LEMMA BatchHeard ==
    ASSUME Types, RunnerInv, RunnerHearsBatch
    PROVE  /\ runner.at = "batch" /\ call.at = "answered" /\ call' = NoCall
           /\ runner' = [Idle EXCEPT !.at = "clear", !.id = runner.id]
           /\ mail' = Append(mail, Msg("clear", runner.id))
           /\ job' \in Jobs /\ \A k \in JobIds \ {runner.id} : job'[k] = job[k]
           /\ LET r == job[runner.id]
                  s == job'[runner.id]
              IN  /\ s.mods = r.mods /\ s.batch = r.batch /\ s.state = r.state
                  /\ s.stop = (r.stop \/ call.reply = "cancelled")
                  /\ \A m \in Mods :
                      /\ r.line[m] = "absent" => s.line[m] = "absent"
                      /\ s.line[m] = "done" /\ r.line[m] # "done" =>
                           r.line[m] \in {"queued", "running"} /\ m \notin call.bad
                           /\ call.reply = "ok"
<1> DEFINE j       == runner.id
           stopped == job[j].stop \/ call.reply = "cancelled"
           settled == [m \in Lines |->
               IF job[j].line[m] = "absent" THEN "absent"
               ELSE IF m = Whole /\ call.reply # "error" THEN "done"
               ELSE IF m \in call.bad THEN "failed"
               ELSE IF job[j].line[m] \in Over THEN job[j].line[m]
               ELSE IF stopped THEN "cancelled"
               ELSE IF call.reply = "error" THEN "failed" ELSE "done"]
<1>1. j \in JobIds /\ job[j] \in JobRecords /\ job \in Jobs /\ call \in Calls
  BY RunnerOne DEF Types
<1>2. /\ runner.at = "batch" /\ call.at = "answered" /\ call' = NoCall
      /\ runner' = [Idle EXCEPT !.at = "clear", !.id = runner.id]
      /\ job' = [job EXCEPT ![j].line = settled, ![j].stop = stopped]
      /\ mail' = mail \o <<Msg("clear", runner.id)>>
  BY DEF RunnerHearsBatch, Post
<1>3. mail' = Append(mail, Msg("clear", runner.id)) BY <1>2 DEF Types
<1>4. \A m \in Mods : m \in Lines /\ m # Whole BY Jobs_Assumption DEF Lines
<1>5. \A m \in Lines : settled[m] =
               IF job[j].line[m] = "absent" THEN "absent"
               ELSE IF m = Whole /\ call.reply # "error" THEN "done"
               ELSE IF m \in call.bad THEN "failed"
               ELSE IF job[j].line[m] \in Over THEN job[j].line[m]
               ELSE IF stopped THEN "cancelled"
               ELSE IF call.reply = "error" THEN "failed" ELSE "done"
  OBVIOUS
<1>6. \A m \in Lines : settled[m] \in Phases
  <2> TAKE m \in Lines
  <2>1. job[j].line[m] \in Phases BY <1>1 DEF JobRecords
  <2> HIDE DEF stopped, settled
  <2> QED BY <1>5, <2>1 DEF Phases, Over
<1>7. settled \in [Lines -> Phases]
  <2>1. settled = [m \in Lines |-> settled[m]] OBVIOUS
  <2> HIDE DEF settled
  <2> QED BY <1>6, <2>1
<1>8. call.reply \in {"ok", "error", "cancelled"} BY <1>1 DEF Calls
<1>9. ASSUME NEW m \in Mods
      PROVE  /\ job[j].line[m] = "absent" => settled[m] = "absent"
             /\ settled[m] = "done" /\ job[j].line[m] # "done" =>
                  job[j].line[m] \in {"queued", "running"} /\ m \notin call.bad
                  /\ call.reply = "ok"
  <2>1. m \in Lines /\ m # Whole /\ job[j].line[m] \in Phases
    BY <1>1, <1>4 DEF JobRecords
  <2>2. job[j].line[m] = "absent" => settled[m] = "absent"
    <3> HIDE DEF settled
    <3> QED BY <1>5, <2>1
  <2>3. ASSUME settled[m] = "done", job[j].line[m] # "done"
        PROVE  job[j].line[m] \in {"queued", "running"} /\ m \notin call.bad
               /\ call.reply = "ok"
    <3>1. settled[m] =
               IF job[j].line[m] = "absent" THEN "absent"
               ELSE IF m = Whole /\ call.reply # "error" THEN "done"
               ELSE IF m \in call.bad THEN "failed"
               ELSE IF job[j].line[m] \in Over THEN job[j].line[m]
               ELSE IF stopped THEN "cancelled"
               ELSE IF call.reply = "error" THEN "failed" ELSE "done"
      BY <1>5, <2>1
    <3>2. stopped \in BOOLEAN /\ (call.reply = "cancelled" => stopped) BY <1>1 DEF JobRecords
    <3> HIDE DEF settled, stopped
    <3>3. job[j].line[m] # "absent" BY <2>3, <3>1
    <3>4. m \notin call.bad BY <2>1, <2>3, <3>1, <3>3
    <3>5. job[j].line[m] \notin Over BY <2>1, <2>3, <3>1, <3>3, <3>4
    <3>6. ~stopped /\ call.reply # "error" BY <2>1, <2>3, <3>1, <3>3, <3>4, <3>5
    <3> QED BY <1>8, <2>1, <3>2, <3>3, <3>4, <3>5, <3>6 DEF Phases, Over
  <2> QED BY <2>2, <2>3
<1>10. stopped \in BOOLEAN BY <1>1 DEF JobRecords
<1> HIDE DEF settled
<1>11. /\ job' \in Jobs /\ \A k \in JobIds \ {j} : job'[k] = job[k]
       /\ job'[j] = [job[j] EXCEPT !.line = settled, !.stop = stopped]
  <2> HIDE DEF stopped, j
  <2> QED BY <1>1, <1>2, <1>7, <1>10 DEF Jobs, JobRecords
<1>12. /\ job'[j].mods = job[j].mods /\ job'[j].batch = job[j].batch
       /\ job'[j].state = job[j].state /\ job'[j].line = settled
       /\ job'[j].stop = stopped
  <2> HIDE DEF stopped, j
  <2> QED BY <1>1, <1>11 DEF JobRecords
<1> QED BY <1>2, <1>3, <1>9, <1>11, <1>12

\* The job that runs ends; a job is queued.
Ending == [job EXCEPT ![runner.id] = Gone(IF job[runner.id].stop THEN "cancelled" ELSE "done")]

NewJob(r) == [mods |-> r.mods, mode |-> r.mode, profile |-> r.profile, batch |-> r.batch,
              state |-> "queued", stop |-> FALSE,
              line |-> [m \in Lines |-> IF m \in LinesOf(r) THEN "queued" ELSE "absent"]]

Queueing(r) == [job EXCEPT ![nextId] = NewJob(r)]

LEMMA EndingIs ==
    ASSUME Types, RunnerInv
    PROVE  /\ Ending \in Jobs /\ \A k \in JobIds \ {runner.id} : Ending[k] = job[k]
           /\ Ending[runner.id].state \in Ended
           /\ \A m \in Lines : Ending[runner.id].line[m] = "absent"
<1> DEFINE v == IF job[runner.id].stop THEN "cancelled" ELSE "done"
<1>1. v \in Ended /\ v \in States BY DEF Ended, States
<1> HIDE DEF v
<1>2. Ending = [job EXCEPT ![runner.id] = Gone(v)] BY DEF Ending, v
<1>3. Gone(v) \in JobRecords /\ Gone(v).state = v /\ \A m \in Lines : Gone(v).line[m] = "absent"
  BY <1>1, GoneIs
<1>4. runner.id \in JobIds BY RunnerOne
<1> QED BY <1>1, <1>2, <1>3, <1>4 DEF Types, Jobs

LEMMA QueueingIs ==
    ASSUME Types, NEW r \in Requests, nextId \in JobIds
    PROVE  /\ Queueing(r) \in Jobs /\ \A k \in JobIds \ {nextId} : Queueing(r)[k] = job[k]
           /\ Queueing(r)[nextId].state = "queued" /\ Queueing(r)[nextId].stop = FALSE
           /\ Queueing(r)[nextId].mods = r.mods
           /\ \A m \in Mods : /\ Queueing(r)[nextId].line[m] # "done"
                              /\ Queueing(r)[nextId].line[m] # "absent" => m \in ModsOf(r)
<1>1. /\ r.mods \in Seq(Mods) /\ r.mode \in Modes /\ r.profile \in Profiles \cup {AnyProfile}
      /\ r.batch \in BOOLEAN
  BY Jobs_Assumption
<1> DEFINE ln == [m \in Lines |-> IF m \in LinesOf(r) THEN "queued" ELSE "absent"]
<1>2. ln \in [Lines -> Phases] BY DEF Phases
<1>3. \A m \in Mods : ln[m] # "done" /\ (ln[m] # "absent" => m \in ModsOf(r))
  <2> TAKE m \in Mods
  <2>1. m \in Lines /\ m # Whole BY Jobs_Assumption DEF Lines
  <2>2. m \in LinesOf(r) => m \in ModsOf(r) BY <2>1 DEF LinesOf
  <2> QED BY <2>1, <2>2
<1>4. NewJob(r) = [mods |-> r.mods, mode |-> r.mode, profile |-> r.profile, batch |-> r.batch,
                   state |-> "queued", stop |-> FALSE, line |-> ln]
  BY DEF NewJob
<1> HIDE DEF ln
<1>5. NewJob(r) \in JobRecords /\ NewJob(r).state = "queued" /\ NewJob(r).stop = FALSE
      /\ NewJob(r).mods = r.mods /\ NewJob(r).line = ln
  BY <1>1, <1>2, <1>4 DEF JobRecords, States
<1>6. Queueing(r) \in Jobs /\ Queueing(r)[nextId] = NewJob(r)
      /\ \A k \in JobIds \ {nextId} : Queueing(r)[k] = job[k]
  BY <1>5 DEF Types, Jobs, Queueing
<1> QED BY <1>3, <1>5, <1>6

LEMMA EndsPumps ==
    ASSUME Types, ListInv, RunnerInv, RunnerEnds
    PROVE  /\ runner.at = "cleared" /\ Pumps(jobs', Ending)
           /\ jobs' = Without(jobs, {runner.id}) /\ jobs' \in Seq(JobIds)
           /\ ToSet(jobs') = Live(job) \ {runner.id} /\ Ascending(jobs')
<1>1. runner.at = "cleared" /\ jobs' = Without(jobs, {runner.id}) /\ Pump(jobs', Ending)
  BY DEF RunnerEnds, Ending
<1>2. jobs' \in Seq(JobIds) /\ ToSet(jobs') = Live(job) \ {runner.id}
  BY <1>1, WithoutElements DEF Types, ListInv
<1>3. Ascending(jobs')
  BY <1>1, IdsAreNumbers, WithoutAscending DEF Types, ListInv
<1>4. Pumps(jobs', Ending)
  <2> DEFINE js == jobs'
  <2>1. js \in Seq(JobIds) /\ Ascending(js) /\ Pump(js, Ending) BY <1>1, <1>2, <1>3
  <2> HIDE DEF js
  <2>2. Pumps(js, Ending) BY <2>1, EndingIs, PumpPumps DEF Types
  <2> QED BY <2>2 DEF js
<1> QED BY <1>1, <1>2, <1>3, <1>4

LEMMA QueuePumps ==
    ASSUME Types, ListInv, RunnerInv, NEW r \in Requests, QueueJob(r)
    PROVE  /\ nextId \in JobIds /\ nextId' = nextId + 1
           /\ jobs' \in Seq(JobIds) /\ ToSet(jobs') = Live(job) \cup {nextId}
           /\ Ascending(jobs')
           /\ \/ runner.at = "idle" /\ Pumps(jobs', Queueing(r))
              \/ runner.at # "idle" /\ job' = Queueing(r) /\ UNCHANGED <<runner, mail>>
<1>1. /\ nextId \in JobIds /\ nextId' = nextId + 1 /\ jobs' = Append(jobs, nextId)
      /\ IF runner.at = "idle" THEN Pump(jobs', Queueing(r))
         ELSE job' = Queueing(r) /\ UNCHANGED <<runner, mail>>
  BY DEF QueueJob, Queueing, NewJob
<1>2. jobs' \in Seq(JobIds) /\ ToSet(jobs') = Live(job) \cup {nextId}
  BY <1>1, ListElements DEF Types, ListInv
<1>3. Ascending(jobs')
  <2>1. \A i \in 1..Len(jobs) : jobs[i] < nextId
    <3>1. \A x \in ToSet(jobs) : x \in JobIds /\ job[x].state # "none" BY DEF ListInv, Live
    <3>2. \A x \in ToSet(jobs) : ~(x >= nextId) BY <3>1 DEF RunnerInv
    <3>3. \A i \in 1..Len(jobs) : jobs[i] \in ToSet(jobs) BY DEF ToSet, Types
    <3>4. \A x \in ToSet(jobs) : x \in Nat BY <3>1, IdsAreNumbers
    <3>5. nextId \in Nat BY <1>1, IdsAreNumbers
    <3> QED BY <3>2, <3>3, <3>4, <3>5
  <2>2. jobs \in Seq(JobIds) /\ Ascending(jobs) BY DEF Types, ListInv
  <2>3. /\ Len(jobs') = Len(jobs) + 1 /\ Len(jobs) \in Nat /\ jobs'[Len(jobs) + 1] = nextId
        /\ \A i \in 1..Len(jobs) : jobs'[i] = jobs[i]
    BY <1>1, <2>2
  <2>4. \A i \in 1..Len(jobs') : i \in 1..Len(jobs) \/ i = Len(jobs) + 1 BY <2>3
  <2> QED BY <2>1, <2>2, <2>3, <2>4 DEF Ascending
<1>4. CASE runner.at = "idle"
  <2> DEFINE js == jobs'
  <2>1. js \in Seq(JobIds) /\ Ascending(js) /\ Pump(js, Queueing(r)) BY <1>1, <1>2, <1>3, <1>4
  <2> HIDE DEF js
  <2>2. Pumps(js, Queueing(r)) BY <1>1, <2>1, QueueingIs, PumpPumps DEF Types
  <2> QED BY <1>1, <1>2, <1>3, <1>4, <2>2 DEF js
<1>5. CASE runner.at # "idle" BY <1>1, <1>2, <1>3, <1>5
<1> QED BY <1>4, <1>5

LEMMA RunnerTypes ==
    ASSUME Types, ListInv, RunnerInv, RunnerStep
    PROVE  Types'
<1>1. runner.id \in JobIds /\ mail \in Seq(Messages) /\ job \in Jobs BY RunnerOne DEF Types
<1>2. NoCall \in Calls BY DEF NoCall, Calls, NoMod, Lines
<1>3. CASE ProfileIsRead
  <2>1. job' \in Jobs /\ runner' \in Runners /\ mail' \in Seq(Messages)
    BY <1>1, <1>3, ProfileTurns, TurnsTypes
  <2> QED BY <1>3, <2>1 DEF ProfileIsRead, Types, backend
<1>4. CASE RunnerHears
  <2>1. job' \in Jobs /\ runner' \in Runners /\ mail' \in Seq(Messages)
    BY <1>1, <1>4, HearsTurns, TurnsTypes
  <2> QED BY <1>2, <1>4, <2>1 DEF RunnerHears, Types, backend
<1>5. CASE RunnerHearsBatch
  <2>1. /\ job' \in Jobs /\ call' = NoCall
        /\ runner' = [Idle EXCEPT !.at = "clear", !.id = runner.id]
        /\ mail' = Append(mail, Msg("clear", runner.id))
    BY <1>5, BatchHeard
  <2>2. runner' \in Runners BY <1>1, <2>1 DEF Runners, Idle, NoMod, Lines
  <2>3. mail' \in Seq(Messages) BY <1>1, <2>1, MsgTypes, MailGrows
  <2> QED BY <1>2, <1>5, <2>1, <2>2, <2>3 DEF RunnerHearsBatch, Types, backend
<1>6. CASE RunnerEnds
  <2> DEFINE js == jobs'
  <2>1. js \in Seq(JobIds) /\ Pumps(js, Ending) BY <1>6, EndsPumps
  <2> HIDE DEF js
  <2>2. job' \in Jobs /\ runner' \in Runners /\ mail' \in Seq(Messages)
    BY <1>1, <2>1, EndingIs, PumpsTypes
  <2> QED BY <1>6, <2>1, <2>2 DEF RunnerEnds, Types, backend, js
<1> QED BY <1>3, <1>4, <1>5, <1>6 DEF RunnerStep

LEMMA SweepsFirst ==
    ASSUME Types, sweep.left # {}
    PROVE  FirstLeft(Library, sweep.left) \in sweep.left
           /\ FirstLeft(Library, sweep.left) \in Mods
<1>1. sweep.left \subseteq Mods BY DEF Types, Sweeps
<1>2. Library \in Seq(Mods) BY Jobs_Assumption
<1>3. sweep.left \subseteq {Library[i] : i \in 1..Len(Library)} BY <1>1 DEF Mods
<1> QED BY <1>1, <1>2, <1>3, FirstLeftIs

LEMMA PostTypes ==
    ASSUME mail \in Seq(Messages)
    PROVE  \A msg \in Messages : mail \o <<msg>> \in Seq(Messages)
OBVIOUS

LEMMA SweepTypes ==
    ASSUME Types, RunnerInv, SweepInv, SweepStep
    PROVE  Types'
<1> USE DEF Types, ui, backend
<1>1. active \in Profiles /\ on[active] \in SUBSET Mods
      /\ \A m \in Mods : m \in Lines
  BY DEF Lines
<1>2. ASSUME NEW S \in SUBSET Mods PROVE [on EXCEPT ![active] = S] \in [Profiles -> SUBSET Mods]
  BY <1>2
<1>3. CASE SweepBegins
  <2>1. tokens' \in Tokens
    <3>1. 1 \in JobIds BY Jobs_Assumption DEF JobIds
    <3> QED BY <3>1, <1>3, OtherTokens DEF SweepBegins
  <2>2. sweep' \in Sweeps BY <1>3 DEF SweepBegins, Sweeps
  <2> QED BY <1>3, <2>1, <2>2 DEF SweepBegins
<1>4. CASE SweepTakes
  <2> DEFINE m == FirstLeft(Library, sweep.left)
             L == sweep.left \ {m}
  <2>1. \/ sweep' = [sweep EXCEPT !.at = "answered"] /\ job' = job
        \/ sweep.left # {} /\ sweep' = [sweep EXCEPT !.left = L] /\ job' = job
        \/ /\ sweep.left # {} /\ Told(m, "running")
           /\ sweep' = [sweep EXCEPT !.at = "plan", !.mod = m, !.to = active, !.left = L]
    BY <1>4 DEF SweepTakes
  <2>2. sweep.left # {} => m \in Mods /\ m \in Lines BY <1>1, SweepsFirst
  <2>3. L \in SUBSET Mods BY DEF Sweeps
  <2> HIDE DEF m, L
  <2>4. sweep' \in Sweeps
    <3>1. CASE sweep' = [sweep EXCEPT !.at = "answered"] BY <3>1 DEF Sweeps
    <3>2. CASE sweep' = [sweep EXCEPT !.left = L] BY <2>3, <3>2 DEF Sweeps
    <3>3. CASE /\ sweep.left # {}
               /\ sweep' = [sweep EXCEPT !.at = "plan", !.mod = m, !.to = active, !.left = L]
      BY <1>1, <2>2, <2>3, <3>3 DEF Sweeps
    <3> QED BY <2>1, <3>1, <3>2, <3>3
  <2>5. job' \in Jobs BY <2>1, <2>2, ToldJobs DEF JobsStand, Phases
  <2> QED BY <1>4, <2>4, <2>5 DEF SweepTakes
<1>5. CASE SweepLocks
  <2>1. sweep' \in Sweeps BY <1>5 DEF SweepLocks, Sweeps
  <2> QED BY <1>5, <2>1 DEF SweepLocks
<1>6. CASE SweepOpEnds
  <2>1. sweep.mod \in Mods /\ sweep.mod \in Lines BY <1>1, <1>6 DEF SweepOpEnds, SweepInv
  <2>2. sweep.to \in Profiles \cup {AnyProfile} BY DEF Sweeps
  <2>3. \E phase \in {"done", "failed", "cancelled"} : Told(sweep.mod, phase)
    BY <1>6 DEF SweepOpEnds
  <2>4. job' \in Jobs BY <2>1, <2>3, ToldJobs DEF JobsStand, Phases
  <2>5. on' = on \/ on' = Recorded(sweep.mode, sweep.mod, sweep.to) BY <1>6 DEF SweepOpEnds
  <2>6. on' \in [Profiles -> SUBSET Mods] BY <2>1, <2>5 DEF Recorded
  <2>7. sweep' \in Sweeps BY <1>6 DEF SweepOpEnds, Sweeps
  <2>8. worker' \in {"none", "job", "sweep"} BY <1>6 DEF SweepOpEnds
  <2> QED BY <1>6, <2>4, <2>6, <2>7, <2>8 DEF SweepOpEnds
<1>7. CASE SweepHears
  <2>1. sweep' \in Sweeps BY <1>7 DEF SweepHears, Sweeps
  <2>2. mail' \in Seq(Messages)
    <3>1. 1 \in JobIds BY Jobs_Assumption DEF JobIds
    <3>2. Msg("lower", 1) \in Messages BY <3>1, MsgTypes
    <3> QED BY <1>7, <3>2, MailGrows DEF SweepHears, Post
  <2> QED BY <1>7, <2>1, <2>2 DEF SweepHears
<1>8. CASE SweepReverts
  <2> DEFINE m == FirstLeft(Library, sweep.left)
             L == sweep.left \ {m}
  <2>1. \/ /\ sweep.left # {} /\ sweep' = [sweep EXCEPT !.left = L] /\ mail' = mail
           /\ \/ job' = job /\ on' = on
              \/ /\ Told(m, "done")
                 /\ \/ on' = [on EXCEPT ![active] = @ \ {m}]
                    \/ on' = [on EXCEPT ![active] = @ \cup {m}]
        \/ /\ sweep' = [sweep EXCEPT !.at = "closing", !.stop = FALSE]
           /\ mail' = mail \o <<Msg("lower", 1)>> /\ job' = job /\ on' = on
    BY <1>8 DEF SweepReverts, Post
  <2>2. sweep.left # {} => m \in Mods /\ m \in Lines BY <1>1, SweepsFirst
  <2>3. L \in SUBSET Mods BY DEF Sweeps
  <2> HIDE DEF m, L
  <2>4. sweep' \in Sweeps
    <3>1. CASE sweep' = [sweep EXCEPT !.at = "closing", !.stop = FALSE] BY <3>1 DEF Sweeps
    <3>2. CASE sweep' = [sweep EXCEPT !.left = L] BY <2>3, <3>2 DEF Sweeps
    <3> QED BY <2>1, <3>1, <3>2
  <2>5. job' \in Jobs BY <2>1, <2>2, ToldJobs DEF JobsStand, Phases
  <2>6. on' \in [Profiles -> SUBSET Mods]
    <3>1. CASE on' = on BY <3>1
    <3>2. CASE sweep.left # {} /\ \/ on' = [on EXCEPT ![active] = @ \ {m}]
                                  \/ on' = [on EXCEPT ![active] = @ \cup {m}]
      BY <2>2, <3>2
    <3> QED BY <2>1, <3>1, <3>2
  <2>7. mail' \in Seq(Messages)
    <3>1. 1 \in JobIds BY Jobs_Assumption DEF JobIds
    <3>2. Msg("lower", 1) \in Messages BY <3>1, MsgTypes
    <3>3. mail' = mail \/ mail' = mail \o <<Msg("lower", 1)>> BY <2>1
    <3> QED BY <3>2, <3>3, PostTypes
  <2> QED BY <1>8, <2>4, <2>5, <2>6, <2>7 DEF SweepReverts
<1>9. CASE SweepIsOver
  <2>1. sweep' \in Sweeps
    <3>1. sweep.uses \in 0..MaxSweeps BY DEF Sweeps
    <3> QED BY <1>9, <3>1 DEF SweepIsOver, Sweeps, NoSweep, Modes, NoMod, Lines
  <2> QED BY <1>9, <2>1 DEF SweepIsOver
<1> QED BY <1>3, <1>4, <1>5, <1>6, <1>7, <1>8, <1>9 DEF SweepStep

\* A job is stopped, queued or running.
LEMMA StopJobIs ==
    ASSUME Types, ListInv, RunnerInv, NEW j \in JobIds, StopJob(j)
    PROVE  /\ job' \in Jobs
           /\ \A k \in JobIds \ {j} : job'[k] = job[k]
           /\ \/ /\ job[j].state = "queued" /\ job'[j].state = "cancelled"
                 /\ \A m \in Lines : job'[j].line[m] = "absent"
                 /\ jobs' \in Seq(JobIds) /\ ToSet(jobs') = Live(job) \ {j} /\ Ascending(jobs')
                 /\ UNCHANGED mail
              \/ /\ job[j].state = "running" /\ job'[j] = [job[j] EXCEPT !.stop = TRUE]
                 /\ UNCHANGED jobs /\ mail' = Append(mail, Msg("stop", j))
<1>1. CASE j \in Queued /\ jobs' = Without(jobs, {j}) /\ job' = Dropped(job, {j})
           /\ UNCHANGED mail
  <2>1. Gone("cancelled") \in JobRecords /\ Gone("cancelled").state = "cancelled"
        /\ \A m \in Lines : Gone("cancelled").line[m] = "absent"
    BY GoneIs DEF States
  <2>2. job' \in Jobs /\ job'[j] = Gone("cancelled") /\ \A k \in JobIds \ {j} : job'[k] = job[k]
    BY <1>1, <2>1 DEF Dropped, Types, Jobs
  <2>3. jobs' \in Seq(JobIds) /\ ToSet(jobs') = Live(job) \ {j}
    BY <1>1, WithoutElements DEF Types, ListInv
  <2>4. Ascending(jobs')
    BY <1>1, IdsAreNumbers, WithoutAscending DEF Types, ListInv
  <2> QED BY <1>1, <2>1, <2>2, <2>3, <2>4 DEF Queued
<1>2. CASE j \in Running /\ job' = [job EXCEPT ![j].stop = TRUE] /\ Post(<<Msg("stop", j)>>)
           /\ UNCHANGED jobs
  <2>1. job' \in Jobs /\ job'[j] = [job[j] EXCEPT !.stop = TRUE]
        /\ \A k \in JobIds \ {j} : job'[k] = job[k]
    BY <1>2 DEF Types, Jobs, JobRecords
  <2>2. mail' = Append(mail, Msg("stop", j)) BY <1>2 DEF Post, Types
  <2> QED BY <1>2, <2>1, <2>2 DEF Running
<1> QED BY <1>1, <1>2 DEF StopJob

\* A Cancel all drops what is queued and stops what runs.
LEMMA CancelAllIs ==
    ASSUME Types, ListInv, RunnerInv, NEW k \in Clicks, CancelAll(k)
    PROVE  /\ job' \in Jobs
           /\ \A j \in Queued : /\ job'[j].state = "cancelled"
                                /\ \A m \in Lines : job'[j].line[m] = "absent"
           /\ \A j \in Running : job'[j] = [job[j] EXCEPT !.stop = TRUE]
           /\ \A j \in JobIds : j \notin Queued \cup Running => job'[j] = job[j]
           /\ jobs' \in Seq(JobIds) /\ ToSet(jobs') = Live(job) \ Queued /\ Ascending(jobs')
           /\ \/ mail' = mail \o <<Msg("stopAll", 1)>>
              \/ /\ runner.id \in Running
                 /\ \/ mail' = mail \o <<Msg("stop", runner.id), Msg("stopAll", 1)>>
                    \/ mail' = mail \o <<Msg("stopAll", 1), Msg("stop", runner.id)>>
<1>1. Gone("cancelled") \in JobRecords /\ Gone("cancelled").state = "cancelled"
      /\ \A m \in Lines : Gone("cancelled").line[m] = "absent"
  BY GoneIs DEF States
<1> DEFINE fresh == {j \in Running : ~job[j].stop}
           stops == IF fresh = {} THEN <<>> ELSE <<Msg("stop", runner.id)>>
<1>2. /\ job' = [j \in JobIds |-> [Dropped(job, Queued)[j] EXCEPT !.stop = @ \/ j \in Running]]
      /\ jobs' = Without(jobs, Queued)
      /\ Post(IF Queued = {} THEN stops \o <<Msg("stopAll", 1)>>
              ELSE <<Msg("stopAll", 1)>> \o stops)
  BY DEF CancelAll
<1>3. \A j \in JobIds :
        /\ j \in Queued => Dropped(job, Queued)[j] = Gone("cancelled")
        /\ j \notin Queued => Dropped(job, Queued)[j] = job[j]
  BY DEF Dropped
<1>4. \A j \in JobIds : job[j] \in JobRecords BY DEF Types, Jobs
<1>5. \A j \in JobIds :
        job'[j] = [Dropped(job, Queued)[j] EXCEPT !.stop = @ \/ j \in Running]
  BY <1>2
<1>6. ASSUME NEW j \in Queued
      PROVE  /\ job'[j] \in JobRecords /\ job'[j].state = "cancelled"
             /\ \A m \in Lines : job'[j].line[m] = "absent"
  <2>1. j \in JobIds /\ j \notin Running BY DEF Queued, Running
  <2> DEFINE g == Gone("cancelled")
  <2>2. job'[j] = [g EXCEPT !.stop = g.stop \/ j \in Running] BY <1>3, <1>5, <2>1
  <2> HIDE DEF g
  <2>3. (g.stop \/ j \in Running) = g.stop /\ g \in JobRecords BY <1>1, <2>1 DEF JobRecords, g
  <2>4. job'[j] = g BY <2>2, <2>3 DEF JobRecords
  <2> QED BY <1>1, <2>4 DEF g
<1>7. ASSUME NEW j \in Running
      PROVE  job'[j] \in JobRecords /\ job'[j] = [job[j] EXCEPT !.stop = TRUE]
  <2>1. j \in JobIds /\ j \notin Queued BY DEF Queued, Running
  <2>2. job'[j] = [job[j] EXCEPT !.stop = (job[j].stop \/ j \in Running)]
    BY <1>3, <1>5, <2>1
  <2>3. (job[j].stop \/ j \in Running) = TRUE OBVIOUS
  <2>4. job'[j] = [job[j] EXCEPT !.stop = TRUE] BY <2>2, <2>3
  <2> QED BY <1>4, <2>1, <2>4 DEF JobRecords
<1>8. ASSUME NEW j \in JobIds, j \notin Queued \cup Running
      PROVE  job'[j] = job[j]
  <2>1. job'[j] = [job[j] EXCEPT !.stop = (job[j].stop \/ j \in Running)]
    BY <1>3, <1>5, <1>8
  <2>2. (job[j].stop \/ j \in Running) = job[j].stop BY <1>4, <1>8 DEF JobRecords
  <2> QED BY <1>4, <2>1, <2>2 DEF JobRecords
<1>9. job' \in Jobs
  <2>1. \A j \in JobIds : job'[j] \in JobRecords BY <1>4, <1>6, <1>7, <1>8
  <2>2. job' = [j \in JobIds |-> job'[j]] BY <1>2
  <2> QED BY <2>1, <2>2 DEF Jobs
<1>10. jobs' \in Seq(JobIds) /\ ToSet(jobs') = Live(job) \ Queued /\ Ascending(jobs')
  BY <1>2, WithoutElements, IdsAreNumbers, WithoutAscending DEF Types, ListInv
<1>11. \/ mail' = mail \o <<Msg("stopAll", 1)>>
       \/ /\ runner.id \in Running
          /\ \/ mail' = mail \o <<Msg("stop", runner.id), Msg("stopAll", 1)>>
             \/ mail' = mail \o <<Msg("stopAll", 1), Msg("stop", runner.id)>>
  <2>1. CASE fresh = {} BY <1>2, <2>1 DEF Post
  <2>2. CASE fresh # {}
    <3>1. runner.id \in Running BY <2>2 DEF RunnerInv
    <3>2. stops = <<Msg("stop", runner.id)>> BY <2>2
    <3> HIDE DEF stops, fresh
    <3> QED BY <1>2, <3>1, <3>2 DEF Post
  <2> QED BY <2>1, <2>2
<1> QED BY <1>6, <1>7, <1>8, <1>9, <1>10, <1>11

LEMMA UserTypes ==
    ASSUME Types, ListInv, RunnerInv, Users \/ \E k \in Clicks : CancelAllEnds(k)
    PROVE  Types'
<1> USE DEF Types, ui, backend
<1>1. 1 \in JobIds /\ runner.id \in JobIds BY RunnerOne, Jobs_Assumption DEF JobIds
<1>2. \A cmd \in {"lower", "kill", "sweep", "stopAll"} : Msg(cmd, 1) \in Messages
  BY <1>1, MsgTypes
<1>3. Msg("stop", runner.id) \in Messages BY <1>1, MsgTypes
<1>4. ASSUME NEW r \in Requests, QueueJob(r) PROVE Types'
  <2> DEFINE js == jobs'
  <2>1. nextId \in JobIds /\ js \in Seq(JobIds) /\ nextId' = nextId + 1
        /\ (Pumps(js, Queueing(r)) \/ (job' = Queueing(r) /\ UNCHANGED <<runner, mail>>))
    BY <1>4, QueuePumps
  <2>2. Queueing(r) \in Jobs BY <2>1, QueueingIs
  <2>3. nextId' \in 1..(MaxJobs + 1) BY <2>1, Jobs_Assumption DEF JobIds
  <2> HIDE DEF js
  <2>4. job' \in Jobs /\ runner' \in Runners /\ mail' \in Seq(Messages)
    BY <2>1, <2>2, PumpsTypes
  <2> QED BY <1>4, <2>1, <2>3, <2>4 DEF QueueJob, js
<1>5. ASSUME NEW mode \in SweepModes, SweepStarts(mode) PROVE Types'
  <2> DEFINE targets == IF mode = "enable" THEN Mods \ on[active] ELSE on[active]
             n == sweep.uses + 1
  <2>1. sweep' = [NoSweep EXCEPT !.at = "sent", !.mode = mode, !.snap = targets, !.uses = n]
        /\ sweep.uses < MaxSweeps /\ mail' = mail \o <<Msg("sweep", 1)>>
    BY <1>5 DEF SweepStarts, Post
  <2>2. targets \in SUBSET Mods /\ mode \in Modes BY Jobs_Assumption
  <2>3. n \in 0..MaxSweeps BY <2>1, Jobs_Assumption DEF Sweeps
  <2> HIDE DEF targets, n
  <2>4. sweep' \in Sweeps BY <2>1, <2>2, <2>3 DEF Sweeps, NoSweep, NoMod, Lines
  <2>5. mail' \in Seq(Messages) BY <1>2, <2>1, PostTypes
  <2> QED BY <1>5, <2>4, <2>5 DEF SweepStarts
<1>6. ASSUME NEW j \in JobIds, StopJob(j) PROVE Types'
  <2>1. job' \in Jobs /\ jobs' \in Seq(JobIds)
        /\ (mail' = mail \/ mail' = Append(mail, Msg("stop", j)))
    BY <1>6, StopJobIs
  <2>2. mail' \in Seq(Messages) BY <2>1, MsgTypes, MailGrows
  <2>3. UNCHANGED <<nextId, runner, call, sweep, click, backend>> BY <1>6 DEF StopJob
  <2> QED BY <2>1, <2>2, <2>3
<1>7. ASSUME NEW k \in Clicks, CancelAll(k) PROVE Types'
  <2>1. job' \in Jobs /\ jobs' \in Seq(JobIds)
        /\ \/ mail' = mail \o <<Msg("stopAll", 1)>>
           \/ mail' = mail \o <<Msg("stop", runner.id), Msg("stopAll", 1)>>
           \/ mail' = mail \o <<Msg("stopAll", 1), Msg("stop", runner.id)>>
    BY <1>7, CancelAllIs
  <2>2. mail' \in Seq(Messages)
    <3> DEFINE all == Msg("stopAll", 1)
               one == Msg("stop", runner.id)
    <3>1. all \in Messages /\ one \in Messages BY <1>2, <1>3
    <3>2. mail' \in {mail \o <<all>>, mail \o <<one, all>>, mail \o <<all, one>>} BY <2>1
    <3> HIDE DEF all, one
    <3>3. /\ mail \o <<all>> \in Seq(Messages) /\ mail \o <<one, all>> \in Seq(Messages)
          /\ mail \o <<all, one>> \in Seq(Messages)
      BY <3>1
    <3> QED BY <3>2, <3>3
  <2>3. sweep' \in Sweeps
    <3>1. sweep' = [sweep EXCEPT !.stop = Sweeping] /\ Sweeping \in BOOLEAN
      BY <1>7 DEF CancelAll, Sweeping
    <3> QED BY <3>1 DEF Sweeps
  <2>4. click' \in [Clicks -> [at : {"unused", "waiting", "over"}, jobs : SUBSET JobIds]]
    BY <1>7 DEF CancelAll, Running
  <2> QED BY <1>7, <2>1, <2>2, <2>3, <2>4 DEF CancelAll
<1>8. ASSUME SkipCurrent PROVE Types'
  <2>1. runner' \in Runners
    <3>1. runner' = [runner EXCEPT !.skip = runner.skip \/ Current] BY <1>8 DEF SkipCurrent
    <3>2. (runner.skip \/ Current) \in BOOLEAN OBVIOUS
    <3> QED BY <3>1, <3>2 DEF Runners
  <2>2. mail' \in Seq(Messages) BY <1>2, <1>8, PostTypes DEF SkipCurrent, Post
  <2> QED BY <1>8, <2>1, <2>2 DEF SkipCurrent
<1>9. ASSUME DashboardCancels PROVE Types'
  BY <1>9 DEF DashboardCancels
<1>10. ASSUME NEW p \in SwitchTo, SwitchProfile(p) PROVE Types'
  BY <1>10, Jobs_Assumption DEF SwitchProfile
<1>11. ASSUME NEW k \in Clicks, CancelAllEnds(k) PROVE Types'
  <2>1. mail' \in Seq(Messages)
    <3>1. mail' = mail \/ mail' = mail \o <<Msg("lower", 1)>> BY <1>11 DEF CancelAllEnds, Post
    <3> QED BY <1>2, <3>1, PostTypes
  <2>2. click' \in [Clicks -> [at : {"unused", "waiting", "over"}, jobs : SUBSET JobIds]]
    BY <1>11 DEF CancelAllEnds
  <2> QED BY <1>11, <2>1, <2>2 DEF CancelAllEnds
<1>12. ASSUME PillCancel PROVE Types'
  BY <1>1, <1>6, <1>7, <1>12 DEF PillCancel
<1> QED BY <1>4, <1>5, <1>6, <1>7, <1>8, <1>9, <1>10, <1>11, <1>12 DEF Users

LEMMA TypesStep ==
    ASSUME Types, ListInv, RunnerInv, CallInv, SweepInv, [Next]_vars
    PROVE  Types'
<1>1. CASE UNCHANGED vars BY <1>1 DEF vars, Types
<1>2. CASE Next
  BY <1>2, DeliverTypes, CallTypes, RunnerTypes, SweepTypes, UserTypes DEF Next
<1> QED BY <1>1, <1>2

-------------------------------------------------------------------------------
(* The list and the runner.                                                  *)

\* What most steps leave: the jobs stand, but for their lines, and the runner is where
\* it was, or its scope was cleared.
Steady ==
    /\ UNCHANGED <<nextId, jobs>> /\ JobsStand(job, job')
    /\ runner'.id = runner.id /\ runner'.mod = runner.mod
    /\ runner'.at = runner.at \/ (runner.at = "clear" /\ runner'.at = "cleared")

LEMMA SameStands == ASSUME Types, UNCHANGED job PROVE JobsStand(job, job')
BY DEF Types, JobsStand, SameJob

\* The backend's steps move lines and nothing else of the jobs; so do those of Enable all.
LEMMA CallsStand ==
    ASSUME Types, RunnerInv, CallInv, CallStep
    PROVE  JobsStand(job, job') /\ UNCHANGED <<nextId, jobs, runner, mail>>
<1>1. job[runner.id] \in JobRecords /\ ModsOf(job[runner.id]) \subseteq Mods /\ call \in Calls
  BY RunnerOne DEF Types
<1>2. UNCHANGED <<nextId, jobs, runner, mail>>
  BY DEF CallStep, CallBegins, BatchTakes, LockTaken, OpDone, OpFails, OpCut, ui
<1>3. CASE CallBegins \/ LockTaken BY <1>3, SameStands DEF CallBegins, LockTaken, ui
<1>4. CASE BatchTakes
  <2> DEFINE m == FirstLeft(job[runner.id].mods, call.left)
  <2>1. job' = job \/ (call.left # {} /\ Told(m, "running")) BY <1>4 DEF BatchTakes
  <2>2. call.left # {} => m \in Mods
    <3>1. call.left \subseteq ModsOf(job[runner.id]) BY <1>4 DEF BatchTakes, CallInv
    <3>2. job[runner.id].mods \in Seq(Mods) BY <1>1 DEF JobRecords
    <3> QED BY <1>1, <3>1, <3>2, FirstLeftIs DEF ModsOf
  <2> HIDE DEF m
  <2> QED BY <1>2, <2>1, <2>2, SameStands, ToldJobs DEF Types, Phases, Lines
<1>5. CASE OpDone \/ OpFails \/ OpCut
  <2>1. \E phase \in {"done", "failed", "cancelled"} : Told(call.mod, phase)
    BY <1>5 DEF OpDone, OpFails, OpCut
  <2>2. call.mod \in Lines BY <1>1 DEF Calls
  <2> QED BY <1>2, <2>1, <2>2, ToldJobs DEF Types, Phases
<1> QED BY <1>2, <1>3, <1>4, <1>5 DEF CallStep

LEMMA SweepsStand ==
    ASSUME Types, SweepStep
    PROVE  JobsStand(job, job') /\ UNCHANGED <<nextId, jobs, runner, call>>
<1>1. UNCHANGED <<nextId, jobs, runner, call>>
  BY DEF SweepStep, SweepBegins, SweepTakes, SweepLocks, SweepOpEnds, SweepHears,
         SweepReverts, SweepIsOver, ui
<1>2. job' = job \/ \E phase \in {"running", "done", "failed", "cancelled"} :
        \/ Told(sweep.mod, phase)
        \/ sweep.left # {} /\ Told(FirstLeft(Library, sweep.left), phase)
  BY DEF SweepStep, SweepBegins, SweepTakes, SweepLocks, SweepOpEnds, SweepHears,
         SweepReverts, SweepIsOver, ui
<1>3. sweep.mod \in Lines BY DEF Types, Sweeps
<1>4. sweep.left # {} => FirstLeft(Library, sweep.left) \in Lines BY SweepsFirst DEF Lines
<1> QED BY <1>1, <1>2, <1>3, <1>4, SameStands, ToldJobs DEF Types, Phases

LEMMA Partition ==
    ASSUME Types, RunnerInv, CallInv, SweepInv, [Next]_vars
    PROVE  \/ Steady \/ RunnerStep
           \/ \E r \in Requests : QueueJob(r)
           \/ \E j \in JobIds : StopJob(j)
           \/ \E k \in Clicks : CancelAll(k)
<1>1. ASSUME UNCHANGED <<nextId, jobs, job, runner>> PROVE Steady
  BY <1>1, SameStands DEF Steady
<1>2. ASSUME Deliver PROVE Steady
  <2>1. CASE ClearArrives
    <3>1. runner.at = "clear"
      <4>1. mail # <<>> /\ Head(mail).cmd = "clear" BY <2>1 DEF ClearArrives, Delivered
      <4>2. Holds(mail, {"clear"}) BY <4>1, MailMoves DEF Types, Holds
      <4> QED BY <4>2 DEF CallInv
    <3>2. UNCHANGED <<nextId, jobs, job>> /\ runner' = [runner EXCEPT !.at = "cleared"]
      BY <2>1 DEF ClearArrives
    <3> QED BY <3>1, <3>2, SameStands DEF Steady, Types, Runners
  <2> QED BY <1>1, <1>2, <2>1 DEF Deliver, SpawnCall, SpawnSweep, StopArrives, StopAllArrives,
             KillArrives, LowerArrives, ui
<1>4. ASSUME CallStep PROVE Steady BY <1>4, CallsStand DEF Steady
<1>5. ASSUME SweepStep PROVE Steady BY <1>5, SweepsStand DEF Steady
<1>6. ASSUME SkipCurrent PROVE Steady
  <2>1. UNCHANGED <<nextId, jobs, job>>
        /\ runner' = [runner EXCEPT !.skip = runner.skip \/ Current]
    BY <1>6 DEF SkipCurrent
  <2> QED BY <2>1, SameStands DEF Steady, Types, Runners
<1>7. ASSUME UNCHANGED vars PROVE Steady BY <1>1, <1>7 DEF vars
<1>8. ASSUME NEW mode \in SweepModes, SweepStarts(mode) PROVE Steady
  BY <1>1, <1>8 DEF SweepStarts, ui
<1>9. ASSUME NEW k \in Clicks, CancelAllEnds(k) PROVE Steady
  BY <1>1, <1>9 DEF CancelAllEnds, ui
<1>10. ASSUME DashboardCancels PROVE Steady BY <1>1, <1>10 DEF DashboardCancels, ui
<1>11. ASSUME NEW p \in SwitchTo, SwitchProfile(p) PROVE Steady
  BY <1>1, <1>11 DEF SwitchProfile, ui
<1>12. ASSUME PillCancel
       PROVE (\E j \in JobIds : StopJob(j)) \/ (\E k \in Clicks : CancelAll(k))
  BY <1>12, RunnerOne DEF PillCancel
<1> QED BY <1>2, <1>4, <1>5, <1>6, <1>7, <1>8, <1>9, <1>10, <1>11, <1>12 DEF Next, Users

\* The job that turns stands with its list, but for its lines.
LEMMA TurnsStand ==
    ASSUME NEW jb \in Jobs, NEW j \in JobIds, Turns(jb, j)
    PROVE  JobsStand(jb, job') /\ runner'.at # "idle" /\ runner'.id = j
           /\ (runner'.at = "call" => ~job'[j].batch /\ runner'.mod \in Mods)
           /\ (runner'.at = "batch" => job'[j].batch)
<1>1. \A k \in JobIds : SameJob(jb[k], job'[k])
  <2> TAKE k \in JobIds
  <2>1. CASE k = j BY <2>1 DEF Turns, GoneOn
  <2>2. CASE k # j
    <3>1. job'[k] = jb[k] BY <2>2 DEF Turns
    <3> QED BY <3>1 DEF SameJob
  <2> QED BY <2>1, <2>2
<1>2. job'[j].batch = jb[j].batch BY <1>1 DEF SameJob
<1> QED BY <1>1, <1>2 DEF Turns, JobsStand

\* What a Pump leaves of the states: the one that took its turn runs.
LEMMA PumpsStates ==
    ASSUME NEW js \in Seq(JobIds), NEW jb \in Jobs, Pumps(js, jb),
           \A k \in JobIds : jb[k].state # "running"
    PROVE  /\ Running' = IF runner'.at = "idle" THEN {} ELSE {runner'.id}
           /\ \A k \in JobIds : \/ job'[k].state = jb[k].state
                                \/ jb[k].state = "queued" /\ job'[k].state = "running"
           /\ runner'.at = "call" => ~job'[runner'.id].batch /\ runner'.mod \in Mods
           /\ runner'.at = "batch" => job'[runner'.id].batch
<1>1. CASE job' = jb /\ runner' = Idle /\ mail' = mail
  <2>1. runner'.at = "idle" BY <1>1 DEF Idle
  <2> QED BY <1>1, <2>1 DEF Running
<1>2. ASSUME NEW j \in ToSet(js), jb[j].state = "queued", Turns(Begins(jb, j), j)
      PROVE  /\ runner'.id = j /\ runner'.at # "idle" /\ Running' = {j}
             /\ \A k \in JobIds : \/ job'[k].state = jb[k].state
                                  \/ jb[k].state = "queued" /\ job'[k].state = "running"
             /\ runner'.at = "call" => ~job'[j].batch /\ runner'.mod \in Mods
             /\ runner'.at = "batch" => job'[j].batch
  <2>1. j \in JobIds BY ListElements
  <2>2. Begins(jb, j) \in Jobs /\ (\A k \in JobIds \ {j} : Begins(jb, j)[k] = jb[k])
        /\ Begins(jb, j)[j].state = "running"
    BY <2>1, BeginsIs
  <2>3. JobsStand(Begins(jb, j), job') /\ runner'.at # "idle" /\ runner'.id = j
        /\ (runner'.at = "call" => ~job'[j].batch /\ runner'.mod \in Mods)
        /\ (runner'.at = "batch" => job'[j].batch)
    BY <1>2, <2>1, <2>2, TurnsStand
  <2>4. \A k \in JobIds : job'[k].state = IF k = j THEN "running" ELSE jb[k].state
    BY <2>2, <2>3 DEF JobsStand, SameJob
  <2>5. Running' = {j} BY <2>1, <2>4 DEF Running
  <2> QED BY <1>2, <2>3, <2>4, <2>5
<1> QED BY <1>1, <1>2 DEF Pumps

LEMMA PumpsLive ==
    ASSUME NEW js \in Seq(JobIds), NEW jb \in Jobs, Pumps(js, jb),
           \A k \in JobIds : jb[k].state # "running"
    PROVE  Live(job') = Live(jb)
BY PumpsStates DEF Live

LEMMA QueueJobStep ==
    ASSUME Types, ListInv, RunnerInv, NEW r \in Requests, QueueJob(r)
    PROVE  ListInv' /\ RunnerInv'
<1> DEFINE jb == Queueing(r)
           js == jobs'
<1>1. /\ nextId \in JobIds /\ nextId' = nextId + 1 /\ nextId \in Nat
      /\ js \in Seq(JobIds) /\ ToSet(js) = Live(job) \cup {nextId} /\ Ascending(js)
      /\ \/ runner.at = "idle" /\ Pumps(js, jb)
         \/ runner.at # "idle" /\ job' = jb /\ UNCHANGED <<runner, mail>>
  BY QueuePumps, IdsAreNumbers
<1>2. /\ jb \in Jobs /\ (\A k \in JobIds \ {nextId} : jb[k] = job[k])
      /\ jb[nextId].state = "queued"
  BY <1>1, QueueingIs
<1>3. Live(jb) = Live(job) \cup {nextId} BY <1>1, <1>2 DEF Live
<1>4. job[nextId].state = "none" BY <1>1 DEF RunnerInv
<1>5. \A k \in JobIds : jb[k].state = "none" <=> k >= nextId'
  <2> TAKE k \in JobIds
  <2>1. k \in Nat BY IdsAreNumbers
  <2>2. CASE k = nextId BY <1>1, <1>2, <2>1, <2>2
  <2>3. CASE k # nextId
    <3>1. jb[k].state = "none" <=> k >= nextId BY <1>2, <2>3 DEF RunnerInv
    <3> QED BY <1>1, <2>1, <2>3, <3>1
  <2> QED BY <2>2, <2>3
<1> HIDE DEF jb, js
<1>6. CASE runner.at = "idle" /\ Pumps(js, jb)
  <2>1. \A k \in JobIds : jb[k].state # "running" BY <1>2, <1>6 DEF RunnerInv, Running
  <2>2. Live(job') = Live(jb) BY <1>1, <1>2, <1>6, <2>1, PumpsLive
  <2>3. /\ Running' = IF runner'.at = "idle" THEN {} ELSE {runner'.id}
        /\ \A k \in JobIds : \/ job'[k].state = jb[k].state
                             \/ jb[k].state = "queued" /\ job'[k].state = "running"
        /\ runner'.at = "call" => ~job'[runner'.id].batch /\ runner'.mod \in Mods
        /\ runner'.at = "batch" => job'[runner'.id].batch
    BY <1>1, <1>2, <1>6, <2>1, PumpsStates
  <2>4. \A k \in JobIds : job'[k].state = "none" <=> k >= nextId' BY <1>5, <2>3
  <2> QED BY <1>1, <1>3, <2>2, <2>3, <2>4 DEF ListInv, RunnerInv, js
<1>7. CASE runner.at # "idle" /\ job' = jb /\ UNCHANGED <<runner, mail>>
  <2>1. runner.id # nextId /\ runner.id \in JobIds
    <3>1. job[runner.id].state = "running" BY <1>7, RunnerOne
    <3> QED BY <1>4, <3>1, RunnerOne
  <2>2. Running' = Running BY <1>1, <1>2, <1>4, <1>7 DEF Running
  <2>3. job'[runner.id] = job[runner.id] BY <1>2, <1>7, <2>1
  <2>4. /\ Running' = IF runner'.at = "idle" THEN {} ELSE {runner'.id}
        /\ runner'.at = "call" => ~job'[runner'.id].batch /\ runner'.mod \in Mods
        /\ runner'.at = "batch" => job'[runner'.id].batch
    BY <1>7, <2>2, <2>3 DEF RunnerInv
  <2> QED BY <1>1, <1>3, <1>5, <1>7, <2>4 DEF ListInv, RunnerInv, js
<1> QED BY <1>1, <1>6, <1>7

LEMMA EndsStep ==
    ASSUME Types, ListInv, RunnerInv, RunnerEnds
    PROVE  ListInv' /\ RunnerInv'
<1> DEFINE js == jobs'
<1>1. /\ runner.at = "cleared" /\ Pumps(js, Ending) /\ js \in Seq(JobIds)
      /\ ToSet(js) = Live(job) \ {runner.id} /\ Ascending(js)
  BY EndsPumps
<1>2. /\ Ending \in Jobs /\ \A k \in JobIds \ {runner.id} : Ending[k] = job[k]
      /\ Ending[runner.id].state \in Ended /\ runner.id \in JobIds
      /\ job[runner.id].state = "running" /\ Running = {runner.id}
  BY <1>1, EndingIs, RunnerOne DEF RunnerInv
<1>3. Live(Ending) = Live(job) \ {runner.id} BY <1>2 DEF Live, Ended
<1>4. \A k \in JobIds : Ending[k].state # "running" BY <1>2 DEF Running, Ended
<1>5. nextId' = nextId BY DEF RunnerEnds
<1>6. \A k \in JobIds : Ending[k].state = "none" <=> k >= nextId'
  BY <1>2, <1>5 DEF RunnerInv, Ended
<1> HIDE DEF js
<1>7. Live(job') = Live(Ending) BY <1>1, <1>2, <1>4, PumpsLive
<1>8. /\ Running' = IF runner'.at = "idle" THEN {} ELSE {runner'.id}
      /\ \A k \in JobIds : \/ job'[k].state = Ending[k].state
                           \/ Ending[k].state = "queued" /\ job'[k].state = "running"
      /\ runner'.at = "call" => ~job'[runner'.id].batch /\ runner'.mod \in Mods
      /\ runner'.at = "batch" => job'[runner'.id].batch
  BY <1>1, <1>2, <1>4, PumpsStates
<1>9. \A k \in JobIds : job'[k].state = "none" <=> k >= nextId' BY <1>6, <1>8
<1> QED BY <1>1, <1>3, <1>7, <1>8, <1>9 DEF ListInv, RunnerInv, js

LEMMA ListRunnerStep ==
    ASSUME Types, ListInv, RunnerInv, CallInv, SweepInv, [Next]_vars
    PROVE  ListInv' /\ RunnerInv'
<1>1. runner.id \in JobIds /\ (runner.at # "idle" => job[runner.id].state = "running")
  BY RunnerOne
\* The jobs stand, the runner keeps its job.
<1>2. ASSUME UNCHANGED <<nextId, jobs>>, runner'.id = runner.id,
             \A k \in JobIds : job'[k].state = job[k].state,
             runner'.at = "idle" <=> runner.at = "idle",
             runner'.at = "call" => ~job'[runner.id].batch /\ runner'.mod \in Mods,
             runner'.at = "batch" => job'[runner.id].batch
      PROVE  ListInv' /\ RunnerInv'
  <2>1. Running' = Running /\ Live(job') = Live(job) BY <1>2 DEF Running, Live
  <2> QED BY <1>2, <2>1 DEF ListInv, RunnerInv
<1>3. ASSUME Steady PROVE ListInv' /\ RunnerInv'
  <2>1. job'[runner.id].batch = job[runner.id].batch
        /\ \A k \in JobIds : job'[k].state = job[k].state
    BY <1>1, <1>3 DEF Steady, JobsStand, SameJob
  <2> QED BY <1>2, <1>3, <2>1 DEF Steady, RunnerInv
<1>4. CASE ProfileIsRead
  <2>1. JobsStand(job, job') /\ runner'.at # "idle" /\ runner'.id = runner.id
        /\ (runner'.at = "call" => ~job'[runner.id].batch /\ runner'.mod \in Mods)
        /\ (runner'.at = "batch" => job'[runner.id].batch)
    BY <1>1, <1>4, ProfileTurns, TurnsStand DEF Types
  <2>2. UNCHANGED <<nextId, jobs>> /\ runner.at # "idle" BY <1>4 DEF ProfileIsRead
  <2> QED BY <1>2, <2>1, <2>2 DEF JobsStand, SameJob
<1>5. CASE RunnerHears
  <2>1. Heard \in Jobs /\ Turns(Heard, runner.id)
        /\ (\A k \in JobIds \ {runner.id} : Heard[k] = job[k])
        /\ SameJob(job[runner.id], Heard[runner.id])
    BY <1>5, HearsTurns DEF Moved
  <2>2. JobsStand(Heard, job') /\ runner'.at # "idle" /\ runner'.id = runner.id
        /\ (runner'.at = "call" => ~job'[runner.id].batch /\ runner'.mod \in Mods)
        /\ (runner'.at = "batch" => job'[runner.id].batch)
    BY <1>1, <2>1, TurnsStand
  <2>3. \A k \in JobIds : job'[k].state = job[k].state
    BY <2>1, <2>2 DEF JobsStand, SameJob
  <2>4. UNCHANGED <<nextId, jobs>> /\ runner.at # "idle" BY <1>5 DEF RunnerHears
  <2> QED BY <1>2, <2>2, <2>3, <2>4
<1>6. CASE RunnerHearsBatch
  <2>1. /\ runner.at = "batch" /\ runner' = [Idle EXCEPT !.at = "clear", !.id = runner.id]
        /\ \A k \in JobIds : job'[k].state = job[k].state
    BY <1>6, BatchHeard
  <2>2. UNCHANGED <<nextId, jobs>> BY <1>6 DEF RunnerHearsBatch
  <2> QED BY <1>2, <2>1, <2>2 DEF Idle
<1>7. CASE RunnerEnds BY <1>7, EndsStep
<1>8. ASSUME NEW r \in Requests, QueueJob(r) PROVE ListInv' /\ RunnerInv'
  BY <1>8, QueueJobStep
<1>9. ASSUME NEW j \in JobIds, StopJob(j) PROVE ListInv' /\ RunnerInv'
  <2>1. UNCHANGED <<nextId, runner>> BY <1>9 DEF StopJob
  <2>2. CASE /\ job[j].state = "queued" /\ job'[j].state = "cancelled"
             /\ ToSet(jobs') = Live(job) \ {j} /\ Ascending(jobs')
             /\ \A k \in JobIds \ {j} : job'[k] = job[k]
    <3>1. Running' = Running /\ Live(job') = Live(job) \ {j} BY <2>2 DEF Running, Live
    <3>2. \A k \in JobIds : job'[k].state = "none" <=> job[k].state = "none" BY <2>2
    <3>3. runner.at # "idle" => job'[runner.id] = job[runner.id] BY <1>1, <2>2
    <3> QED BY <2>1, <2>2, <3>1, <3>2, <3>3 DEF ListInv, RunnerInv
  <2>3. CASE /\ job[j].state = "running" /\ job'[j] = [job[j] EXCEPT !.stop = TRUE]
             /\ UNCHANGED jobs /\ \A k \in JobIds \ {j} : job'[k] = job[k]
    <3>1. job[j] \in JobRecords BY DEF Types, Jobs
    <3>2. job'[j].state = job[j].state /\ job'[j].batch = job[j].batch
      BY <2>3, <3>1 DEF JobRecords
    <3>3. \A k \in JobIds : job'[k].state = job[k].state /\ job'[k].batch = job[k].batch
      BY <2>3, <3>2
    <3> QED BY <1>1, <1>2, <2>1, <2>3, <3>3 DEF RunnerInv
  <2> QED BY <1>9, <2>2, <2>3, StopJobIs
<1>10. ASSUME NEW k \in Clicks, CancelAll(k) PROVE ListInv' /\ RunnerInv'
  <2>1. UNCHANGED <<nextId, runner>> BY <1>10 DEF CancelAll
  <2>2. /\ \A j \in Queued : job'[j].state = "cancelled"
        /\ \A j \in Running : job'[j] = [job[j] EXCEPT !.stop = TRUE]
        /\ \A j \in JobIds : j \notin Queued \cup Running => job'[j] = job[j]
        /\ ToSet(jobs') = Live(job) \ Queued /\ Ascending(jobs')
    BY <1>10, CancelAllIs
  <2>3. \A j \in Running : job'[j].state = "running" /\ job'[j].batch = job[j].batch
    <3> TAKE j \in Running
    <3>1. job[j] \in JobRecords /\ job[j].state = "running" BY DEF Types, Jobs, Running
    <3> QED BY <2>2, <3>1 DEF JobRecords
  <2>4. Running' = Running /\ Live(job') = Live(job) \ Queued
    BY <2>2, <2>3 DEF Running, Queued, Live
  <2>5. \A j \in JobIds : job'[j].state = "none" <=> job[j].state = "none"
    BY <2>2, <2>3 DEF Queued, Running
  <2>6. runner.at # "idle" => runner.id \in Running BY DEF RunnerInv
  <2> QED BY <2>1, <2>2, <2>3, <2>4, <2>5, <2>6 DEF ListInv, RunnerInv
<1> QED BY <1>3, <1>4, <1>5, <1>6, <1>7, <1>8, <1>9, <1>10, Partition DEF RunnerStep

-------------------------------------------------------------------------------
(* Enable all, and the lowering of the flag.                                 *)

\* What a turn, or a pump, posts.
LEMMA TurnsPost ==
    ASSUME mail \in Seq(Messages), NEW jb, NEW j \in JobIds, Turns(jb, j)
    PROVE  Posts({"call", "clear"})
<1>1. mail' = mail \/ \E cmd \in {"call", "clear"} : mail' = Append(mail, Msg(cmd, j))
  BY DEF Turns
<1>2. ASSUME NEW cmd \in {"call", "clear"}, mail' = Append(mail, Msg(cmd, j))
      PROVE  Posts({"call", "clear"})
  <2>1. Msg(cmd, j) \in Messages /\ Msg(cmd, j).cmd \in {"call", "clear"} BY <1>2, MsgTypes, MsgIs
  <2> QED BY <1>2, <2>1 DEF Posts
<1> QED BY <1>1, <1>2 DEF Posts

LEMMA PumpsPost ==
    ASSUME mail \in Seq(Messages), NEW js \in Seq(JobIds), NEW jb, Pumps(js, jb)
    PROVE  Posts({"call", "clear"})
<1>1. CASE mail' = mail BY <1>1 DEF Posts
<1>2. CASE \E j \in ToSet(js) : Turns(Begins(jb, j), j) BY <1>2, TurnsPost, ListElements
<1> QED BY <1>1, <1>2 DEF Pumps

\* One message posted.
LEMMA PostOne ==
    ASSUME mail \in Seq(Messages), NEW D,
           NEW cmd \in {"call", "sweep", "stop", "stopAll", "kill", "clear", "lower"}, cmd \in D,
           NEW j \in JobIds, mail' = mail \o <<Msg(cmd, j)>> \/ mail' = Append(mail, Msg(cmd, j))
    PROVE  Posts(D) /\ mail' = Append(mail, Msg(cmd, j))
<1> DEFINE msg == Msg(cmd, j)
<1>1. msg \in Messages /\ msg.cmd = cmd BY MsgTypes, MsgIs
<1> HIDE DEF msg
<1>2. mail' = Append(mail, msg) BY DEF msg
<1> QED BY <1>1, <1>2 DEF Posts, msg

LEMMA StopJobPosts ==
    ASSUME Types, ListInv, RunnerInv, NEW j \in JobIds, StopJob(j)
    PROVE  Posts({"stop", "stopAll"})
<1>1. mail' = mail \/ mail' = Append(mail, Msg("stop", j)) BY StopJobIs
<1> QED BY <1>1, PostOne DEF Types, Posts

LEMMA CancelAllPosts ==
    ASSUME Types, ListInv, RunnerInv, NEW k \in Clicks, CancelAll(k)
    PROVE  /\ Posts({"stop", "stopAll"})
           /\ \/ mail' = Append(mail, Msg("stopAll", 1))
              \/ /\ runner.id \in Running
                 /\ \/ mail' = Append(Append(mail, Msg("stop", runner.id)), Msg("stopAll", 1))
                    \/ mail' = Append(Append(mail, Msg("stopAll", 1)), Msg("stop", runner.id))
<1> DEFINE a == Msg("stopAll", 1)
           b == Msg("stop", runner.id)
<1>1. a \in Messages /\ b \in Messages /\ a.cmd = "stopAll" /\ b.cmd = "stop"
  BY RunnerOne, Jobs_Assumption, MsgTypes, MsgIs DEF JobIds
<1>2. \/ mail' = mail \o <<a>>
      \/ /\ runner.id \in Running
         /\ mail' = mail \o <<b, a>> \/ mail' = mail \o <<a, b>>
  BY CancelAllIs
<1> HIDE DEF a, b
<1>3. /\ mail \o <<a>> = Append(mail, a)
      /\ mail \o <<b, a>> = Append(Append(mail, b), a)
      /\ mail \o <<a, b>> = Append(Append(mail, a), b)
  BY <1>1 DEF Types
<1>4. \/ mail' = Append(mail, a)
      \/ /\ runner.id \in Running
         /\ mail' = Append(Append(mail, b), a) \/ mail' = Append(Append(mail, a), b)
  BY <1>2, <1>3
<1>5. Posts({"stop", "stopAll"})
  <2> DEFINE D == {"stop", "stopAll"}
  <2>1. a.cmd \in D /\ b.cmd \in D BY <1>1
  <2> HIDE DEF D
  <2>2. Posts(D) BY <1>1, <1>4, <2>1 DEF Posts
  <2> QED BY <2>2 DEF D
<1> QED BY <1>4, <1>5 DEF a, b

\* What each kind of step posts, or delivers.
LEMMA StepPosts ==
    ASSUME Types, ListInv, RunnerInv
    PROVE  /\ Deliver \/ CallStep => Posts({})
           /\ RunnerStep => Posts({"call", "clear"})
           /\ SweepStep => Posts({"lower"})
           /\ \A r \in Requests : QueueJob(r) => Posts({"call", "clear"})
           /\ \A mode \in SweepModes : SweepStarts(mode) => Posts({"sweep"})
           /\ (\E j \in JobIds : StopJob(j)) \/ (\E k \in Clicks : CancelAll(k)) =>
                Posts({"stop", "stopAll"})
           /\ SkipCurrent => Posts({"kill"})
           /\ DashboardCancels \/ (\E p \in SwitchTo : SwitchProfile(p)) => Posts({})
           /\ \A k \in Clicks : CancelAllEnds(k) => Posts({"lower"})
<1>1. mail \in Seq(Messages) /\ job \in Jobs /\ runner.id \in JobIds /\ 1 \in JobIds
  BY RunnerOne, Jobs_Assumption DEF Types, JobIds
<1>2. Deliver => Posts({})
  BY DEF Deliver, SpawnCall, SpawnSweep, StopArrives, StopAllArrives, KillArrives,
         ClearArrives, LowerArrives, Delivered, Posts
<1>3. CallStep => Posts({})
  BY DEF CallStep, CallBegins, BatchTakes, LockTaken, OpDone, OpFails, OpCut, Posts
<1>4. RunnerStep => Posts({"call", "clear"})
  <2>1. ProfileIsRead => Posts({"call", "clear"}) BY <1>1, ProfileTurns, TurnsPost
  <2>2. RunnerHears => Posts({"call", "clear"}) BY <1>1, HearsTurns, TurnsPost
  <2>3. RunnerHearsBatch => Posts({"call", "clear"}) BY <1>1, BatchHeard, PostOne
  <2>4. ASSUME RunnerEnds PROVE Posts({"call", "clear"})
    <3> DEFINE js == jobs'
    <3>1. js \in Seq(JobIds) /\ Pumps(js, Ending) BY <2>4, EndsPumps
    <3> HIDE DEF js
    <3> QED BY <1>1, <3>1, PumpsPost
  <2> QED BY <2>1, <2>2, <2>3, <2>4 DEF RunnerStep
<1>5. SweepStep => Posts({"lower"})
  <2>1. SweepHears => mail' = mail \o <<Msg("lower", 1)>> BY DEF SweepHears, Post
  <2>2. SweepReverts => mail' = mail \/ mail' = mail \o <<Msg("lower", 1)>>
    BY DEF SweepReverts, Post
  <2>3. SweepStep => mail' = mail \/ mail' = mail \o <<Msg("lower", 1)>>
    BY <2>1, <2>2 DEF SweepStep, SweepBegins, SweepTakes, SweepLocks, SweepOpEnds, SweepIsOver
  <2>4. mail' = mail => Posts({"lower"}) BY DEF Posts
  <2> QED BY <1>1, <2>3, <2>4, PostOne
<1>6. ASSUME NEW r \in Requests, QueueJob(r) PROVE Posts({"call", "clear"})
  <2> DEFINE js == jobs'
  <2>1. js \in Seq(JobIds) /\ (Pumps(js, Queueing(r)) \/ UNCHANGED mail) BY <1>6, QueuePumps
  <2> HIDE DEF js
  <2>2. UNCHANGED mail => Posts({"call", "clear"}) BY DEF Posts
  <2> QED BY <1>1, <2>1, <2>2, PumpsPost
<1>7. ASSUME NEW mode \in SweepModes, SweepStarts(mode) PROVE Posts({"sweep"})
  BY <1>1, <1>7, PostOne DEF SweepStarts, Post
<1>8. (\E j \in JobIds : StopJob(j)) \/ (\E k \in Clicks : CancelAll(k)) =>
        Posts({"stop", "stopAll"})
  BY StopJobPosts, CancelAllPosts
<1>9. SkipCurrent => Posts({"kill"}) BY <1>1, PostOne DEF SkipCurrent, Post
<1>10. DashboardCancels \/ (\E p \in SwitchTo : SwitchProfile(p)) => Posts({})
  BY DEF DashboardCancels, SwitchProfile, Posts
<1>11. ASSUME NEW k \in Clicks, CancelAllEnds(k) PROVE Posts({"lower"})
  <2>1. mail' = mail \/ mail' = mail \o <<Msg("lower", 1)>> BY <1>11 DEF CancelAllEnds, Post
  <2>2. mail' = mail => Posts({"lower"}) BY DEF Posts
  <2> QED BY <1>1, <2>1, <2>2, PostOne
<1> QED BY <1>2, <1>3, <1>4, <1>5, <1>6, <1>7, <1>8, <1>9, <1>10, <1>11

LEMMA LowerStep ==
    ASSUME Types, ListInv, RunnerInv, CallInv, SweepInv, LowerInv, [Next]_vars
    PROVE  LowerInv' /\ SweepInv'
<1>1. mail \in Seq(Messages) /\ 1 \in JobIds BY Jobs_Assumption DEF Types, JobIds
\* Neither Enable all nor the flag is concerned.
<1>2. ASSUME NEW D, Posts(D), D \cap {"lower", "sweep"} = {}, sweep'.at = sweep.at,
             sweep'.mod = sweep.mod
      PROVE  LowerInv' /\ SweepInv'
  <2>1. /\ {"lower"} \cap D = {} /\ {"sweep"} \cap D = {} BY <1>2
  <2>2. /\ Holds(mail', {"lower"}) => Holds(mail, {"lower"})
        /\ Holds(mail', {"sweep"}) => Holds(mail, {"sweep"})
        /\ AtMostOne(mail, {"lower"}) => AtMostOne(mail', {"lower"})
        /\ AtMostOne(mail, {"sweep"}) => AtMostOne(mail', {"sweep"})
        /\ NoneAfter(mail, {"lower"}, {"sweep"}) => NoneAfter(mail', {"lower"}, {"sweep"})
    BY <1>1, <1>2, <2>1, PostsQuiet
  <2> QED BY <1>2, <2>2 DEF LowerInv, SweepInv
<1>3. ASSUME UNCHANGED sweep, NEW D, Posts(D), D \cap {"lower", "sweep"} = {}
      PROVE  LowerInv' /\ SweepInv'
  BY <1>2, <1>3
\* A lowering is posted, with Enable all not at work.
<1>4. ASSUME mail' = mail \o <<Msg("lower", 1)>>, sweep.at \in {"idle", "answered", "revert"},
             sweep'.at \in {"idle", "clearing", "closing"},
             sweep.at = "idle" <=> sweep'.at = "idle"
      PROVE  LowerInv' /\ SweepInv'
  <2> DEFINE v == mail'
             m == Msg("lower", 1)
  <2>1. v = Append(mail, m) BY <1>1, <1>4, PostOne
  <2>2. m \in Messages /\ m.cmd = "lower" BY <1>1, MsgTypes, MsgIs
  <2> HIDE DEF v, m
  <2>3. ~Holds(mail, {"sweep"}) /\ (sweep.at # "idle" => ~Holds(mail, {"lower"}))
    BY <1>4 DEF LowerInv
  <2>4. AtMostOne(mail, {"sweep"}) /\ NoneAfter(mail, {"lower"}, {"sweep"}) BY DEF LowerInv
  <2>5. sweep.at # "idle" => AtMostOne(mail, {"lower"}) BY <2>3 DEF Holds, AtMostOne
  <2>6. ~Holds(v, {"sweep"}) /\ AtMostOne(v, {"sweep"}) /\ NoneAfter(v, {"lower"}, {"sweep"})
        /\ (sweep.at # "idle" => AtMostOne(v, {"lower"}))
    <3>1. m.cmd \notin {"sweep"} BY <2>2
    <3>2. ~Holds(v, {"sweep"}) /\ AtMostOne(v, {"sweep"})
      BY <1>1, <2>1, <2>2, <2>3, <2>4, <3>1, MailOneMore
    <3>3. NoneAfter(v, {"lower"}, {"sweep"}) BY <1>1, <2>1, <2>2, <2>3, <2>4, MailOneMore
    <3>4. sweep.at # "idle" => AtMostOne(v, {"lower"})
      BY <1>1, <2>1, <2>2, <2>3, <2>5, MailOneMore
    <3> QED BY <3>2, <3>3, <3>4
  <2> QED BY <1>4, <2>6 DEF LowerInv, SweepInv, v
<1>5. CASE UNCHANGED vars
  <2>1. UNCHANGED <<sweep, mail>> BY <1>5 DEF vars
  <2>2. Posts({}) BY <2>1, PostsNone
  <2> QED BY <1>3, <2>1, <2>2
<1>6. CASE Deliver
  <2>1. Posts({}) BY <1>6, StepPosts
  <2>2. CASE SpawnSweep
    <3>1. mail # <<>> /\ Head(mail).cmd = "sweep" /\ mail' = Tail(mail)
          /\ sweep' = [sweep EXCEPT !.at = "spawned"]
      BY <2>2 DEF SpawnSweep, Delivered
    <3>2. /\ ~Holds(mail', {"sweep"}) /\ ~Holds(mail', {"lower"})
          /\ AtMostOne(mail', {"sweep"}) /\ NoneAfter(mail', {"lower"}, {"sweep"})
      <4> DEFINE v == mail'
                 h == Head(mail)
      <4>1. v = Tail(mail) /\ h.cmd = "sweep" BY <3>1
      <4>2. AtMostOne(mail, {"sweep"}) /\ NoneAfter(mail, {"lower"}, {"sweep"}) BY DEF LowerInv
      <4>3. h.cmd \in {"sweep"} BY <4>1
      <4> HIDE DEF v
      <4>4. AtMostOne(v, {"sweep"}) /\ ~Holds(v, {"sweep"})
        BY <1>1, <3>1, <4>1, <4>2, <4>3, MailOneLess
      <4>5. NoneAfter(v, {"lower"}, {"sweep"}) /\ ~Holds(v, {"lower"})
        BY <1>1, <3>1, <4>1, <4>2, <4>3, MailOneLess
      <4> QED BY <4>4, <4>5 DEF v
    <3>3. sweep'.at = "spawned" BY <3>1 DEF Types, Sweeps
    <3> QED BY <3>2, <3>3 DEF LowerInv, SweepInv
  <2>3. CASE LowerArrives
    <3>1. mail # <<>> /\ Head(mail).cmd = "lower" /\ mail' = Tail(mail)
      BY <2>3 DEF LowerArrives, Delivered
    <3>2. sweep.at \in {"idle", "sent", "clearing", "closing"}
      <4>1. Head(mail).cmd \in {"lower"} BY <3>1
      <4>2. Holds(mail, {"lower"}) BY <1>1, <3>1, <4>1, MailOneLess
      <4> QED BY <4>2 DEF LowerInv
    <3>3. CASE sweep.at \in {"idle", "sent"}
      <4>1. sweep'.at = sweep.at /\ sweep'.mod = sweep.mod
        BY <2>3, <3>3 DEF LowerArrives, Types, Sweeps
      <4> QED BY <1>2, <2>1, <4>1
    <3>4. CASE sweep.at \in {"clearing", "closing"}
      <4>1. sweep'.at \in {"revert", "pause"} BY <2>3, <3>4 DEF LowerArrives, Types, Sweeps
      <4>2. ~Holds(mail', {"lower"}) /\ ~Holds(mail', {"sweep"}) /\ AtMostOne(mail', {"sweep"})
            /\ NoneAfter(mail', {"lower"}, {"sweep"})
        <5> DEFINE v == mail'
                   h == Head(mail)
        <5>1. v = Tail(mail) /\ h.cmd \in {"lower"} BY <3>1
        <5>2. AtMostOne(mail, {"lower"}) /\ ~Holds(mail, {"sweep"}) BY <3>4 DEF LowerInv
        <5>3. AtMostOne(mail, {"sweep"}) /\ NoneAfter(mail, {"lower"}, {"sweep"})
          BY DEF LowerInv
        <5> HIDE DEF v
        <5>4. ~Holds(v, {"lower"}) /\ ~Holds(v, {"sweep"}) /\ AtMostOne(v, {"sweep"})
          BY <1>1, <3>1, <5>1, <5>2, <5>3, MailOneLess
        <5>5. NoneAfter(v, {"lower"}, {"sweep"}) BY <1>1, <3>1, <5>1, <5>3, MailOneLess
        <5> QED BY <5>4, <5>5 DEF v
      <4> QED BY <4>1, <4>2 DEF LowerInv, SweepInv
    <3> QED BY <3>2, <3>3, <3>4
  <2> QED BY <1>3, <1>6, <2>1, <2>2, <2>3
      DEF Deliver, SpawnCall, StopArrives, StopAllArrives, KillArrives, ClearArrives
<1>7. CASE CallStep
  <2>1. UNCHANGED sweep
    BY <1>7 DEF CallStep, CallBegins, BatchTakes, LockTaken, OpDone, OpFails, OpCut
  <2>2. Posts({}) BY <1>7, StepPosts
  <2> QED BY <1>3, <2>1, <2>2
<1>8. CASE RunnerStep
  <2>1. UNCHANGED sweep
    BY <1>8 DEF RunnerStep, ProfileIsRead, RunnerHears, RunnerHearsBatch, RunnerEnds
  <2>2. Posts({"call", "clear"}) BY <1>8, StepPosts
  <2> QED BY <1>3, <2>1, <2>2
<1>9. CASE SweepStep
  <2>1. CASE SweepHears
    <3>1. mail' = mail \o <<Msg("lower", 1)>> /\ sweep.at = "answered"
          /\ sweep'.at \in {"clearing", "closing"}
      BY <2>1 DEF SweepHears, Post, Types, Sweeps
    <3> QED BY <1>4, <3>1
  <2>2. CASE SweepReverts
    <3>1. CASE mail' = mail /\ sweep'.at = sweep.at /\ sweep'.mod = sweep.mod
      <4>1. Posts({}) BY <3>1, PostsNone
      <4> QED BY <1>2, <3>1, <4>1
    <3>2. CASE /\ mail' = mail \o <<Msg("lower", 1)>> /\ sweep.at = "revert"
               /\ sweep'.at = "closing"
      BY <1>4, <3>2
    <3>3. \/ mail' = mail /\ sweep'.at = sweep.at /\ sweep'.mod = sweep.mod
          \/ /\ mail' = mail \o <<Msg("lower", 1)>> /\ sweep.at = "revert"
             /\ sweep'.at = "closing"
      <4> DEFINE L == sweep.left \ {FirstLeft(Library, sweep.left)}
      <4>1. \/ mail' = mail /\ sweep' = [sweep EXCEPT !.left = L]
            \/ /\ mail' = mail \o <<Msg("lower", 1)>> /\ sweep.at = "revert"
               /\ sweep' = [sweep EXCEPT !.at = "closing", !.stop = FALSE]
        BY <2>2 DEF SweepReverts, Post
      <4> HIDE DEF L
      <4> QED BY <4>1 DEF Types, Sweeps
    <3> QED BY <3>1, <3>2, <3>3
  <2>3. CASE SweepBegins \/ SweepTakes \/ SweepLocks \/ SweepOpEnds \/ SweepIsOver
    <3>1. mail' = mail BY <2>3 DEF SweepBegins, SweepTakes, SweepLocks, SweepOpEnds, SweepIsOver
    <3>2. /\ sweep.at \notin {"idle", "sent", "clearing", "closing"}
          /\ sweep'.at \in {"loop", "answered", "plan", "work", "idle"}
      <4>1. CASE SweepTakes
        <5> DEFINE m == FirstLeft(Library, sweep.left)
                   L == sweep.left \ {m}
        <5>1. \/ sweep' = [sweep EXCEPT !.at = "answered"]
              \/ sweep' = [sweep EXCEPT !.left = L]
              \/ sweep' = [sweep EXCEPT !.at = "plan", !.mod = m, !.to = active, !.left = L]
          BY <4>1 DEF SweepTakes
        <5> HIDE DEF m, L
        <5> QED BY <4>1, <5>1 DEF SweepTakes, Types, Sweeps
      <4>2. CASE SweepBegins \/ SweepLocks \/ SweepOpEnds
        BY <4>2 DEF SweepBegins, SweepLocks, SweepOpEnds, Types, Sweeps
      <4>3. CASE SweepIsOver BY <4>3 DEF SweepIsOver, NoSweep
      <4> QED BY <2>3, <4>1, <4>2, <4>3
    <3>3. sweep'.at \in {"plan", "work"} => sweep'.mod \in Mods
      <4>1. CASE SweepTakes
        <5> DEFINE m == FirstLeft(Library, sweep.left)
                   L == sweep.left \ {m}
        <5>1. \/ sweep' = [sweep EXCEPT !.at = "answered"]
              \/ sweep' = [sweep EXCEPT !.left = L]
              \/ sweep.left # {} /\
                 sweep' = [sweep EXCEPT !.at = "plan", !.mod = m, !.to = active, !.left = L]
          BY <4>1 DEF SweepTakes
        <5>2. sweep.at = "loop" BY <4>1 DEF SweepTakes
        <5>3. sweep.left # {} => m \in Mods BY SweepsFirst
        <5> HIDE DEF m, L
        <5> QED BY <5>1, <5>2, <5>3 DEF Types, Sweeps
      <4>2. CASE SweepLocks BY <4>2 DEF SweepLocks, Types, Sweeps, SweepInv
      <4>3. CASE SweepBegins \/ SweepOpEnds \/ SweepIsOver
        BY <4>3 DEF SweepBegins, SweepOpEnds, SweepIsOver, Types, Sweeps, NoSweep
      <4> QED BY <2>3, <4>1, <4>2, <4>3
    <3>4. ~Holds(mail, {"lower"}) /\ ~Holds(mail, {"sweep"}) BY <3>2 DEF LowerInv
    <3> QED BY <3>1, <3>2, <3>3, <3>4 DEF LowerInv, SweepInv
  <2> QED BY <1>9, <2>1, <2>2, <2>3 DEF SweepStep
<1>10. ASSUME NEW r \in Requests, QueueJob(r) PROVE LowerInv' /\ SweepInv'
  <2>1. UNCHANGED sweep /\ Posts({"call", "clear"}) BY <1>10, StepPosts DEF QueueJob
  <2> QED BY <1>3, <2>1
<1>11. ASSUME NEW mode \in SweepModes, SweepStarts(mode) PROVE LowerInv' /\ SweepInv'
  <2>1. sweep.at = "idle" /\ mail' = mail \o <<Msg("sweep", 1)>> /\ sweep'.at = "sent"
    BY <1>11 DEF SweepStarts, Sweeping, Post, NoSweep
  <2> DEFINE v == mail'
             m == Msg("sweep", 1)
  <2>2. v = Append(mail, m) /\ m \in Messages /\ m.cmd = "sweep"
    BY <1>1, <2>1, PostOne, MsgTypes, MsgIs
  <2> HIDE DEF v, m
  <2>3. ~Holds(mail, {"sweep"}) BY <2>1 DEF LowerInv
  <2>4. AtMostOne(mail, {"sweep"}) /\ NoneAfter(mail, {"lower"}, {"sweep"}) BY DEF LowerInv
  <2>5. AtMostOne(v, {"sweep"}) BY <1>1, <2>2, <2>3, <2>4, MailOneMore
  <2>6. NoneAfter(v, {"lower"}, {"sweep"})
    <3>1. m.cmd \notin {"lower"} BY <2>2
    <3> QED BY <1>1, <2>2, <2>4, <3>1, MailOneMore
  <2> QED BY <2>1, <2>5, <2>6 DEF LowerInv, SweepInv, v
<1>12. ASSUME (\E j \in JobIds : StopJob(j)) \/ (\E k \in Clicks : CancelAll(k))
       PROVE  LowerInv' /\ SweepInv'
  <2>1. Posts({"stop", "stopAll"}) BY <1>12, StepPosts
  <2>2. sweep' = sweep \/ sweep' = [sweep EXCEPT !.stop = Sweeping]
    BY <1>12 DEF StopJob, CancelAll
  <2>3. sweep'.at = sweep.at /\ sweep'.mod = sweep.mod BY <2>2 DEF Types, Sweeps
  <2> QED BY <1>2, <2>1, <2>3
<1>13. ASSUME SkipCurrent PROVE LowerInv' /\ SweepInv'
  <2>1. UNCHANGED sweep /\ Posts({"kill"}) BY <1>13, StepPosts DEF SkipCurrent
  <2> QED BY <1>3, <2>1
<1>14. ASSUME DashboardCancels \/ (\E p \in SwitchTo : SwitchProfile(p))
       PROVE  LowerInv' /\ SweepInv'
  <2>1. UNCHANGED sweep /\ Posts({}) BY <1>14, StepPosts DEF DashboardCancels, SwitchProfile
  <2> QED BY <1>3, <2>1
<1>15. ASSUME NEW k \in Clicks, CancelAllEnds(k) PROVE LowerInv' /\ SweepInv'
  <2>1. UNCHANGED sweep BY <1>15 DEF CancelAllEnds
  <2>2. CASE Sweeping
    <3>1. mail' = mail BY <1>15, <2>2 DEF CancelAllEnds
    <3>2. Posts({}) BY <3>1, PostsNone
    <3> QED BY <1>3, <2>1, <3>2
  <2>3. CASE ~Sweeping
    <3>1. mail' = mail \o <<Msg("lower", 1)>> /\ sweep.at = "idle"
      BY <1>15, <2>3 DEF CancelAllEnds, Post, Sweeping
    <3> QED BY <1>4, <2>1, <3>1
  <2> QED BY <2>2, <2>3
<1>16. PillCancel => (\E j \in JobIds : StopJob(j)) \/ (\E k \in Clicks : CancelAll(k))
  BY RunnerOne DEF PillCancel
<1> QED BY <1>5, <1>6, <1>7, <1>8, <1>9, <1>10, <1>11, <1>12, <1>13, <1>14, <1>15, <1>16
    DEF Next, Users

-------------------------------------------------------------------------------
(* The runner's call.                                                        *)

\* With no call on the backend and neither a call nor a clear under way, the runner may
\* turn: what it posts is the only one.
LEMMA FreshTurn ==
    ASSUME mail \in Seq(Messages), ~Holds(mail, {"call"}), ~Holds(mail, {"clear"}),
           call' = NoCall, NEW j \in JobIds,
           \/ mail' = mail /\ runner'.at \in {"idle", "profile"}
           \/ mail' = Append(mail, Msg("call", j)) /\ runner'.at \in {"call", "batch"}
           \/ mail' = Append(mail, Msg("clear", j)) /\ runner'.at = "clear"
    PROVE  CallInv'
<1>1. NoCall.at = "none" /\ NoCall.left = {} BY DEF NoCall
<1>2. ~Holds(mail, {"call", "clear"}) BY DEF Holds
<1>3. AtMostOne(mail, {"call", "clear"}) BY <1>2 DEF Holds, AtMostOne
<1>4. /\ Holds(mail', {"call"}) => runner'.at \in {"call", "batch"}
      /\ Holds(mail', {"clear"}) => runner'.at = "clear"
      /\ AtMostOne(mail', {"call", "clear"})
  <2>1. CASE mail' = mail BY <1>3, <2>1
  <2>2. ASSUME NEW cmd \in {"call", "clear"}, mail' = Append(mail, Msg(cmd, j)),
               cmd = "call" => runner'.at \in {"call", "batch"},
               cmd = "clear" => runner'.at = "clear"
        PROVE  /\ Holds(mail', {"call"}) => runner'.at \in {"call", "batch"}
               /\ Holds(mail', {"clear"}) => runner'.at = "clear"
               /\ AtMostOne(mail', {"call", "clear"})
    <3> DEFINE m == Msg(cmd, j)
               v == mail'
    <3>1. v = Append(mail, m) /\ m \in Messages /\ m.cmd = cmd
      BY <2>2, MsgTypes, MsgIs
    <3> HIDE DEF m, v
    <3>2. \A C : Holds(v, C) <=> Holds(mail, C) \/ m.cmd \in C BY <3>1, MailOneMore
    <3>3. AtMostOne(v, {"call", "clear"}) BY <1>2, <1>3, <3>1, MailOneMore
    <3>4. Holds(v, {"call"}) => cmd = "call" BY <3>1, <3>2
    <3>5. Holds(v, {"clear"}) => cmd = "clear" BY <3>1, <3>2
    <3> QED BY <2>2, <3>3, <3>4, <3>5 DEF v
  <2> QED BY <2>1, <2>2
<1> QED BY <1>1, <1>4 DEF CallInv

LEMMA TurnCalls ==
    ASSUME mail \in Seq(Messages), ~Holds(mail, {"call"}), ~Holds(mail, {"clear"}),
           call' = NoCall, NEW jb, NEW j \in JobIds, Turns(jb, j)
    PROVE  CallInv'
BY FreshTurn DEF Turns

LEMMA PumpCalls ==
    ASSUME mail \in Seq(Messages), ~Holds(mail, {"call"}), ~Holds(mail, {"clear"}),
           call' = NoCall, NEW jb, NEW js \in Seq(JobIds), Pumps(js, jb)
    PROVE  CallInv'
<1>1. CASE mail' = mail /\ runner' = Idle
  <2>1. runner'.at = "idle" /\ 1 \in JobIds BY <1>1, Jobs_Assumption DEF Idle, JobIds
  <2> QED BY <1>1, <2>1, FreshTurn
<1>2. CASE \E j \in ToSet(js) : Turns(Begins(jb, j), j) BY <1>2, TurnCalls, ListElements
<1> QED BY <1>1, <1>2 DEF Pumps

\* The backend's side of a call moves.
LEMMA CallStepCalls ==
    ASSUME Types, RunnerInv, CallInv, CallStep
    PROVE  CallInv'
<1> DEFINE j == runner.id
<1>1. /\ j \in JobIds /\ runner.mod \in Lines /\ job[j] \in JobRecords
      /\ ModsOf(job[j]) \subseteq Mods /\ active \in Profiles /\ call \in Calls
  BY RunnerOne DEF Types
<1>2. UNCHANGED <<runner, mail>>
  BY DEF CallStep, CallBegins, BatchTakes, LockTaken, OpDone, OpFails, OpCut, ui
<1>3. call.at \in {"spawned", "loop", "plan", "work"}
  BY DEF CallStep, CallBegins, BatchTakes, LockTaken, OpDone, OpFails, OpCut
<1>4. runner.at \in {"call", "batch"} /\ ~Holds(mail, {"call"}) BY <1>3 DEF CallInv
<1>5. job[j].batch <=> runner.at = "batch" BY <1>4 DEF RunnerInv
<1>6. ModsOf(job'[j]) = ModsOf(job[j]) BY <1>1, CallsStand DEF JobsStand, SameJob, ModsOf
\* It is enough to look at the call.
<1>7. ASSUME call'.at \in {"loop", "plan", "work", "answered"},
             call'.at \in {"plan", "work"} => call'.mod \in Mods /\ call'.to \in Profiles,
             call'.at \in {"plan", "work"} /\ runner.at = "call" => call'.mod = runner.mod,
             call'.at = "loop" => runner.at = "batch",
             runner.at = "batch" => call'.left \subseteq ModsOf(job[j])
      PROVE  CallInv'
  BY <1>2, <1>4, <1>6, <1>7 DEF CallInv
<1>8. CASE CallBegins
  <2> DEFINE gone == ModsOf(job[j]) \ on[active]
             here == ModsOf(job[j]) \cap on[active]
             one == {runner.mod}
  <2>1. \/ call' = [call EXCEPT !.at = "answered", !.cut = one]
        \/ call' = [call EXCEPT !.at = "answered", !.did = one]
        \/ ~job[j].batch /\ call' = [call EXCEPT !.at = "plan", !.mod = runner.mod, !.to = active]
        \/ call' = [call EXCEPT !.at = "answered", !.reply = "error"]
        \/ job[j].batch /\
           call' = [call EXCEPT !.at = "loop", !.pid = active, !.left = gone, !.did = here]
    BY <1>8 DEF CallBegins
  <2>2. gone \subseteq ModsOf(job[j]) OBVIOUS
  <2> HIDE DEF gone, here, one
  <2>3. runner.at = "call" => runner.mod \in Mods BY DEF RunnerInv
  <2>4. runner.at = "batch" => call.left \subseteq ModsOf(job[j]) BY DEF CallInv
  <2>5. CASE \/ call' = [call EXCEPT !.at = "answered", !.cut = one]
             \/ call' = [call EXCEPT !.at = "answered", !.did = one]
             \/ call' = [call EXCEPT !.at = "answered", !.reply = "error"]
    <3>1. call'.at = "answered" /\ call'.left = call.left BY <1>1, <2>5 DEF Calls
    <3> QED BY <1>7, <2>4, <3>1
  <2>6. CASE ~job[j].batch /\ call' = [call EXCEPT !.at = "plan", !.mod = runner.mod, !.to = active]
    <3>1. call'.at = "plan" /\ call'.mod = runner.mod /\ call'.to = active
      BY <1>1, <2>6 DEF Calls
    <3> QED BY <1>1, <1>4, <1>5, <1>7, <2>3, <2>6, <3>1
  <2>7. CASE /\ job[j].batch
             /\ call' = [call EXCEPT !.at = "loop", !.pid = active, !.left = gone, !.did = here]
    <3>1. call'.at = "loop" /\ call'.left = gone BY <1>1, <2>7 DEF Calls
    <3> QED BY <1>5, <1>7, <2>2, <2>7, <3>1
  <2> QED BY <2>1, <2>5, <2>6, <2>7
<1>9. CASE BatchTakes
  <2> DEFINE m == FirstLeft(job[j].mods, call.left)
             L == call.left \ {m}
             D == call.did \cup {m}
             B == call.bad \cup {m}
  <2>1. \/ \E r \in {"ok", "cancelled"} : call' = [call EXCEPT !.at = "answered", !.reply = r]
        \/ /\ call.left # {}
           /\ \/ call' = [call EXCEPT !.left = L, !.did = D]
              \/ call' = [call EXCEPT !.at = "plan", !.mod = m, !.to = active]
              \/ call' = [call EXCEPT !.left = L, !.bad = B]
    BY <1>9 DEF BatchTakes
  <2>2. call.at = "loop" /\ runner.at = "batch" BY <1>9 DEF BatchTakes, CallInv
  <2>3. call.left \subseteq ModsOf(job[j]) BY <2>2 DEF CallInv
  <2>4. call.left # {} => m \in Mods
    <3>1. job[j].mods \in Seq(Mods) BY <1>1 DEF JobRecords
    <3> QED BY <1>1, <2>3, <3>1, FirstLeftIs DEF ModsOf
  <2>5. L \subseteq ModsOf(job[j]) BY <2>3
  <2> HIDE DEF m, L, D, B
  <2>6. CASE \/ \E r \in {"ok", "cancelled"} : call' = [call EXCEPT !.at = "answered", !.reply = r]
             \/ call' = [call EXCEPT !.left = L, !.did = D]
             \/ call' = [call EXCEPT !.left = L, !.bad = B]
    <3>1. call'.at \in {"answered", "loop"} /\ call'.left \in {call.left, L}
      BY <1>1, <2>2, <2>6 DEF Calls
    <3> QED BY <1>7, <2>2, <2>3, <2>5, <3>1
  <2>7. CASE call.left # {} /\ call' = [call EXCEPT !.at = "plan", !.mod = m, !.to = active]
    <3>1. call'.at = "plan" /\ call'.mod = m /\ call'.to = active /\ call'.left = call.left
      BY <1>1, <2>7 DEF Calls
    <3> QED BY <1>1, <1>7, <2>2, <2>3, <2>4, <2>7, <3>1
  <2> QED BY <2>1, <2>6, <2>7
<1>10. CASE LockTaken
  <2>1. call.at = "plan" /\ call'.at = "work" /\ call'.mod = call.mod /\ call'.to = call.to
        /\ call'.left = call.left
    BY <1>1, <1>10 DEF LockTaken, Calls
  <2> QED BY <1>7, <2>1 DEF CallInv
<1>11. CASE OpDone \/ OpFails \/ OpCut
  <2>1. call'.at \in {"loop", "answered"} /\ (call'.at = "loop" => job[j].batch)
        /\ call'.left \subseteq call.left
    <3>1. ASSUME NEW c, c \in Calls, c.left = call.left, OpEnds(c)
          PROVE  call'.at \in {"loop", "answered"} /\ (call'.at = "loop" => job[j].batch)
                 /\ call'.left \subseteq call.left
      <4> DEFINE l == c.left \ {call.mod}
      <4>1. IF job[j].batch THEN call' = [c EXCEPT !.at = "loop", !.left = l]
            ELSE call' = [c EXCEPT !.at = "answered"]
        BY <3>1 DEF OpEnds
      <4>2. l \subseteq call.left BY <3>1
      <4> HIDE DEF l
      <4> QED BY <3>1, <4>1, <4>2 DEF Calls
    <3>2. call.mod \in Lines BY <1>1 DEF Calls
    <3> DEFINE d == call.did \cup {call.mod}
               b == call.bad \cup {call.mod}
               x == call.cut \cup {call.mod}
    <3>3. \/ OpEnds([call EXCEPT !.did = d]) \/ OpEnds([call EXCEPT !.bad = b])
          \/ OpEnds([call EXCEPT !.reply = "error"]) \/ OpEnds([call EXCEPT !.cut = x])
      BY <1>11 DEF OpDone, OpFails, OpCut
    <3>4. d \in SUBSET Lines /\ b \in SUBSET Lines /\ x \in SUBSET Lines
      BY <1>1, <3>2 DEF Calls
    <3> HIDE DEF d, b, x
    <3>5. \A c \in {[call EXCEPT !.did = d], [call EXCEPT !.bad = b],
                    [call EXCEPT !.reply = "error"], [call EXCEPT !.cut = x]} :
            c \in Calls /\ c.left = call.left
      BY <1>1, <3>4 DEF Calls
    <3> QED BY <3>1, <3>3, <3>5
  <2>2. runner.at = "batch" => call.left \subseteq ModsOf(job[j]) BY DEF CallInv
  <2> QED BY <1>4, <1>5, <1>7, <2>1, <2>2
<1> QED BY <1>8, <1>9, <1>10, <1>11 DEF CallStep

LEMMA CallsStep ==
    ASSUME Types, ListInv, RunnerInv, CallInv, SweepInv, [Next]_vars
    PROVE  CallInv'
<1> DEFINE j == runner.id
<1>1. mail \in Seq(Messages) /\ j \in JobIds /\ job[j] \in JobRecords BY RunnerOne DEF Types
\* Neither the runner nor its call is concerned.
<1>2. ASSUME NEW D, Posts(D), D \cap {"call", "clear"} = {}, UNCHANGED call,
             runner'.at = runner.at, runner'.id = j, runner'.mod = runner.mod,
             runner.at = "batch" => job'[j].mods = job[j].mods
      PROVE  CallInv'
  <2>1. {"call"} \cap D = {} /\ {"clear"} \cap D = {} /\ {"call", "clear"} \cap D = {} BY <1>2
  <2>2. /\ Holds(mail', {"call"}) => Holds(mail, {"call"})
        /\ Holds(mail', {"clear"}) => Holds(mail, {"clear"})
        /\ AtMostOne(mail, {"call", "clear"}) => AtMostOne(mail', {"call", "clear"})
    BY <1>1, <1>2, <2>1, PostsQuiet
  <2>3. runner.at = "batch" => ModsOf(job'[j]) = ModsOf(job[j]) BY <1>2 DEF ModsOf
  <2> QED BY <1>2, <2>2, <2>3 DEF CallInv
<1>3. ASSUME NEW D, Posts(D), D \cap {"call", "clear"} = {}, UNCHANGED call,
             UNCHANGED runner, JobsStand(job, job')
      PROVE  CallInv'
  BY <1>1, <1>2, <1>3 DEF JobsStand, SameJob
\* The head of the mail was the runner's own message: none is left.
<1>4. ASSUME mail # <<>>, Head(mail).cmd \in {"call", "clear"}, mail' = Tail(mail)
      PROVE  /\ ~Holds(mail', {"call"}) /\ ~Holds(mail', {"clear"})
             /\ AtMostOne(mail', {"call", "clear"}) /\ Holds(mail, {Head(mail).cmd})
  <2> DEFINE v == mail'
             h == Head(mail)
  <2>1. v = Tail(mail) /\ h.cmd \in {"call", "clear"} /\ h.cmd \in {h.cmd} BY <1>4
  <2>2. AtMostOne(mail, {"call", "clear"}) BY DEF CallInv
  <2> HIDE DEF v
  <2>3. AtMostOne(v, {"call", "clear"}) /\ ~Holds(v, {"call", "clear"}) /\ Holds(mail, {h.cmd})
    BY <1>1, <1>4, <2>1, <2>2, MailOneLess
  <2>4. ~Holds(v, {"call"}) /\ ~Holds(v, {"clear"}) BY <2>3 DEF Holds
  <2> QED BY <2>3, <2>4 DEF v
<1>5. CASE UNCHANGED vars
  <2>1. UNCHANGED <<job, runner, call, mail>> BY <1>5 DEF vars
  <2>2. Posts({}) BY <2>1, PostsNone
  <2> QED BY <1>3, <2>1, <2>2, SameStands
<1>6. CASE SpawnCall
  <2>1. mail # <<>> /\ Head(mail).cmd = "call" /\ mail' = Tail(mail)
        /\ call' = [call EXCEPT !.at = "spawned"] /\ UNCHANGED <<job, runner>>
    BY <1>6 DEF SpawnCall, Delivered, ui
  <2>2. /\ ~Holds(mail', {"call"}) /\ ~Holds(mail', {"clear"})
        /\ AtMostOne(mail', {"call", "clear"}) /\ Holds(mail, {"call"})
    BY <1>4, <2>1
  <2>3. call = NoCall /\ runner.at \in {"call", "batch"} BY <2>2 DEF CallInv
  <2>4. call'.at = "spawned" /\ call'.left = {} BY <2>1, <2>3 DEF NoCall
  <2> QED BY <2>1, <2>2, <2>3, <2>4 DEF CallInv
<1>7. CASE ClearArrives
  <2>1. mail # <<>> /\ Head(mail).cmd = "clear" /\ mail' = Tail(mail)
        /\ runner' = [runner EXCEPT !.at = "cleared"] /\ UNCHANGED <<job, call>>
    BY <1>7 DEF ClearArrives, Delivered
  <2>2. /\ ~Holds(mail', {"call"}) /\ ~Holds(mail', {"clear"})
        /\ AtMostOne(mail', {"call", "clear"}) /\ Holds(mail, {"clear"})
    BY <1>4, <2>1
  <2>3. runner.at = "clear" BY <2>2 DEF CallInv
  <2>4. call.at = "none" /\ call = NoCall BY <2>3 DEF CallInv
  <2>5. runner'.at = "cleared" BY <2>1 DEF Types, Runners
  <2> QED BY <2>1, <2>2, <2>4, <2>5 DEF CallInv
<1>8. CASE SpawnSweep \/ StopArrives \/ StopAllArrives \/ KillArrives \/ LowerArrives
  <2>1. UNCHANGED <<job, runner, call>>
    BY <1>8 DEF SpawnSweep, StopArrives, StopAllArrives, KillArrives, LowerArrives, ui
  <2>2. Deliver BY <1>8 DEF Deliver
  <2>3. Posts({}) BY <2>2, StepPosts
  <2> QED BY <1>3, <2>1, <2>3, SameStands
<1>9. CASE CallStep BY <1>9, CallStepCalls
\* The runner hears, or ends, or starts: it has no message under way.
<1>10. CASE RunnerStep
  <2>1. /\ ~Holds(mail, {"call"}) /\ ~Holds(mail, {"clear"})
    <3>1. \/ runner.at \in {"profile", "cleared"}
          \/ runner.at \in {"call", "batch"} /\ call.at = "answered"
      BY <1>10 DEF RunnerStep, ProfileIsRead, RunnerHears, RunnerHearsBatch, RunnerEnds
    <3> QED BY <3>1 DEF CallInv
  <2>2. CASE ProfileIsRead
    <3>1. runner.at = "profile" /\ UNCHANGED call BY <2>2 DEF ProfileIsRead
    <3>2. call' = NoCall BY <3>1 DEF CallInv
    <3> QED BY <1>1, <2>1, <2>2, <3>2, ProfileTurns, TurnCalls
  <2>3. CASE RunnerHears BY <1>1, <2>1, <2>3, HearsTurns, TurnCalls
  <2>4. CASE RunnerHearsBatch
    <3>1. call' = NoCall /\ mail' = Append(mail, Msg("clear", j)) /\ runner'.at = "clear"
      BY <2>4, BatchHeard DEF Idle
    <3> QED BY <1>1, <2>1, <3>1, FreshTurn
  <2>5. CASE RunnerEnds
    <3> DEFINE js == jobs'
    <3>1. js \in Seq(JobIds) /\ Pumps(js, Ending) BY <2>5, EndsPumps
    <3> HIDE DEF js
    <3>2. runner.at = "cleared" /\ UNCHANGED call BY <2>5 DEF RunnerEnds
    <3>3. call' = NoCall BY <3>2 DEF CallInv
    <3> QED BY <1>1, <2>1, <3>1, <3>3, PumpCalls
  <2> QED BY <1>10, <2>2, <2>3, <2>4, <2>5 DEF RunnerStep
<1>11. CASE SweepStep
  <2>1. UNCHANGED <<runner, call>> /\ JobsStand(job, job') BY <1>11, SweepsStand
  <2>2. Posts({"lower"}) BY <1>11, StepPosts
  <2> QED BY <1>3, <2>1, <2>2
<1>12. ASSUME NEW r \in Requests, QueueJob(r) PROVE CallInv'
  <2> DEFINE js == jobs'
  <2>1. /\ nextId \in JobIds /\ js \in Seq(JobIds)
        /\ \/ runner.at = "idle" /\ Pumps(js, Queueing(r))
           \/ runner.at # "idle" /\ job' = Queueing(r) /\ UNCHANGED <<runner, mail>>
    BY <1>12, QueuePumps
  <2>2. UNCHANGED call BY <1>12 DEF QueueJob
  <2> HIDE DEF js
  <2>3. CASE runner.at = "idle" /\ Pumps(js, Queueing(r))
    <3>1. ~Holds(mail, {"call"}) /\ ~Holds(mail, {"clear"}) /\ call' = NoCall
      BY <2>2, <2>3 DEF CallInv
    <3> QED BY <1>1, <2>1, <2>3, <3>1, PumpCalls
  <2>4. CASE runner.at # "idle" /\ job' = Queueing(r) /\ UNCHANGED <<runner, mail>>
    <3>1. j # nextId
      <4>1. job[j].state = "running" BY <2>4, RunnerOne
      <4>2. nextId >= nextId BY <2>1, IdsAreNumbers
      <4>3. job[nextId].state = "none" BY <2>1, <4>2 DEF RunnerInv
      <4> QED BY <4>1, <4>3
    <3>2. job'[j] = job[j] BY <1>1, <2>1, <2>4, <3>1, QueueingIs
    <3>3. Posts({}) BY <2>4, PostsNone
    <3> QED BY <1>2, <2>2, <2>4, <3>2, <3>3
  <2> QED BY <2>1, <2>3, <2>4
<1>13. ASSUME (\E k \in JobIds : StopJob(k)) \/ (\E k \in Clicks : CancelAll(k)) PROVE CallInv'
  <2>1. Posts({"stop", "stopAll"}) BY <1>13, StepPosts
  <2>2. UNCHANGED <<runner, call>> BY <1>13 DEF StopJob, CancelAll
  <2>3. runner.at = "batch" => job'[j].mods = job[j].mods
    <3> SUFFICES ASSUME runner.at = "batch" PROVE job'[j].mods = job[j].mods OBVIOUS
    <3>1. job[j].state = "running" /\ j \in Running BY RunnerOne DEF Running
    <3>2. job'[j] = job[j] \/ job'[j] = [job[j] EXCEPT !.stop = TRUE]
      <4>1. ASSUME NEW k \in JobIds, StopJob(k)
            PROVE  job'[j] = job[j] \/ job'[j] = [job[j] EXCEPT !.stop = TRUE]
        BY <1>1, <3>1, <4>1, StopJobIs
      <4>2. ASSUME NEW k \in Clicks, CancelAll(k) PROVE job'[j] = [job[j] EXCEPT !.stop = TRUE]
        BY <3>1, <4>2, CancelAllIs
      <4> QED BY <1>13, <4>1, <4>2
    <3> QED BY <1>1, <3>2 DEF JobRecords
  <2> QED BY <1>2, <2>1, <2>2, <2>3
<1>14. ASSUME SkipCurrent PROVE CallInv'
  <2>1. /\ UNCHANGED <<job, call>>
        /\ runner' = [runner EXCEPT !.skip = runner.skip \/ Current]
    BY <1>14 DEF SkipCurrent
  <2>2. runner'.at = runner.at /\ runner'.id = runner.id /\ runner'.mod = runner.mod
    BY <2>1 DEF Types, Runners
  <2>3. Posts({"kill"}) BY <1>14, StepPosts
  <2> QED BY <1>2, <2>1, <2>2, <2>3
<1>15. ASSUME NEW mode \in SweepModes, SweepStarts(mode) PROVE CallInv'
  <2>1. UNCHANGED <<job, runner, call>> /\ Posts({"sweep"})
    BY <1>15, StepPosts DEF SweepStarts, ui
  <2> QED BY <1>3, <2>1, SameStands
<1>16. ASSUME DashboardCancels \/ (\E p \in SwitchTo : SwitchProfile(p)) PROVE CallInv'
  <2>1. UNCHANGED <<job, runner, call>> /\ Posts({})
    BY <1>16, StepPosts DEF DashboardCancels, SwitchProfile, ui
  <2> QED BY <1>3, <2>1, SameStands
<1>17. ASSUME NEW k \in Clicks, CancelAllEnds(k) PROVE CallInv'
  <2>1. UNCHANGED <<job, runner, call>> /\ Posts({"lower"})
    BY <1>17, StepPosts DEF CancelAllEnds, ui
  <2> QED BY <1>3, <2>1, SameStands
<1>18. PillCancel => (\E k \in JobIds : StopJob(k)) \/ (\E k \in Clicks : CancelAll(k))
  BY RunnerOne DEF PillCancel
<1> QED BY <1>5, <1>6, <1>7, <1>8, <1>9, <1>10, <1>11, <1>12, <1>13, <1>14, <1>15, <1>16,
           <1>17, <1>18 DEF Next, Users, Deliver

-------------------------------------------------------------------------------
(* The stops.                                                                *)

\* A job that has begun, or was stopped, stays so.
LEMMA OnwardStep ==
    ASSUME Types, ListInv, RunnerInv, CallInv, SweepInv, [Next]_vars
    PROVE  \A j \in JobIds : (Begun(j) => Begun(j)') /\ (Stopped(j) => Stopped(j)')
<1>1. ASSUME NEW j \in JobIds, job'[j].state = job[j].state, job[j].stop => job'[j].stop
      PROVE  (Begun(j) => Begun(j)') /\ (Stopped(j) => Stopped(j)')
  BY <1>1 DEF Begun, Stopped
<1>2. ASSUME NEW j \in JobIds, SameJob(job[j], job'[j]) \/ job'[j] = job[j]
      PROVE  (Begun(j) => Begun(j)') /\ (Stopped(j) => Stopped(j)')
  BY <1>1, <1>2 DEF SameJob
\* The pump: what is over stays over, and nothing else ran.
<1>3. ASSUME NEW jb \in Jobs, NEW js \in Seq(JobIds), Pumps(js, jb),
             \A k \in JobIds : jb[k].state # "running",
             NEW j \in JobIds, job[j].state \in {"running"} \cup Ended => jb[j].state \in Ended
      PROVE  (Begun(j) => Begun(j)') /\ (Stopped(j) => Stopped(j)')
  <2>1. job'[j].state = jb[j].state \/ jb[j].state = "queued" BY <1>3, PumpsStates
  <2>2. job[j].state \in {"running"} \cup Ended => job'[j].state \in Ended
    BY <1>3, <2>1 DEF Ended
  <2> QED BY <2>2 DEF Begun, Stopped
<1>4. runner.id \in JobIds /\ job \in Jobs /\ job[runner.id] \in JobRecords
  BY RunnerOne DEF Types
<1>5. ASSUME Steady, NEW j \in JobIds PROVE (Begun(j) => Begun(j)') /\ (Stopped(j) => Stopped(j)')
  BY <1>2, <1>5 DEF Steady, JobsStand
<1>6. ASSUME RunnerStep, NEW j \in JobIds
      PROVE  (Begun(j) => Begun(j)') /\ (Stopped(j) => Stopped(j)')
  <2>1. CASE ProfileIsRead
    <3>1. JobsStand(job, job') BY <1>4, <2>1, ProfileTurns, TurnsStand
    <3> QED BY <1>2, <3>1 DEF JobsStand
  <2>2. CASE RunnerHears
    <3>1. Heard \in Jobs /\ (\A k \in JobIds \ {runner.id} : Heard[k] = job[k])
          /\ SameJob(job[runner.id], Heard[runner.id]) /\ Turns(Heard, runner.id)
      BY <2>2, HearsTurns DEF Moved
    <3>2. JobsStand(Heard, job') BY <1>4, <3>1, TurnsStand
    <3>3. SameJob(job[j], job'[j]) BY <3>1, <3>2 DEF JobsStand, SameJob
    <3> QED BY <1>2, <3>3
  <2>3. CASE RunnerHearsBatch
    <3>1. CASE j = runner.id BY <1>1, <2>3, <3>1, BatchHeard
    <3>2. CASE j # runner.id
      <4>1. job'[j] = job[j] BY <2>3, <3>2, BatchHeard
      <4> QED BY <1>2, <4>1
    <3> QED BY <3>1, <3>2
  <2>4. CASE RunnerEnds
    <3> DEFINE js == jobs'
    <3>1. js \in Seq(JobIds) /\ Pumps(js, Ending) /\ runner.at = "cleared" BY <2>4, EndsPumps
    <3> HIDE DEF js
    <3>2. /\ Ending \in Jobs /\ \A k \in JobIds \ {runner.id} : Ending[k] = job[k]
          /\ Ending[runner.id].state \in Ended
      BY EndingIs
    <3>3. \A k \in JobIds : job[k].state = "running" => k = runner.id
      BY DEF RunnerInv, Running
    <3>4. \A k \in JobIds : Ending[k].state # "running" BY <3>2, <3>3 DEF Ended
    <3>5. job[j].state \in {"running"} \cup Ended => Ending[j].state \in Ended
      BY <3>2, <3>3
    <3> QED BY <1>3, <3>1, <3>2, <3>4, <3>5
  <2> QED BY <1>6, <2>1, <2>2, <2>3, <2>4 DEF RunnerStep
<1>7. ASSUME NEW r \in Requests, QueueJob(r), NEW j \in JobIds
      PROVE  (Begun(j) => Begun(j)') /\ (Stopped(j) => Stopped(j)')
  <2> DEFINE js == jobs'
  <2>1. /\ nextId \in JobIds /\ js \in Seq(JobIds)
        /\ \/ runner.at = "idle" /\ Pumps(js, Queueing(r))
           \/ runner.at # "idle" /\ job' = Queueing(r) /\ UNCHANGED <<runner, mail>>
    BY <1>7, QueuePumps
  <2> HIDE DEF js
  <2>2. /\ Queueing(r) \in Jobs /\ \A k \in JobIds \ {nextId} : Queueing(r)[k] = job[k]
        /\ Queueing(r)[nextId].state = "queued"
    BY <2>1, QueueingIs
  <2>3. job[nextId].state = "none"
    <3>1. nextId >= nextId BY <2>1, IdsAreNumbers
    <3> QED BY <2>1, <3>1 DEF RunnerInv
  <2>4. CASE runner.at = "idle" /\ Pumps(js, Queueing(r))
    <3>1. \A k \in JobIds : job[k].state # "running" BY <2>4 DEF RunnerInv, Running
    <3>2. \A k \in JobIds : Queueing(r)[k].state # "running" BY <2>2, <3>1
    <3>3. job[j].state \in {"running"} \cup Ended => Queueing(r)[j].state \in Ended
      BY <2>2, <2>3, <3>1 DEF Ended
    <3> QED BY <1>3, <2>1, <2>2, <2>4, <3>2, <3>3
  <2>5. CASE runner.at # "idle" /\ job' = Queueing(r)
    <3>1. CASE j = nextId BY <2>3, <3>1 DEF Begun, Stopped, Ended
    <3>2. CASE j # nextId BY <1>2, <2>2, <2>5, <3>2
    <3> QED BY <3>1, <3>2
  <2> QED BY <2>1, <2>4, <2>5
<1>8. ASSUME NEW k \in JobIds, StopJob(k), NEW j \in JobIds
      PROVE  (Begun(j) => Begun(j)') /\ (Stopped(j) => Stopped(j)')
  <2>1. CASE j # k BY <1>2, <1>8, <2>1, StopJobIs
  <2>2. CASE j = k /\ job[k].state = "queued" BY <2>2 DEF Begun, Stopped, Ended
  <2>3. CASE j = k /\ job[k].state # "queued"
    <3>1. job'[j] = [job[j] EXCEPT !.stop = TRUE] /\ job[j] \in JobRecords
      BY <1>8, <2>3, StopJobIs DEF Types, Jobs
    <3>2. job'[j].state = job[j].state /\ job'[j].stop = TRUE BY <3>1 DEF JobRecords
    <3> QED BY <1>1, <3>2
  <2> QED BY <2>1, <2>2, <2>3
<1>9. ASSUME NEW k \in Clicks, CancelAll(k), NEW j \in JobIds
      PROVE  (Begun(j) => Begun(j)') /\ (Stopped(j) => Stopped(j)')
  <2>1. CASE j \in Queued BY <2>1 DEF Queued, Begun, Stopped, Ended
  <2>2. CASE j \in Running
    <3>1. job'[j] = [job[j] EXCEPT !.stop = TRUE] /\ job[j] \in JobRecords
      BY <1>9, <2>2, CancelAllIs DEF Types, Jobs
    <3>2. job'[j].state = job[j].state /\ job'[j].stop = TRUE BY <3>1 DEF JobRecords
    <3> QED BY <1>1, <3>2
  <2>3. CASE j \notin Queued \cup Running BY <1>2, <1>9, <2>3, CancelAllIs
  <2> QED BY <2>1, <2>2, <2>3
<1> QED BY <1>5, <1>6, <1>7, <1>8, <1>9, Partition

\* The runner turns: it awaits nothing of the backend, skips nothing any more, and goes on
\* with its job or begins one that had not begun.
Anew ==
    /\ call' = NoCall /\ UNCHANGED <<tokens, killed, worker>> /\ runner'.skip = FALSE
    /\ Posts({"call", "clear"}) /\ ~Holds(mail, {"call"})
    /\ Unasked' => \/ Unasked /\ runner'.id = runner.id
                   \/ runner'.id \in JobIds /\ ~Begun(runner'.id)

LEMMA PumpsAnew ==
    ASSUME mail \in Seq(Messages), NEW jb \in Jobs, NEW js \in Seq(JobIds), Pumps(js, jb),
           \A k \in JobIds : jb[k].state = "queued" => ~Begun(k)
    PROVE  runner'.skip = FALSE /\ (Unasked' => runner'.id \in JobIds /\ ~Begun(runner'.id))
<1>1. CASE runner' = Idle
  <2>1. runner'.at = "idle" /\ runner'.skip = FALSE BY <1>1 DEF Idle
  <2> QED BY <2>1 DEF Unasked
<1>2. ASSUME NEW j \in ToSet(js), jb[j].state = "queued", Turns(Begins(jb, j), j)
      PROVE  runner'.skip = FALSE /\ runner'.id \in JobIds /\ ~Begun(runner'.id)
  BY <1>2, ListElements DEF Turns
<1> QED BY <1>1, <1>2 DEF Pumps

LEMMA RunnerAnew ==
    ASSUME Types, ListInv, RunnerInv, CallInv, RunnerStep
    PROVE  Anew
<1>1. mail \in Seq(Messages) /\ runner.id \in JobIds /\ job \in Jobs BY RunnerOne DEF Types
<1>2. Posts({"call", "clear"}) BY StepPosts
<1>3. UNCHANGED <<tokens, killed, worker>>
  BY DEF RunnerStep, ProfileIsRead, RunnerHears, RunnerHearsBatch, RunnerEnds, backend
<1>4. ~Holds(mail, {"call"})
  <2>1. \/ runner.at \in {"profile", "cleared"}
        \/ runner.at \in {"call", "batch"} /\ call.at = "answered"
    BY DEF RunnerStep, ProfileIsRead, RunnerHears, RunnerHearsBatch, RunnerEnds
  <2> QED BY <2>1 DEF CallInv
<1>5. CASE ProfileIsRead
  <2>1. runner.at = "profile" /\ UNCHANGED call BY <1>5 DEF ProfileIsRead
  <2>2. call' = NoCall BY <2>1 DEF CallInv
  <2>3. Turns(job, runner.id) BY <1>5, ProfileTurns
  <2>4. runner'.skip = FALSE /\ runner'.id = runner.id
        /\ job'[runner.id].stop = job[runner.id].stop
    BY <2>3 DEF Turns, GoneOn, SameJob
  <2>5. Unasked' => Unasked BY <2>1, <2>4 DEF Unasked
  <2> QED BY <1>2, <1>3, <1>4, <2>2, <2>4, <2>5 DEF Anew
<1>6. CASE RunnerHears
  <2>1. call' = NoCall /\ Turns(Heard, runner.id) /\ runner.at = "call"
        /\ SameJob(job[runner.id], Heard[runner.id])
    BY <1>6, HearsTurns DEF Moved
  <2>2. runner'.skip = FALSE /\ runner'.id = runner.id
        /\ job'[runner.id].stop = job[runner.id].stop
    BY <2>1 DEF Turns, GoneOn, SameJob
  <2>3. Unasked' => Unasked BY <2>1, <2>2 DEF Unasked
  <2> QED BY <1>2, <1>3, <1>4, <2>1, <2>2, <2>3 DEF Anew
<1>7. CASE RunnerHearsBatch
  <2>1. /\ call' = NoCall /\ runner.at = "batch"
        /\ runner' = [Idle EXCEPT !.at = "clear", !.id = runner.id]
        /\ job'[runner.id].stop = (job[runner.id].stop \/ call.reply = "cancelled")
    BY <1>7, BatchHeard
  <2>2. runner'.skip = FALSE /\ runner'.id = runner.id BY <2>1 DEF Idle
  <2>3. Unasked' => Unasked BY <2>1, <2>2 DEF Unasked
  <2> QED BY <1>2, <1>3, <1>4, <2>1, <2>2, <2>3 DEF Anew
<1>8. CASE RunnerEnds
  <2> DEFINE js == jobs'
  <2>1. js \in Seq(JobIds) /\ Pumps(js, Ending) /\ runner.at = "cleared" BY <1>8, EndsPumps
  <2> HIDE DEF js
  <2>2. UNCHANGED call BY <1>8 DEF RunnerEnds
  <2>3. call' = NoCall BY <2>1, <2>2 DEF CallInv
  <2>4. /\ Ending \in Jobs
        /\ \A k \in JobIds : Ending[k].state = "queued" => ~Begun(k)
    BY EndingIs DEF Begun, Ended
  <2>5. runner'.skip = FALSE /\ (Unasked' => runner'.id \in JobIds /\ ~Begun(runner'.id))
    BY <1>1, <2>1, <2>4, PumpsAnew
  <2> QED BY <1>2, <1>3, <1>4, <2>3, <2>5 DEF Anew
<1> QED BY <1>5, <1>6, <1>7, <1>8 DEF RunnerStep

LEMMA QueueAnew ==
    ASSUME Types, ListInv, RunnerInv, CallInv, NEW r \in Requests, QueueJob(r)
    PROVE  \/ Anew
           \/ /\ UNCHANGED <<runner, mail, call, tokens>> /\ runner.at # "idle"
              /\ job'[runner.id] = job[runner.id]
<1> DEFINE js == jobs'
<1>1. mail \in Seq(Messages) /\ runner.id \in JobIds BY RunnerOne DEF Types
<1>2. /\ nextId \in JobIds /\ js \in Seq(JobIds)
      /\ \/ runner.at = "idle" /\ Pumps(js, Queueing(r))
         \/ runner.at # "idle" /\ job' = Queueing(r) /\ UNCHANGED <<runner, mail>>
  BY QueuePumps
<1> HIDE DEF js
<1>3. /\ Queueing(r) \in Jobs /\ \A k \in JobIds \ {nextId} : Queueing(r)[k] = job[k]
  BY <1>2, QueueingIs
<1>4. job[nextId].state = "none"
  <2>1. nextId >= nextId BY <1>2, IdsAreNumbers
  <2> QED BY <1>2, <2>1 DEF RunnerInv
<1>5. UNCHANGED <<call, tokens, killed, worker>> BY DEF QueueJob, backend
<1>6. CASE runner.at = "idle" /\ Pumps(js, Queueing(r))
  <2>1. call' = NoCall /\ ~Holds(mail, {"call"}) BY <1>5, <1>6 DEF CallInv
  <2>2. \A k \in JobIds : Queueing(r)[k].state = "queued" => ~Begun(k)
    BY <1>3, <1>4 DEF Begun, Ended
  <2>3. runner'.skip = FALSE /\ (Unasked' => runner'.id \in JobIds /\ ~Begun(runner'.id))
    BY <1>1, <1>2, <1>3, <1>6, <2>2, PumpsAnew
  <2>4. Posts({"call", "clear"}) BY StepPosts
  <2> QED BY <1>5, <2>1, <2>3, <2>4 DEF Anew
<1>7. CASE runner.at # "idle" /\ job' = Queueing(r) /\ UNCHANGED <<runner, mail>>
  <2>1. runner.id # nextId
    <3>1. job[runner.id].state = "running" BY <1>7, RunnerOne
    <3> QED BY <1>4, <3>1
  <2> QED BY <1>1, <1>3, <1>5, <1>7, <2>1
<1> QED BY <1>2, <1>6, <1>7

\* A step in which nothing is stopped, and the call, when there is none, does not begin.
LEMMA QuietStops ==
    ASSUME mail \in Seq(Messages), SentInv, AllsInv, KillsInv,
           \A j \in JobIds : Stopped(j) => Stopped(j)',
           NEW D, Posts(D), D \cap {"stop", "stopAll", "kill"} = {},
           call.at = "none" => call'.at = "none",
           call.at = "none" /\ Unasked /\ runner.id \in Known(tokens') =>
               runner.id \in Known(tokens),
           runner'.id = runner.id, runner'.skip = runner.skip, Unasked' => Unasked
    PROVE  SentInv' /\ AllsInv' /\ KillsInv'
<1>1. {"stopAll"} \cap D = {} /\ {"kill"} \cap D = {} /\ "stop" \notin D OBVIOUS
<1>2. /\ Holds(mail', {"stopAll"}) => Holds(mail, {"stopAll"})
      /\ Holds(mail', {"kill"}) => Holds(mail, {"kill"})
      /\ NoneAfter(mail, {"stopAll"}, {"call"}) => NoneAfter(mail', {"stopAll"}, {"call"})
      /\ NoneAfter(mail, {"kill"}, {"call"}) => NoneAfter(mail', {"kill"}, {"call"})
      /\ StopsSent(mail') \subseteq StopsSent(mail)
  BY <1>1, PostsQuiet
<1>3. StopsSent(mail) \subseteq JobIds BY StopsAreOfJobs
<1>4. SentInv' BY <1>2, <1>3 DEF SentInv
<1>5. AllsInv' BY <1>2 DEF AllsInv
<1>6. KillsInv' BY <1>2 DEF KillsInv
<1> QED BY <1>4, <1>5, <1>6

LEMMA SameScopes ==
    ASSUME ScopesInv, \A j \in JobIds : (Begun(j) => Begun(j)') /\ (Stopped(j) => Stopped(j)'),
           tokens'.epoch = tokens.epoch, Known(tokens') \subseteq Known(tokens),
           \A k \in Known(tokens') : tokens'.scope[k] = tokens.scope[k],
           call'.at \in {"loop", "plan", "work"} => runner'.id \in Known(tokens')
    PROVE  ScopesInv'
<1>1. Known(tokens') \subseteq JobIds BY DEF Known
<1> QED BY <1>1 DEF ScopesInv

LEMMA AnewStops ==
    ASSUME Types, StopInv, Anew,
           \A j \in JobIds : (Begun(j) => Begun(j)') /\ (Stopped(j) => Stopped(j)')
    PROVE  StopInv'
<1>1. mail \in Seq(Messages) /\ call'.at = "none" /\ tokens' = tokens
  BY DEF Types, Anew, NoCall
<1>2. SentInv /\ AllsInv /\ KillsInv /\ ScopesInv BY DEF StopInv
<1>3. /\ {"stopAll"} \cap {"call", "clear"} = {} /\ {"kill"} \cap {"call", "clear"} = {}
      /\ "stop" \notin {"call", "clear"}
  OBVIOUS
<1>4. NoneAfter(mail, {"stopAll"}, {"call"}) /\ NoneAfter(mail, {"kill"}, {"call"})
  BY DEF Anew, NoneAfter, Holds
<1>5. /\ Holds(mail', {"stopAll"}) => Holds(mail, {"stopAll"})
      /\ NoneAfter(mail', {"stopAll"}, {"call"}) /\ NoneAfter(mail', {"kill"}, {"call"})
      /\ StopsSent(mail') \subseteq StopsSent(mail)
  BY <1>1, <1>3, <1>4, PostsQuiet DEF Anew
<1>6. StopsSent(mail) \subseteq JobIds BY <1>1, StopsAreOfJobs
<1>7. SentInv' BY <1>2, <1>5, <1>6 DEF SentInv
<1>8. Unasked' => (Holds(mail', {"stopAll"}) => runner'.id \notin Known(tokens))
  <2>1. CASE Unasked /\ runner'.id = runner.id BY <1>2, <1>5, <2>1 DEF AllsInv
  <2>2. CASE runner'.id \in JobIds /\ ~Begun(runner'.id) BY <1>2, <2>2 DEF ScopesInv
  <2> QED BY <2>1, <2>2 DEF Anew
<1>9. AllsInv' BY <1>1, <1>5, <1>8 DEF AllsInv
<1>10. KillsInv' BY <1>1, <1>5 DEF KillsInv
<1>11. ScopesInv' BY <1>1, <1>2, SameScopes
<1> QED BY <1>7, <1>9, <1>10, <1>11 DEF StopInv

\* What runs is stopped: a stop that is posted is meant for it.
LEMMA StoppedRunner ==
    ASSUME Types, RunnerInv, NEW j \in Running, job'[j] = [job[j] EXCEPT !.stop = TRUE],
           runner' = runner
    PROVE  Stopped(j)' /\ ~Unasked'
<1>1. job[j] \in JobRecords /\ job[j].state = "running" BY DEF Running, Types, Jobs
<1>2. job'[j].state = "running" /\ job'[j].stop = TRUE BY <1>1 DEF JobRecords
<1>3. j = runner.id BY DEF RunnerInv
<1> QED BY <1>2, <1>3 DEF Stopped, Unasked

LEMMA StopStep ==
    ASSUME Types, ListInv, RunnerInv, CallInv, SweepInv, LowerInv, StopInv, [Next]_vars
    PROVE  StopInv'
<1> DEFINE j == runner.id
           Onward == \A k \in JobIds : (Begun(k) => Begun(k)') /\ (Stopped(k) => Stopped(k)')
<1>1. /\ mail \in Seq(Messages) /\ j \in JobIds /\ 1 \in JobIds /\ tokens \in Tokens
      /\ call \in Calls /\ runner \in Runners
  BY RunnerOne, Jobs_Assumption DEF Types, JobIds
<1>2. SentInv /\ AllsInv /\ KillsInv /\ ScopesInv BY DEF StopInv
<1>3. Onward BY OnwardStep
<1> HIDE DEF Onward
<1>4. StopsSent(mail) \subseteq JobIds BY <1>1, StopsAreOfJobs
\* Neither the tokens nor the call, the runner's job as it was.
<1>5. ASSUME NEW D, Posts(D), D \cap {"stop", "stopAll", "kill"} = {},
             UNCHANGED <<tokens, call>>, runner'.id = j, runner'.skip = runner.skip,
             Unasked' => Unasked
      PROVE  StopInv'
  <2>1. SentInv' /\ AllsInv' /\ KillsInv' BY <1>1, <1>2, <1>3, <1>5, QuietStops DEF Onward
  <2>2. ScopesInv' BY <1>2, <1>3, <1>5, SameScopes DEF Onward, ScopesInv
  <2> QED BY <2>1, <2>2 DEF StopInv
<1>6. ASSUME UNCHANGED runner, JobsStand(job, job') PROVE Unasked' => Unasked
  BY <1>1, <1>6 DEF Unasked, JobsStand, SameJob
<1>7. ASSUME NEW D, Posts(D), D \cap {"stop", "stopAll", "kill"} = {},
             UNCHANGED <<tokens, call, runner>>, JobsStand(job, job')
      PROVE  StopInv'
  BY <1>5, <1>6, <1>7
\* The tokens alone move, and those of the runner's job are only opened for a call.
<1>8. ASSUME UNCHANGED <<job, runner>>, Posts({}), call.at = "none" => call'.at = "none",
             call.at = "none" /\ Unasked /\ j \in Known(tokens') => j \in Known(tokens),
             ScopesInv'
      PROVE  StopInv'
  <2>1. Unasked' => Unasked BY <1>6, <1>8, SameStands
  <2>2. SentInv' /\ AllsInv' /\ KillsInv'
    BY <1>1, <1>2, <1>3, <1>8, <2>1, QuietStops DEF Onward
  <2> QED BY <1>8, <2>2 DEF StopInv
<1>9. CASE UNCHANGED vars
  <2>1. UNCHANGED <<job, runner, call, tokens, mail>> BY <1>9 DEF vars
  <2>2. Posts({}) BY <2>1, PostsNone
  <2> QED BY <1>7, <2>1, <2>2, SameStands
<1>10. ASSUME Deliver PROVE Posts({}) /\ mail # <<>> /\ mail' = Tail(mail) /\ Head(mail) \in Messages
  <2>1. mail # <<>> /\ mail' = Tail(mail)
    BY <1>10 DEF Deliver, SpawnCall, SpawnSweep, StopArrives, StopAllArrives, KillArrives,
       ClearArrives, LowerArrives, Delivered
  <2> QED BY <1>1, <1>10, <2>1, StepPosts, MailOneLess
<1>11. CASE SpawnCall
  <2>1. Posts({}) /\ mail # <<>> /\ mail' = Tail(mail) /\ Head(mail).cmd = "call"
    BY <1>10, <1>11 DEF Deliver, SpawnCall, Delivered
  <2>2. call' = [call EXCEPT !.at = "spawned"] /\ UNCHANGED <<job, runner, tokens>>
    BY <1>11 DEF SpawnCall, ui, backend
  <2>3. call'.at = "spawned" BY <1>1, <2>2 DEF Calls
  <2>4. Unasked' => Unasked BY <1>6, <2>2, SameStands
  <2>5. /\ StopsSent(mail') \subseteq StopsSent(mail)
        /\ NoneAfter(mail, {"stopAll"}, {"call"}) =>
             NoneAfter(mail', {"stopAll"}, {"call"}) /\ ~Holds(mail', {"stopAll"})
        /\ NoneAfter(mail, {"kill"}, {"call"}) =>
             NoneAfter(mail', {"kill"}, {"call"}) /\ ~Holds(mail', {"kill"})
    <3> DEFINE v == mail'
               h == Head(mail)
    <3>1. v = Tail(mail) /\ h.cmd \in {"call"} BY <2>1
    <3> HIDE DEF v
    <3>2. /\ StopsSent(v) \subseteq StopsSent(mail)
          /\ \A L, E : NoneAfter(mail, L, E) =>
               NoneAfter(v, L, E) /\ (h.cmd \in E => ~Holds(v, L))
      BY <1>1, <2>1, <3>1, MailOneLess
    <3> QED BY <3>1, <3>2 DEF v
  <2>6. SentInv' BY <1>2, <1>3, <1>4, <2>5 DEF SentInv, Onward
  <2>7. AllsInv' BY <1>2, <2>4, <2>5 DEF AllsInv
  <2>8. KillsInv' BY <1>2, <2>2, <2>5 DEF KillsInv
  <2>9. ScopesInv' BY <1>2, <1>3, <2>2, <2>3, SameScopes DEF Onward
  <2> QED BY <2>6, <2>7, <2>8, <2>9 DEF StopInv
<1>12. CASE SpawnSweep \/ KillArrives
  <2>1. Posts({}) BY <1>10, <1>12 DEF Deliver
  <2>2. UNCHANGED <<job, runner, call, tokens>>
    BY <1>12 DEF SpawnSweep, KillArrives, ui, backend
  <2> QED BY <1>7, <2>1, <2>2, SameStands
<1>13. CASE StopArrives
  <2> DEFINE n == Head(mail).id
  <2>1. Posts({}) /\ mail # <<>> /\ n \in JobIds
    BY <1>10, <1>13 DEF Deliver, Messages
  <2>2. tokens' = StopScope(tokens, Held, n) /\ UNCHANGED <<job, runner, call>>
    BY <1>13 DEF StopArrives, ui
  <2>3. Head(mail).cmd = "stop" BY <1>13 DEF StopArrives, Delivered
  <2>4. n \in StopsSent(mail) BY <1>1, <2>1, <2>3, MailOneLess
  <2>5. Stopped(n) /\ Begun(n) BY <1>2, <2>4 DEF SentInv, Stopped, Begun
  <2> HIDE DEF n
  <2>6. Opens(tokens, Held, n, tokens') BY <1>1, <2>1, <2>2, StopScopeScopes
  <2>7. ScopesInv'
    <3>1. /\ Known(tokens') \subseteq Known(tokens) \cup {n}
          /\ Known(tokens') \subseteq JobIds
          /\ tokens'.epoch = tokens.epoch
          /\ \A k \in Known(tokens') \ {n} : tokens'.scope[k] = tokens.scope[k]
          /\ \A k \in Known(tokens) : k \in Held => k \in Known(tokens')
      BY <2>6 DEF Opens, Known
    <3>2. call'.at \in {"loop", "plan", "work"} => runner'.id \in Known(tokens')
      <4> SUFFICES ASSUME call.at \in {"loop", "plan", "work"} PROVE j \in Known(tokens')
        BY <2>2
      <4>1. j \in Known(tokens) BY <1>2 DEF ScopesInv
      <4>2. j \in Held BY DEF Held
      <4> QED BY <3>1, <4>1, <4>2
    <3>3. \A k \in Known(tokens') :
            /\ Begun(k)'
            /\ tokens'.scope[k].cut \/ tokens'.epoch > tokens'.scope[k].since => Stopped(k)'
      BY <1>2, <1>3, <2>1, <2>5, <3>1 DEF ScopesInv, Onward
    <3> QED BY <3>2, <3>3 DEF ScopesInv
  <2>8. Unasked => n # j
    BY <2>5, RunnerOne DEF Unasked, Stopped, Ended
  <2>9. Unasked /\ j \in Known(tokens') => j \in Known(tokens) BY <2>6, <2>8 DEF Opens
  <2> QED BY <1>8, <2>1, <2>2, <2>7, <2>9
<1>14. CASE StopAllArrives
  <2>1. Posts({}) /\ mail # <<>> BY <1>10, <1>14 DEF Deliver
  <2>2. tokens' = StopAll(tokens) /\ UNCHANGED <<job, runner, call>>
    BY <1>14 DEF StopAllArrives, ui
  <2>3. Head(mail).cmd \in {"stopAll"} BY <1>14 DEF StopAllArrives, Delivered
  <2>4. Holds(mail, {"stopAll"}) BY <1>1, <2>1, <2>3, MailOneLess
  <2>5. tokens'.scope = tokens.scope BY <1>1, <2>2, OtherTokens
  <2>6. Known(tokens') = Known(tokens) /\ Known(tokens) \subseteq JobIds BY <2>5 DEF Known
  <2>7. \A k \in Known(tokens) : Stopped(k)
    <3> TAKE k \in Known(tokens)
    <3>1. Begun(k) /\ k \in JobIds BY <1>2, <2>6 DEF ScopesInv
    <3>2. CASE job[k].state \in Ended BY <3>2 DEF Stopped
    <3>3. CASE job[k].state = "running"
      <4>1. runner.at # "idle" /\ k = j BY <3>1, <3>3 DEF RunnerInv, Running
      <4>2. ~Unasked BY <1>2, <2>4, <4>1 DEF AllsInv
      <4> QED BY <3>3, <4>1, <4>2 DEF Unasked, Stopped
    <3> QED BY <3>1, <3>2, <3>3 DEF Begun
  <2>8. ScopesInv'
    <3>1. \A k \in Known(tokens') : Begun(k)' /\ Stopped(k)'
      BY <1>2, <1>3, <2>6, <2>7 DEF ScopesInv, Onward
    <3> QED BY <1>2, <2>2, <2>6, <3>1 DEF ScopesInv
  <2> QED BY <1>8, <2>1, <2>2, <2>6, <2>8
<1>15. CASE ClearArrives
  <2>1. Posts({}) /\ mail # <<>> /\ Head(mail) \in Messages BY <1>10, <1>15 DEF Deliver
  <2>2. /\ tokens' = DropScope(tokens, Head(mail).id) /\ UNCHANGED <<job, call>>
        /\ runner' = [runner EXCEPT !.at = "cleared"]
    BY <1>15 DEF ClearArrives
  <2>3. Head(mail).cmd \in {"clear"} BY <1>15 DEF ClearArrives, Delivered
  <2>4. Holds(mail, {"clear"}) BY <1>1, <2>1, <2>3, MailOneLess
  <2>5. runner.at = "clear" /\ call.at = "none" BY <2>4 DEF CallInv
  <2>6. runner'.id = j /\ runner'.skip = runner.skip BY <1>1, <2>2 DEF Runners
  <2>7. Unasked' => Unasked BY <2>2, <2>5, <2>6 DEF Unasked
  <2>8. Head(mail).id \in JobIds BY <2>1 DEF Messages
  <2> DEFINE n == Head(mail).id
  <2>9. /\ tokens'.epoch = tokens.epoch /\ Known(tokens') = Known(tokens) \ {n}
        /\ \A k \in JobIds \ {n} : tokens'.scope[k] = tokens.scope[k]
    BY <1>1, <2>2, <2>8, OtherTokens
  <2> HIDE DEF n
  <2>10. /\ Known(tokens') \subseteq Known(tokens)
         /\ \A k \in Known(tokens') : tokens'.scope[k] = tokens.scope[k]
    BY <2>9 DEF Known
  <2>11. ScopesInv' BY <1>2, <1>3, <2>2, <2>5, <2>9, <2>10, SameScopes DEF Onward
  <2>12. SentInv' /\ AllsInv' /\ KillsInv'
    BY <1>1, <1>2, <1>3, <2>1, <2>2, <2>6, <2>7, <2>10, QuietStops DEF Onward
  <2> QED BY <2>11, <2>12 DEF StopInv
\* The flag is lowered: that is no business of the scopes.
<1>16. ASSUME UNCHANGED <<job, runner, call>>, Posts({}), tokens' = LowerFlag(tokens)
       PROVE  StopInv'
  <2>1. tokens'.epoch = tokens.epoch /\ tokens'.scope = tokens.scope
    BY <1>1, <1>16, OtherTokens
  <2>2. Known(tokens') = Known(tokens) BY <2>1 DEF Known
  <2>3. ScopesInv' BY <1>2, <1>3, <1>16, <2>1, <2>2, SameScopes DEF Onward, ScopesInv
  <2> QED BY <1>8, <1>16, <2>2, <2>3
<1>17. CASE LowerArrives
  BY <1>10, <1>16, <1>17 DEF Deliver, LowerArrives, ui
<1>18. CASE CallStep
  <2>1. Posts({}) /\ UNCHANGED runner /\ call.at # "none"
    BY <1>18, StepPosts DEF CallStep, CallBegins, BatchTakes, LockTaken, OpDone, OpFails, OpCut, ui
  <2>3. JobsStand(job, job') BY <1>18, CallsStand
  <2>4. Unasked' => Unasked BY <1>6, <2>1, <2>3
  <2>5. SentInv' /\ AllsInv' /\ KillsInv'
    BY <1>1, <1>2, <1>3, <2>1, <2>4, QuietStops DEF Onward
  <2>6. CASE CallBegins
    <3>1. tokens' = Opened(tokens, Held, j) BY <2>6 DEF CallBegins
    <3>2. /\ Opens(tokens, Held, j, tokens') /\ (j \in Known(tokens) => tokens' = tokens)
          /\ j \notin Known(tokens) => tokens'.scope[j].cut = FALSE
                                       /\ tokens'.scope[j].since = tokens.epoch
      BY <1>1, <3>1, OpenedScopes
    <3>3. Begun(j)
      <4>1. runner.at # "idle" BY <2>1 DEF CallInv
      <4> QED BY <4>1, RunnerOne DEF Begun
    <3>4. j \in Known(tokens') /\ Known(tokens') \subseteq Known(tokens) \cup {j}
          /\ tokens'.epoch = tokens.epoch /\ Known(tokens') \subseteq JobIds
          /\ \A k \in Known(tokens') \ {j} : tokens'.scope[k] = tokens.scope[k]
      BY <3>2 DEF Opens, Known
    <3>5. \A k \in Known(tokens') :
            /\ Begun(k)
            /\ tokens'.scope[k].cut \/ tokens'.epoch > tokens'.scope[k].since => Stopped(k)
      <4> TAKE k \in Known(tokens')
      <4>1. CASE k \in Known(tokens) /\ tokens'.scope[k] = tokens.scope[k]
        BY <1>2, <3>4, <4>1 DEF ScopesInv
      <4>2. CASE k = j /\ j \notin Known(tokens)
        <5>1. tokens.epoch \in Nat BY <1>1 DEF Tokens
        <5>2. ~(tokens'.epoch > tokens'.scope[k].since) BY <3>2, <3>4, <4>2, <5>1
        <5> QED BY <3>2, <3>3, <4>2, <5>2
      <4> QED BY <3>2, <3>4, <4>1, <4>2
    <3>6. ScopesInv' BY <1>3, <2>1, <3>4, <3>5 DEF ScopesInv, Onward
    <3> QED BY <2>5, <3>6 DEF StopInv
  <2>7. CASE BatchTakes \/ LockTaken \/ OpDone \/ OpFails \/ OpCut
    <3>1. UNCHANGED tokens /\ call.at \in {"loop", "plan", "work"}
      BY <2>7 DEF BatchTakes, LockTaken, OpDone, OpFails, OpCut, backend
    <3>2. ScopesInv' BY <1>2, <1>3, <2>1, <3>1, SameScopes DEF Onward, ScopesInv
    <3> QED BY <2>5, <3>2 DEF StopInv
  <2> QED BY <1>18, <2>6, <2>7 DEF CallStep
<1>19. CASE RunnerStep BY <1>3, <1>19, RunnerAnew, AnewStops DEF Onward
<1>20. ASSUME NEW r \in Requests, QueueJob(r) PROVE StopInv'
  <2>1. CASE Anew BY <1>3, <2>1, AnewStops DEF Onward
  <2>2. CASE /\ UNCHANGED <<runner, mail, call, tokens>> /\ runner.at # "idle"
             /\ job'[j] = job[j]
    <3>1. Posts({}) /\ (Unasked' => Unasked) BY <2>2 DEF Posts, Unasked
    <3> QED BY <1>5, <2>2, <3>1
  <2> QED BY <1>20, <2>1, <2>2, QueueAnew
<1>21. CASE SweepStep
  <2>1. UNCHANGED <<runner, call>> /\ Posts({"lower"}) /\ JobsStand(job, job')
    BY <1>21, StepPosts, SweepsStand
  <2>2. CASE SweepBegins
    <3>1. UNCHANGED <<job, runner, call>> /\ Posts({}) /\ tokens' = LowerFlag(tokens)
      BY <2>2 DEF SweepBegins, ui, Posts
    <3> QED BY <1>16, <3>1
  <2>3. CASE ~SweepBegins
    <3>1. UNCHANGED tokens
      BY <1>21, <2>3 DEF SweepStep, SweepTakes, SweepLocks, SweepOpEnds, SweepHears,
                         SweepReverts, SweepIsOver, backend
    <3> QED BY <1>7, <2>1, <3>1
  <2> QED BY <2>2, <2>3
<1>22. ASSUME NEW k \in JobIds, StopJob(k) PROVE StopInv'
  <2>1. UNCHANGED <<runner, call, tokens>> BY <1>22 DEF StopJob, backend
  <2>2. CASE job[k].state = "queued"
    <3>1. UNCHANGED mail /\ \A l \in JobIds \ {k} : job'[l] = job[l] BY <1>22, <2>2, StopJobIs
    <3>2. runner.at # "idle" => job'[j] = job[j] BY <1>1, <2>2, <3>1, RunnerOne
    <3>3. Unasked' => Unasked BY <2>1, <3>2 DEF Unasked
    <3>4. Posts({}) BY <3>1, PostsNone
    <3> QED BY <1>1, <1>5, <2>1, <3>3, <3>4
  <2>3. CASE job[k].state # "queued"
    <3>1. job[k].state = "running" /\ job'[k] = [job[k] EXCEPT !.stop = TRUE]
          /\ mail' = Append(mail, Msg("stop", k)) /\ k \in Running
      BY <1>22, <2>3, StopJobIs DEF Running
    <3>2. Stopped(k)' /\ ~Unasked' BY <2>1, <3>1, StoppedRunner
    <3> DEFINE v == mail'
               m == Msg("stop", k)
    <3>3. v = Append(mail, m) /\ m \in Messages /\ m.cmd = "stop" /\ m.id = k
      BY <3>1, MsgTypes, MsgIs
    <3> HIDE DEF v, m
    <3>4. /\ \A C : Holds(v, C) <=> Holds(mail, C) \/ m.cmd \in C
          /\ StopsSent(v) \subseteq StopsSent(mail) \cup {k}
      BY <1>1, <3>3, MailOneMore
    <3>5. NoneAfter(mail, {"kill"}, {"call"}) => NoneAfter(v, {"kill"}, {"call"})
      <4>1. m.cmd \notin {"kill"} BY <3>3
      <4> QED BY <1>1, <3>3, <4>1, MailOneMore
    <3>6. SentInv' BY <1>2, <1>3, <1>4, <3>2, <3>4 DEF SentInv, Onward, v
    <3>7. AllsInv' BY <3>2 DEF AllsInv
    <3>8. KillsInv'
      <4>1. Holds(v, {"kill"}) => Holds(mail, {"kill"}) BY <3>3, <3>4
      <4> QED BY <1>2, <2>1, <3>5, <4>1 DEF KillsInv, v
    <3>9. ScopesInv' BY <1>2, <1>3, <2>1, SameScopes DEF Onward, ScopesInv
    <3> QED BY <3>6, <3>7, <3>8, <3>9 DEF StopInv
  <2> QED BY <2>2, <2>3
<1>23. ASSUME NEW k \in Clicks, CancelAll(k) PROVE StopInv'
  <2>1. UNCHANGED <<runner, call, tokens>> BY <1>23 DEF CancelAll, backend
  <2>2. \A l \in Running : job'[l] = [job[l] EXCEPT !.stop = TRUE] BY <1>23, CancelAllIs
  <2>3. \A l \in Running : Stopped(l)' /\ ~Unasked' BY <2>1, <2>2, StoppedRunner
  <2>4. ~Unasked'
    <3>1. CASE runner.at = "idle" BY <2>1, <3>1 DEF Unasked
    <3>2. CASE runner.at # "idle"
      <4>1. j \in Running BY <3>2 DEF RunnerInv
      <4> QED BY <2>3, <4>1
    <3> QED BY <3>1, <3>2
  <2> DEFINE v == mail'
             a == Msg("stopAll", 1)
             b == Msg("stop", j)
             w == Append(mail, a)
             x == Append(mail, b)
  <2>5. /\ a \in Messages /\ b \in Messages /\ a.cmd = "stopAll" /\ b.cmd = "stop" /\ b.id = j
    BY <1>1, MsgTypes, MsgIs
  <2>6. v = w \/ (j \in Running /\ (v = Append(x, a) \/ v = Append(w, b)))
    BY <1>23, CancelAllPosts
  <2> HIDE DEF v, a, b
  <2>7. w \in Seq(Messages) /\ x \in Seq(Messages)
        /\ StopsSent(w) \subseteq StopsSent(mail) /\ StopsSent(x) \subseteq StopsSent(mail) \cup {j}
    BY <1>1, <2>5, MailOneMore
  <2> HIDE DEF w, x
  <2>8. /\ StopsSent(Append(x, a)) \subseteq StopsSent(x)
        /\ StopsSent(Append(w, b)) \subseteq StopsSent(w) \cup {j}
    BY <2>5, <2>7, MailOneMore
  <2>9. StopsSent(v) \subseteq StopsSent(mail) \cup (IF j \in Running THEN {j} ELSE {})
    BY <2>6, <2>7, <2>8
  <2>10. SentInv' BY <1>2, <1>3, <1>4, <2>3, <2>9 DEF SentInv, Onward, v
  <2>11. AllsInv' BY <2>4 DEF AllsInv
  <2>12. KillsInv'
    <3>1. Posts({"stop", "stopAll"}) BY <1>23, StepPosts
    <3>2. {"kill"} \cap {"stop", "stopAll"} = {} OBVIOUS
    <3>3. /\ Holds(mail', {"kill"}) => Holds(mail, {"kill"})
          /\ NoneAfter(mail, {"kill"}, {"call"}) => NoneAfter(mail', {"kill"}, {"call"})
      BY <1>1, <3>1, <3>2, PostsQuiet
    <3> QED BY <1>2, <2>1, <3>3 DEF KillsInv
  <2>13. ScopesInv' BY <1>2, <1>3, <2>1, SameScopes DEF Onward, ScopesInv
  <2> QED BY <2>10, <2>11, <2>12, <2>13 DEF StopInv
<1>24. CASE SkipCurrent
  <2>1. /\ UNCHANGED <<job, call, tokens>> /\ runner' = [runner EXCEPT !.skip = runner.skip \/ Current]
        /\ mail' = mail \o <<Msg("kill", 1)>>
    BY <1>24 DEF SkipCurrent, Post, backend
  <2>2. /\ runner'.at = runner.at /\ runner'.id = j
        /\ (runner'.skip <=> runner.skip \/ Current)
    BY <1>1, <2>1 DEF Runners
  <2>3. Unasked' => Unasked BY <2>1, <2>2 DEF Unasked
  <2> DEFINE v == mail'
             m == Msg("kill", 1)
  <2>4. v = Append(mail, m) /\ m \in Messages /\ m.cmd = "kill"
    BY <1>1, <2>1, PostOne, MsgTypes, MsgIs
  <2> HIDE DEF v, m
  <2>5. /\ \A C : Holds(v, C) <=> Holds(mail, C) \/ m.cmd \in C
        /\ StopsSent(v) \subseteq StopsSent(mail)
        /\ \A L, E : NoneAfter(mail, L, E) /\ (m.cmd \in L => ~Holds(mail, E)) =>
                       NoneAfter(v, L, E)
    BY <1>1, <2>4, MailOneMore
  <2>6. SentInv' BY <1>2, <1>3, <1>4, <2>5 DEF SentInv, Onward, v
  <2>7. AllsInv'
    <3>1. m.cmd \notin {"stopAll"} BY <2>4
    <3>2. Holds(v, {"stopAll"}) => Holds(mail, {"stopAll"}) BY <2>5, <3>1
    <3>3. NoneAfter(mail, {"stopAll"}, {"call"}) => NoneAfter(v, {"stopAll"}, {"call"})
      BY <2>5, <3>1
    <3> QED BY <1>2, <2>1, <2>2, <2>3, <3>2, <3>3 DEF AllsInv, v
  <2>8. KillsInv'
    <3> SUFFICES ASSUME ~runner'.skip
                 PROVE  call'.at = "none" /\ NoneAfter(v, {"kill"}, {"call"})
      BY DEF KillsInv, v
    <3>1. ~runner.skip /\ runner.at \notin {"call", "batch"} BY <2>2 DEF Current
    <3>2. call.at = "none" /\ ~Holds(mail, {"call"}) BY <3>1 DEF CallInv
    <3>3. NoneAfter(mail, {"kill"}, {"call"}) BY <1>2, <3>1 DEF KillsInv
    <3> QED BY <2>1, <2>5, <3>2, <3>3
  <2>9. ScopesInv' BY <1>2, <1>3, <2>1, <2>2, SameScopes DEF Onward, ScopesInv
  <2> QED BY <2>6, <2>7, <2>8, <2>9 DEF StopInv
<1>25. ASSUME NEW mode \in SweepModes, SweepStarts(mode) PROVE StopInv'
  <2>1. UNCHANGED <<job, runner, call, tokens>> /\ Posts({"sweep"})
    BY <1>25, StepPosts DEF SweepStarts, ui, backend
  <2> QED BY <1>7, <2>1, SameStands
<1>26. ASSUME DashboardCancels \/ (\E p \in SwitchTo : SwitchProfile(p)) PROVE StopInv'
  <2>1. UNCHANGED <<job, runner, call, tokens>> /\ Posts({})
    BY <1>26, StepPosts DEF DashboardCancels, SwitchProfile, ui
  <2> QED BY <1>7, <2>1, SameStands
<1>27. ASSUME NEW k \in Clicks, CancelAllEnds(k) PROVE StopInv'
  <2>1. UNCHANGED <<job, runner, call, tokens>> /\ Posts({"lower"})
    BY <1>27, StepPosts DEF CancelAllEnds, ui, backend
  <2> QED BY <1>7, <2>1, SameStands
<1>28. PillCancel => (\E k \in JobIds : StopJob(k)) \/ (\E k \in Clicks : CancelAll(k))
  BY RunnerOne DEF PillCancel
<1> QED BY <1>9, <1>11, <1>12, <1>13, <1>14, <1>15, <1>17, <1>18, <1>19, <1>20, <1>21, <1>22,
           <1>23, <1>24, <1>25, <1>26, <1>27, <1>28 DEF Next, Users, Deliver

-------------------------------------------------------------------------------
(* What follows, whoever acts.                                               *)

LEMMA InitAll == ASSUME Init PROVE AllInv
<1> USE DEF Init
<1>1. 1 \in JobIds /\ JobIds \subseteq Nat BY Jobs_Assumption, IdsAreNumbers DEF JobIds
<1>2. \A m \in Lines : NoLines[m] = "absent" BY DEF NoLines
<1>3. NoJob \in JobRecords /\ NoJob.state = "none" /\ \A m \in Lines : NoJob.line[m] = "absent"
  <2>1. NoLines \in [Lines -> Phases] /\ <<>> \in Seq(Mods) BY DEF NoLines, Phases
  <2> HIDE DEF NoLines
  <2> QED BY <1>2, <2>1 DEF NoJob, JobRecords, States, Modes
<1>4. Types
  <2>1. nextId \in 1..(MaxJobs + 1) BY Jobs_Assumption
  <2>2. jobs \in Seq(JobIds) /\ mail \in Seq(Messages) OBVIOUS
  <2>3. job \in Jobs BY <1>3 DEF Jobs
  <2>4. runner \in Runners BY <1>1 DEF Idle, Runners, NoMod, Lines
  <2>5. call \in Calls BY DEF NoCall, Calls, NoMod, Lines
  <2>6. sweep \in Sweeps BY Jobs_Assumption DEF NoSweep, Sweeps, Modes, NoMod, Lines
  <2>7. click \in [Clicks -> [at : {"unused", "waiting", "over"}, jobs : SUBSET JobIds]] OBVIOUS
  <2>8. tokens \in Tokens BY NoTokensAre
  <2>9. on \in [Profiles -> SUBSET Mods] OBVIOUS
  <2> QED BY <2>1, <2>2, <2>3, <2>4, <2>5, <2>6, <2>7, <2>8, <2>9 DEF Types
<1>5. \A j \in JobIds : job[j].state = "none" BY <1>3
<1>6. ListInv
  <2>1. Live(job) = {} BY <1>5 DEF Live
  <2>2. ToSet(jobs) = {} BY DEF ToSet
  <2>3. Ascending(jobs) BY DEF Ascending
  <2> QED BY <2>1, <2>2, <2>3 DEF ListInv
<1>7. RunnerInv
  <2>1. Running = {} /\ runner.at = "idle" BY <1>5 DEF Running, Idle
  <2>2. \A j \in JobIds : j >= nextId BY <1>1, Jobs_Assumption DEF JobIds
  <2> QED BY <1>5, <2>1, <2>2 DEF RunnerInv
<1>8. /\ \A C : ~Holds(mail, C) /\ AtMostOne(mail, C)
      /\ \A L, E : NoneAfter(mail, L, E)
      /\ StopsSent(mail) = {}
  <2>1. 1..Len(mail) = {} OBVIOUS
  <2> QED BY <2>1 DEF Holds, AtMostOne, NoneAfter, StopsSent
<1>9. call.at = "none" /\ runner.at = "idle" /\ sweep.at = "idle"
  BY DEF NoCall, Idle, NoSweep
<1>10. CallInv BY <1>8, <1>9 DEF CallInv
<1>11. SweepInv /\ LowerInv BY <1>8, <1>9 DEF SweepInv, LowerInv
<1>12. StopInv
  <2>1. Known(tokens) = {} BY NoTokensAre
  <2>2. SentInv BY <1>8 DEF SentInv
  <2>3. AllsInv BY <1>8, <1>9 DEF AllsInv
  <2>4. KillsInv BY <1>8, <1>9 DEF KillsInv
  <2>5. ScopesInv BY <1>9, <2>1 DEF ScopesInv
  <2> QED BY <2>2, <2>3, <2>4, <2>5 DEF StopInv
<1> QED BY <1>4, <1>6, <1>7, <1>10, <1>11, <1>12, TypeParts DEF AllInv

LEMMA StepAll == ASSUME AllInv, [Next]_vars PROVE AllInv'
<1>1. Types /\ ListInv /\ RunnerInv /\ CallInv /\ SweepInv /\ LowerInv /\ StopInv
  BY TypeParts DEF AllInv
<1>2. Types' BY <1>1, TypesStep
<1>3. ListInv' /\ RunnerInv' BY <1>1, ListRunnerStep
<1>4. LowerInv' /\ SweepInv' BY <1>1, LowerStep
<1>5. CallInv' BY <1>1, CallsStep
<1>6. StopInv' BY <1>1, StopStep
<1> QED BY <1>2, <1>3, <1>4, <1>5, <1>6, TypeParts DEF AllInv

LEMMA AllHolds == Spec => []AllInv
<1>1. Init => AllInv BY InitAll
<1>2. AllInv /\ [Next]_vars => AllInv' BY StepAll
<1> QED BY <1>1, <1>2, PTL DEF Spec

\* The variables have their types, and the list holds exactly the jobs that are not over,
\* in the order they were queued.
THEOREM TypeCorrect == Spec => []TypeOK
<1>1. AllInv => TypeOK BY DEF AllInv
<1> QED BY <1>1, AllHolds, PTL

\* The flag goes down only by a lowering that arrives, and as Enable all begins.
LEMMA FlagFalls ==
    ASSUME Types, ListInv, RunnerInv, CallInv, SweepInv, LowerInv, [Next]_vars,
           tokens.flag, ~tokens'.flag
    PROVE  sweep.at \notin {"loop", "plan", "work"}
<1>1. /\ mail \in Seq(Messages) /\ runner.id \in JobIds /\ tokens \in Tokens
  BY RunnerOne DEF Types
<1>2. tokens.flag = TRUE BY <1>1 DEF Tokens
<1>3. tokens' # tokens BY <1>2
<1>4. CASE LowerArrives
  <2>1. mail # <<>> /\ Head(mail).cmd \in {"lower"} BY <1>4 DEF LowerArrives, Delivered
  <2>2. Holds(mail, {"lower"}) BY <1>1, <2>1, MailOneLess
  <2> QED BY <2>2 DEF LowerInv
<1>5. CASE SweepBegins BY <1>5 DEF SweepBegins
<1>6. CASE StopArrives \/ StopAllArrives \/ ClearArrives \/ CallBegins
  <2>1. CASE CallBegins
    <3>1. tokens' = Opened(tokens, Held, runner.id) BY <2>1 DEF CallBegins
    <3>2. Opens(tokens, Held, runner.id, tokens') BY <1>1, <3>1, OpenedScopes
    <3> QED BY <3>2 DEF Opens
  <2>2. CASE StopArrives \/ StopAllArrives \/ ClearArrives
    <3> DEFINE n == Head(mail).id
    <3>1. mail # <<>> BY <2>2 DEF StopArrives, StopAllArrives, ClearArrives, Delivered
    <3>2. n \in JobIds
      <4>1. Head(mail) \in Messages BY <1>1, <3>1, MailOneLess
      <4> QED BY <4>1 DEF Messages
    <3>3. tokens' = StopScope(tokens, Held, n) \/ tokens' = StopAll(tokens)
          \/ tokens' = DropScope(tokens, n)
      BY <2>2 DEF StopArrives, StopAllArrives, ClearArrives
    <3> HIDE DEF n
    <3>4. Opens(tokens, Held, n, StopScope(tokens, Held, n)) BY <1>1, <3>2, StopScopeScopes
    <3>5. StopScope(tokens, Held, n).flag = tokens.flag BY <3>4 DEF Opens
    <3>6. StopAll(tokens).flag = TRUE /\ DropScope(tokens, n).flag = tokens.flag
      BY <1>1, <3>2, OtherTokens
    <3>7. tokens'.flag = TRUE BY <1>2, <3>3, <3>5, <3>6
    <3> QED BY <3>7
  <2> QED BY <1>6, <2>1, <2>2
<1>7. LowerArrives \/ SweepBegins \/ StopArrives \/ StopAllArrives \/ ClearArrives \/ CallBegins
  <2>1. UNCHANGED vars => UNCHANGED tokens BY DEF vars
  <2>2. SpawnCall \/ SpawnSweep \/ KillArrives => UNCHANGED tokens
    BY DEF SpawnCall, SpawnSweep, KillArrives, backend
  <2>3. BatchTakes \/ LockTaken \/ OpDone \/ OpFails \/ OpCut => UNCHANGED tokens
    BY DEF BatchTakes, LockTaken, OpDone, OpFails, OpCut, backend
  <2>4. RunnerStep => UNCHANGED tokens BY RunnerAnew DEF Anew
  <2>5. SweepTakes \/ SweepLocks \/ SweepOpEnds \/ SweepHears \/ SweepReverts \/ SweepIsOver =>
          UNCHANGED tokens
    BY DEF SweepTakes, SweepLocks, SweepOpEnds, SweepHears, SweepReverts, SweepIsOver, backend
  <2>6. \A k \in JobIds : StopJob(k) => UNCHANGED tokens BY DEF StopJob, backend
  <2>7. \A k \in Clicks : CancelAll(k) \/ CancelAllEnds(k) => UNCHANGED tokens
    BY DEF CancelAll, CancelAllEnds, backend
  <2>8. SkipCurrent \/ DashboardCancels => UNCHANGED tokens
    BY DEF SkipCurrent, DashboardCancels, backend
  <2>9. \A r \in Requests : QueueJob(r) => UNCHANGED tokens BY DEF QueueJob, backend
  <2>10. \A mode \in SweepModes : SweepStarts(mode) => UNCHANGED tokens
    BY DEF SweepStarts, backend
  <2>11. \A p \in SwitchTo : SwitchProfile(p) => UNCHANGED tokens BY DEF SwitchProfile
  <2>12. PillCancel => (\E k \in JobIds : StopJob(k)) \/ (\E k \in Clicks : CancelAll(k))
    BY RunnerOne DEF PillCancel
  <2> QED BY <1>3, <2>1, <2>2, <2>3, <2>4, <2>5, <2>6, <2>7, <2>8, <2>9, <2>10, <2>11, <2>12
      DEF Next, Deliver, CallStep, SweepStep, Users
<1> QED BY <1>4, <1>5, <1>6, <1>7

\* While Enable all works nobody lowers the flag its Cancel raised: no job that ends, no
\* Cancel all from before it, however late its messages arrive.
THEOREM StopIsNotLoweredHolds == Spec => StopIsNotLowered
<1>1. AllInv /\ [Next]_vars =>
        [tokens.flag /\ ~tokens'.flag => sweep.at \notin {"loop", "plan", "work"}]_vars
  <2> SUFFICES ASSUME AllInv, [Next]_vars, tokens.flag, ~tokens'.flag
               PROVE  sweep.at \notin {"loop", "plan", "work"}
    OBVIOUS
  <2>1. Types /\ ListInv /\ RunnerInv /\ CallInv /\ SweepInv /\ LowerInv
    BY TypeParts DEF AllInv
  <2> QED BY <2>1, FlagFalls
<1> QED BY <1>1, AllHolds, PTL DEF Spec, StopIsNotLowered

\* The job that the pump takes is the first that is not over.
LEMMA PumpsInOrder ==
    ASSUME NEW js \in Seq(JobIds), NEW jb \in Jobs, Pumps(js, jb), ToSet(js) = Live(jb),
           \A k \in JobIds : jb[k].state # "running",
           NEW n \in Nat, \A k \in JobIds : jb[k].state = "none" <=> k >= n,
           NEW j \in JobIds, job'[j].state = "running", NEW k \in 1..(j - 1)
    PROVE  job'[k].state \in Ended
<1>1. PICK i \in ToSet(js) : /\ jb[i].state = "queued"
                             /\ \A l \in ToSet(js) : jb[l].state = "queued" => i <= l
                             /\ Turns(Begins(jb, i), i)
  <2>1. ~(job' = jb) OBVIOUS
  <2> QED BY <2>1 DEF Pumps
<1>2. i \in JobIds /\ JobIds \subseteq Nat BY ListElements, IdsAreNumbers
<1>3. k \in JobIds /\ k < j /\ k \in Nat
  <2>1. MaxJobs \in Nat BY Jobs_Assumption
  <2>2. j \in 1..MaxJobs BY DEF JobIds
  <2>3. k \in 1..MaxJobs /\ k < j /\ k \in Nat BY <2>1, <2>2
  <2> QED BY <2>3 DEF JobIds
<1>4. Begins(jb, i) \in Jobs /\ \A l \in JobIds \ {i} : Begins(jb, i)[l] = jb[l]
  BY <1>2, BeginsIs
<1>5. \A l \in JobIds \ {i} : job'[l] = jb[l] BY <1>1, <1>4 DEF Turns
<1>6. j = i BY <1>5
<1>7. k # j BY <1>3
<1>8. job'[k] = jb[k] BY <1>3, <1>5, <1>6, <1>7
<1>9. jb[k].state # "queued"
  <2>1. jb[k].state = "queued" => k \in ToSet(js) BY <1>3 DEF Live
  <2> QED BY <1>1, <1>2, <1>3, <1>6, <2>1
<1>10. jb[k].state # "none"
  <2>1. ~(i >= n) BY <1>1, <1>2
  <2> QED BY <1>2, <1>3, <1>6, <2>1
<1>11. jb[k].state \in States BY <1>3 DEF Jobs, JobRecords
<1> QED BY <1>3, <1>8, <1>9, <1>10, <1>11 DEF States, Ended

LEMMA JobsInOrder ==
    ASSUME Types, ListInv, RunnerInv, CallInv, SweepInv, [Next]_vars,
           NEW j \in JobIds, job[j].state # "running", job'[j].state = "running",
           NEW k \in 1..(j - 1)
    PROVE  job'[k].state \in Ended
<1>1. runner.id \in JobIds /\ job \in Jobs /\ nextId \in Nat /\ MaxJobs \in Nat
  BY RunnerOne, Jobs_Assumption DEF Types
\* Other steps leave the states, or end a job.
<1>2. ~Steady BY DEF Steady, JobsStand, SameJob
<1>3. ~ProfileIsRead
  <2>1. ProfileIsRead => JobsStand(job, job') BY <1>1, ProfileTurns, TurnsStand
  <2> QED BY <2>1 DEF JobsStand, SameJob
<1>4. ~RunnerHears
  <2> SUFFICES ASSUME RunnerHears PROVE FALSE OBVIOUS
  <2>1. Heard \in Jobs /\ (\A l \in JobIds \ {runner.id} : Heard[l] = job[l])
        /\ SameJob(job[runner.id], Heard[runner.id]) /\ Turns(Heard, runner.id)
    BY HearsTurns DEF Moved
  <2>2. JobsStand(Heard, job') BY <1>1, <2>1, TurnsStand
  <2> QED BY <2>1, <2>2 DEF JobsStand, SameJob
<1>5. ~RunnerHearsBatch BY BatchHeard
<1>6. ~(\E l \in JobIds : StopJob(l))
  <2> SUFFICES ASSUME NEW l \in JobIds, StopJob(l) PROVE FALSE OBVIOUS
  <2>1. l = j BY StopJobIs
  <2>2. job'[j].state = "cancelled" BY <2>1, StopJobIs
  <2> QED BY <2>2
<1>7. ~(\E l \in Clicks : CancelAll(l))
  <2> SUFFICES ASSUME NEW l \in Clicks, CancelAll(l) PROVE FALSE OBVIOUS
  <2>1. j \notin Running BY DEF Running
  <2>2. job'[j].state = "cancelled" \/ job'[j] = job[j] BY <2>1, CancelAllIs
  <2> QED BY <2>2
<1>8. CASE RunnerEnds
  <2> DEFINE js == jobs'
  <2>1. js \in Seq(JobIds) /\ Pumps(js, Ending) /\ ToSet(js) = Live(job) \ {runner.id}
        /\ runner.at = "cleared"
    BY <1>8, EndsPumps
  <2> HIDE DEF js
  <2>2. /\ Ending \in Jobs /\ \A l \in JobIds \ {runner.id} : Ending[l] = job[l]
        /\ Ending[runner.id].state \in Ended
    BY EndingIs
  <2>3. ToSet(js) = Live(Ending) BY <2>1, <2>2 DEF Live, Ended
  <2>4. \A l \in JobIds : job[l].state = "running" => l = runner.id BY DEF RunnerInv, Running
  <2>5. \A l \in JobIds : Ending[l].state # "running" BY <2>2, <2>4 DEF Ended
  <2>6. job[runner.id].state = "running" BY <2>1, RunnerOne
  <2>7. \A l \in JobIds : Ending[l].state = "none" <=> l >= nextId
    BY <1>1, <2>2, <2>6 DEF RunnerInv, Ended
  <2> QED BY <1>1, <2>1, <2>2, <2>3, <2>5, <2>7, PumpsInOrder
<1>9. ASSUME NEW r \in Requests, QueueJob(r) PROVE job'[k].state \in Ended
  <2> DEFINE js == jobs'
             n == nextId + 1
  <2>1. /\ nextId \in JobIds /\ js \in Seq(JobIds) /\ ToSet(js) = Live(job) \cup {nextId}
        /\ \/ runner.at = "idle" /\ Pumps(js, Queueing(r))
           \/ runner.at # "idle" /\ job' = Queueing(r)
    BY <1>9, QueuePumps
  <2> HIDE DEF js
  <2>2. /\ Queueing(r) \in Jobs /\ \A l \in JobIds \ {nextId} : Queueing(r)[l] = job[l]
        /\ Queueing(r)[nextId].state = "queued"
    BY <2>1, QueueingIs
  <2>3. runner.at = "idle" /\ Pumps(js, Queueing(r)) BY <2>1, <2>2
  <2>4. \A l \in JobIds : job[l].state # "running" BY <2>3 DEF RunnerInv, Running
  <2>5. \A l \in JobIds : Queueing(r)[l].state # "running" BY <2>2, <2>4
  <2>6. ToSet(js) = Live(Queueing(r)) BY <2>1, <2>2 DEF Live
  <2>7. n \in Nat /\ \A l \in JobIds : Queueing(r)[l].state = "none" <=> l >= n
    <3>1. n \in Nat BY <1>1
    <3>2. ASSUME NEW l \in JobIds PROVE Queueing(r)[l].state = "none" <=> l >= n
      <4>1. l \in Nat BY IdsAreNumbers
      <4>2. CASE l = nextId BY <1>1, <2>2, <4>2
      <4>3. CASE l # nextId
        <5>1. Queueing(r)[l].state = "none" <=> l >= nextId BY <2>2, <4>3 DEF RunnerInv
        <5> QED BY <1>1, <4>1, <4>3, <5>1
      <4> QED BY <4>2, <4>3
    <3> QED BY <3>1, <3>2
  <2> HIDE DEF n
  <2> QED BY <2>1, <2>2, <2>3, <2>5, <2>6, <2>7, PumpsInOrder
<1> QED BY <1>2, <1>3, <1>4, <1>5, <1>6, <1>7, <1>8, <1>9, Partition DEF RunnerStep

\* Jobs run one at a time in the order they were queued, whatever is queued, dropped or
\* stopped while one runs.
THEOREM OneAtATimeHolds == Spec => OneAtATime
<1>1. AllInv /\ [Next]_vars =>
        [\A j \in JobIds : job[j].state # "running" /\ job'[j].state = "running" =>
           \A k \in 1..(j - 1) : job'[k].state \in {"done", "cancelled"}]_vars
  <2> SUFFICES ASSUME AllInv, [Next]_vars,
                      NEW j \in JobIds, job[j].state # "running", job'[j].state = "running",
                      NEW k \in 1..(j - 1)
               PROVE  job'[k].state \in {"done", "cancelled"}
    OBVIOUS
  <2>1. Types /\ ListInv /\ RunnerInv /\ CallInv /\ SweepInv BY TypeParts DEF AllInv
  <2> QED BY <2>1, JobsInOrder DEF Ended
<1> QED BY <1>1, AllHolds, PTL DEF Spec, OneAtATime

-------------------------------------------------------------------------------
(* What was cut was asked for.                                               *)

\* A job's own command sees a stop only when the job was stopped.
LEMMA CutIsStopped ==
    ASSUME Types, RunnerInv, CallInv, ScopesInv, runner.id \in Known(tokens), JobCut,
           call.at # "none"
    PROVE  job[runner.id].stop
<1>1. Stopped(runner.id) BY DEF ScopesInv, JobCut, IsCut
<1>2. job[runner.id].state = "running" BY RunnerOne DEF CallInv
<1> QED BY <1>1, <1>2 DEF Stopped, Ended

LEMMA CutStep ==
    ASSUME "dashboard" \notin Others, Types, ListInv, RunnerInv, CallInv, SweepInv, StopInv,
           CutInv, [Next]_vars
    PROVE  CutInv'
<1> DEFINE j == runner.id
<1>1. /\ j \in JobIds /\ call \in Calls /\ runner \in Runners /\ mail \in Seq(Messages)
      /\ tokens \in Tokens /\ runner.mod \in Lines
  BY RunnerOne DEF Types
<1>2. AllsInv /\ KillsInv /\ ScopesInv BY DEF StopInv
<1>3. RunnerInv' /\ CallInv' BY ListRunnerStep, CallsStep
<1>4. \A k \in JobIds : Stopped(k) => Stopped(k)' BY OnwardStep
<1>5. call.at # "none" => runner.at # "idle" /\ job[j].state = "running"
  BY RunnerOne DEF CallInv
\* What was asked for stays so while the runner awaits the call.
<1>6. ASSUME call.at # "none", call'.at # "none", runner'.id = j, runner.skip => runner'.skip,
             Asked
      PROVE  Asked'
  <2>1. CASE runner.skip BY <1>6, <2>1 DEF Asked
  <2>2. CASE job[j].stop
    <3>1. Stopped(j)' BY <1>1, <1>4, <1>5, <1>6, <2>2 DEF Stopped
    <3>2. runner'.at # "idle" BY <1>3, <1>6 DEF CallInv
    <3>3. runner'.id \in Running' BY <1>3, <3>2 DEF RunnerInv
    <3>4. job'[j].state = "running" BY <1>6, <3>3 DEF Running
    <3> QED BY <1>6, <3>1, <3>4 DEF Stopped, Ended, Asked
  <2> QED BY <1>6, <2>1, <2>2 DEF Asked
\* A step that leaves the call.
<1>7. ASSUME UNCHANGED call, runner'.id = j, runner.skip => runner'.skip,
             call.at = "work" /\ killed' => killed \/ Asked
      PROVE  CutInv'
  BY <1>6, <1>7 DEF CutInv
<1>8. ASSUME UNCHANGED <<call, runner, killed>> PROVE CutInv' BY <1>7, <1>8
<1>9. CASE UNCHANGED vars BY <1>8, <1>9 DEF vars
<1>10. CASE SpawnCall
  <2>1. mail # <<>> /\ Head(mail).cmd = "call" /\ call' = [call EXCEPT !.at = "spawned"]
    BY <1>10 DEF SpawnCall, Delivered
  <2>2. Holds(mail, {"call"}) BY <1>1, <2>1, MailOneLess
  <2>3. call'.at = "spawned" /\ call'.cut = {} BY <2>1, <2>2 DEF CallInv, NoCall
  <2> QED BY <2>3 DEF CutInv
<1>11. CASE SpawnSweep \/ StopArrives \/ LowerArrives
  BY <1>8, <1>11 DEF SpawnSweep, StopArrives, LowerArrives, ui, backend
<1>12. CASE ClearArrives
  <2>1. runner' = [runner EXCEPT !.at = "cleared"] /\ UNCHANGED <<call, killed>>
    BY <1>12 DEF ClearArrives
  <2>2. runner'.id = j /\ runner'.skip = runner.skip BY <1>1, <2>1 DEF Runners
  <2> QED BY <1>7, <2>1, <2>2
\* A Cancel all or a kill that arrives meets a call that was stopped or skipped.
<1>13. CASE StopAllArrives \/ KillArrives
  <2>1. mail # <<>> /\ Head(mail).cmd \in {"stopAll", "kill"} /\ UNCHANGED <<runner, call>>
    BY <1>13 DEF StopAllArrives, KillArrives, Delivered, ui
  <2>2. Holds(mail, {"stopAll"}) \/ Holds(mail, {"kill"}) BY <1>1, <2>1, MailOneLess
  <2>3. call.at = "work" => Asked
    BY <1>2, <1>5, <2>2 DEF AllsInv, KillsInv, Unasked, Asked
  <2> QED BY <1>7, <2>1, <2>3
<1>14. CASE CallBegins
  <2> DEFINE gone == ModsOf(job[j]) \ on[active]
             here == ModsOf(job[j]) \cap on[active]
             one == {runner.mod}
  <2>1. /\ call.at = "spawned" /\ UNCHANGED runner
        /\ \/ IsCut(tokens', j) /\ call' = [call EXCEPT !.at = "answered", !.cut = one]
           \/ call' = [call EXCEPT !.at = "answered", !.did = one]
           \/ call' = [call EXCEPT !.at = "plan", !.mod = runner.mod, !.to = active]
           \/ call' = [call EXCEPT !.at = "answered", !.reply = "error"]
           \/ call' = [call EXCEPT !.at = "loop", !.pid = active, !.left = gone, !.did = here]
        /\ tokens' = Opened(tokens, Held, j)
    BY <1>14 DEF CallBegins, ui
  <2> HIDE DEF gone, here, one
  <2>2. call.cut = {} BY <2>1 DEF CutInv
  <2>3. CASE IsCut(tokens', j) /\ call' = [call EXCEPT !.at = "answered", !.cut = one]
    <3>1. j \in Known(tokens) /\ tokens' = tokens
      <4>1. ASSUME j \notin Known(tokens) PROVE FALSE
        <5> DEFINE t == tokens'
        <5>1. t = Opened(tokens, Held, j) BY <2>1
        <5> HIDE DEF t, j
        <5>2. Opens(tokens, Held, j, t) /\ t.scope[j].cut = FALSE /\ t.scope[j].since = tokens.epoch
          BY <1>1, <4>1, <5>1, OpenedScopes
        <5>3. tokens'.scope[j].cut = FALSE /\ tokens'.scope[j].since = tokens.epoch
              /\ tokens'.epoch = tokens.epoch
          BY <5>2 DEF Opens, t
        <5>4. tokens.epoch \in Nat BY <1>1 DEF Tokens
        <5> QED BY <2>3, <5>3, <5>4 DEF IsCut
      <4> QED BY <1>1, <2>1, <4>1, OpenedScopes
    <3>2. job[j].stop BY <1>2, <2>1, <2>3, <3>1, CutIsStopped DEF JobCut
    <3>3. call'.at = "answered" BY <1>1, <2>3 DEF Calls
    <3>4. Asked' BY <1>6, <2>1, <3>2, <3>3 DEF Asked
    <3> QED BY <3>3, <3>4 DEF CutInv
  <2>4. CASE call' = [call EXCEPT !.at = "loop", !.pid = active, !.left = gone, !.did = here]
    <3>1. call'.at = "loop" /\ call'.cut = {} BY <1>1, <2>2, <2>4 DEF Calls
    <3> QED BY <3>1 DEF CutInv
  <2>5. CASE \/ call' = [call EXCEPT !.at = "answered", !.did = one]
             \/ call' = [call EXCEPT !.at = "plan", !.mod = runner.mod, !.to = active]
             \/ call' = [call EXCEPT !.at = "answered", !.reply = "error"]
    <3>1. call'.at \in {"answered", "plan"} /\ call'.cut = {} BY <1>1, <2>2, <2>5 DEF Calls
    <3> QED BY <3>1 DEF CutInv
  <2> QED BY <2>1, <2>3, <2>4, <2>5
\* The call moves on and nothing more is cut.
<1>15. ASSUME call.at # "none", call'.at \notin {"none", "spawned"}, call'.cut = call.cut,
              UNCHANGED runner, call'.at = "work" => ~killed'
       PROVE  CutInv'
  BY <1>6, <1>15 DEF CutInv
<1>16. CASE BatchTakes
  <2> DEFINE m == FirstLeft(job[j].mods, call.left)
             L == call.left \ {m}
             D == call.did \cup {m}
             B == call.bad \cup {m}
  <2>1. /\ call.at = "loop" /\ UNCHANGED runner
        /\ \/ \E r \in {"ok", "cancelled"} : call' = [call EXCEPT !.at = "answered", !.reply = r]
           \/ call' = [call EXCEPT !.left = L, !.did = D]
           \/ call' = [call EXCEPT !.at = "plan", !.mod = m, !.to = active]
           \/ call' = [call EXCEPT !.left = L, !.bad = B]
    BY <1>16 DEF BatchTakes
  <2> HIDE DEF m, L, D, B
  <2>2. call'.at \in {"answered", "loop", "plan"} /\ call'.cut = call.cut
    BY <1>1, <2>1 DEF Calls
  <2> QED BY <1>15, <2>1, <2>2
<1>17. CASE LockTaken
  <2>1. call.at = "plan" /\ call'.at = "work" /\ call'.cut = call.cut /\ ~killed'
        /\ UNCHANGED runner
    BY <1>1, <1>17 DEF LockTaken, Calls, ui
  <2> QED BY <1>15, <2>1
\* What an operation that ends leaves of its cuts.
<1>18. ASSUME NEW c \in Calls, OpEnds(c)
       PROVE  call'.at \in {"loop", "answered"} /\ call'.cut = c.cut
  <2> DEFINE l == c.left \ {call.mod}
  <2>1. call' = [c EXCEPT !.at = "loop", !.left = l] \/ call' = [c EXCEPT !.at = "answered"]
    BY <1>18 DEF OpEnds
  <2> HIDE DEF l
  <2> QED BY <1>18, <2>1 DEF Calls
<1>19. CASE OpDone \/ OpFails
  <2> DEFINE d == call.did \cup {call.mod}
             b == call.bad \cup {call.mod}
  <2>1. /\ call.at = "work" /\ UNCHANGED runner
        /\ \/ OpEnds([call EXCEPT !.did = d]) \/ OpEnds([call EXCEPT !.bad = b])
           \/ OpEnds([call EXCEPT !.reply = "error"])
    BY <1>19 DEF OpDone, OpFails
  <2>2. d \in SUBSET Lines /\ b \in SUBSET Lines
    <3>1. call.mod \in Lines BY <1>1 DEF Calls
    <3> QED BY <1>1, <3>1 DEF Calls
  <2> HIDE DEF d, b
  <2>3. \A c \in {[call EXCEPT !.did = d], [call EXCEPT !.bad = b],
                  [call EXCEPT !.reply = "error"]} : c \in Calls /\ c.cut = call.cut
    BY <1>1, <2>2 DEF Calls
  <2>4. call'.at \in {"loop", "answered"} /\ call'.cut = call.cut BY <1>18, <2>1, <2>3
  <2> QED BY <1>15, <2>1, <2>4
<1>20. CASE OpCut
  <2> DEFINE x == call.cut \cup {call.mod}
  <2>1. /\ call.at \in {"plan", "work"} /\ UNCHANGED runner
        /\ JobCut \/ (call.at = "work" /\ killed)
        /\ OpEnds([call EXCEPT !.cut = x])
    BY <1>20 DEF OpCut
  <2>2. x \in SUBSET Lines
    <3>1. call.mod \in Lines BY <1>1 DEF Calls
    <3> QED BY <1>1, <3>1 DEF Calls
  <2> HIDE DEF x
  <2>3. [call EXCEPT !.cut = x] \in Calls BY <1>1, <2>2 DEF Calls
  <2>4. call'.at \in {"loop", "answered"} BY <1>18, <2>1, <2>3
  <2>5. Asked
    <3>1. CASE JobCut
      <4>1. j \in Known(tokens) BY <1>2, <2>1 DEF ScopesInv
      <4>2. job[j].stop BY <1>2, <2>1, <3>1, <4>1, CutIsStopped
      <4> QED BY <4>2 DEF Asked
    <3>2. CASE call.at = "work" /\ killed BY <3>2 DEF CutInv
    <3> QED BY <2>1, <3>1, <3>2
  <2>6. Asked' BY <1>6, <2>1, <2>4, <2>5
  <2> QED BY <2>4, <2>6 DEF CutInv
\* The runner turns.
<1>21. ASSUME call' = NoCall PROVE CutInv'
  <2>1. call'.at = "none" /\ call'.cut = {} BY <1>21 DEF NoCall
  <2> QED BY <2>1 DEF CutInv
<1>22. CASE RunnerStep BY <1>21, <1>22, RunnerAnew DEF Anew
<1>23. ASSUME NEW r \in Requests, QueueJob(r) PROVE CutInv'
  <2>1. UNCHANGED killed BY <1>23 DEF QueueJob, backend
  <2>2. call' = NoCall \/ UNCHANGED <<call, runner>> BY <1>23, QueueAnew DEF Anew
  <2> QED BY <1>8, <1>21, <2>1, <2>2
<1>24. CASE SweepStep
  <2>1. UNCHANGED <<runner, call>> BY <1>24, SweepsStand
  <2>2. killed' => killed
    BY <1>24 DEF SweepStep, SweepBegins, SweepTakes, SweepLocks, SweepOpEnds, SweepHears,
                 SweepReverts, SweepIsOver, backend
  <2> QED BY <1>7, <2>1, <2>2
<1>25. ASSUME NEW mode \in SweepModes, SweepStarts(mode) PROVE CutInv'
  BY <1>8, <1>25 DEF SweepStarts, ui, backend
<1>26. ASSUME NEW k \in JobIds, StopJob(k) PROVE CutInv'
  BY <1>8, <1>26 DEF StopJob, backend
<1>27. ASSUME NEW k \in Clicks, CancelAll(k) PROVE CutInv'
  BY <1>8, <1>27 DEF CancelAll, backend
<1>28. CASE PillCancel BY <1>1, <1>26, <1>27, <1>28 DEF PillCancel
<1>29. CASE SkipCurrent
  <2>1. UNCHANGED <<call, killed>> /\ runner' = [runner EXCEPT !.skip = runner.skip \/ Current]
    BY <1>29 DEF SkipCurrent, backend
  <2>2. runner'.id = j /\ (runner.skip => runner'.skip) BY <1>1, <2>1 DEF Runners
  <2> QED BY <1>7, <2>1, <2>2
<1>30. CASE DashboardCancels BY <1>30 DEF DashboardCancels
<1>31. ASSUME NEW p \in SwitchTo, SwitchProfile(p) PROVE CutInv'
  BY <1>8, <1>31 DEF SwitchProfile, ui
<1>32. ASSUME NEW k \in Clicks, CancelAllEnds(k) PROVE CutInv'
  BY <1>8, <1>32 DEF CancelAllEnds, ui, backend
<1>33. CASE Deliver BY <1>33, <1>10, <1>11, <1>12, <1>13 DEF Deliver
<1>34. CASE CallStep BY <1>34, <1>14, <1>16, <1>17, <1>19, <1>20 DEF CallStep
<1>35. CASE Users
  BY <1>35, <1>23, <1>25, <1>26, <1>27, <1>28, <1>29, <1>30, <1>31 DEF Users
<1> QED BY <1>9, <1>22, <1>24, <1>32, <1>33, <1>34, <1>35 DEF Next

-------------------------------------------------------------------------------
(* What is done was done.                                                    *)

LEMMA OpEndsIs ==
    ASSUME NEW c \in Calls, OpEnds(c)
    PROVE  /\ IF job[runner.id].batch
              THEN call'.at = "loop" /\ call'.left = c.left \ {call.mod}
              ELSE call'.at = "answered"
           /\ call'.did = c.did /\ call'.bad = c.bad /\ call'.cut = c.cut
           /\ call'.reply = c.reply
<1> DEFINE l == c.left \ {call.mod}
<1>1. IF job[runner.id].batch THEN call' = [c EXCEPT !.at = "loop", !.left = l]
      ELSE call' = [c EXCEPT !.at = "answered"]
  BY DEF OpEnds
<1> HIDE DEF l
<1>2. CASE job[runner.id].batch
  <2>1. call' = [c EXCEPT !.at = "loop", !.left = l] BY <1>1, <1>2
  <2>2. call'.at = "loop" /\ call'.left = l /\ call'.did = c.did /\ call'.bad = c.bad
        /\ call'.cut = c.cut /\ call'.reply = c.reply
    BY <2>1 DEF Calls
  <2> QED BY <1>2, <2>2 DEF l
<1>3. CASE ~job[runner.id].batch
  <2>1. call' = [c EXCEPT !.at = "answered"] BY <1>1, <1>3
  <2> QED BY <1>3, <2>1 DEF Calls
<1> QED BY <1>2, <1>3

\* The events that move lines: those of the call name its mod, and say done when it is.
LEMMA CallTells ==
    ASSUME Types, RunnerInv, CallInv, CallStep
    PROVE  \/ UNCHANGED job
           \/ \E m \in Lines, phase \in {"running", "done", "failed", "cancelled"} :
                Told(m, phase) /\ (phase = "done" => OpDone /\ m = call.mod)
<1>1. job[runner.id] \in JobRecords /\ ModsOf(job[runner.id]) \subseteq Mods /\ call \in Calls
  BY RunnerOne DEF Types
<1>2. CASE CallBegins \/ LockTaken BY <1>2 DEF CallBegins, LockTaken, ui
<1>3. CASE BatchTakes
  <2> DEFINE m == FirstLeft(job[runner.id].mods, call.left)
  <2>1. job' = job \/ (call.left # {} /\ Told(m, "running")) BY <1>3 DEF BatchTakes
  <2>2. call.left # {} => m \in Mods
    <3>1. call.left \subseteq ModsOf(job[runner.id]) BY <1>3 DEF BatchTakes, CallInv
    <3>2. job[runner.id].mods \in Seq(Mods) BY <1>1 DEF JobRecords
    <3> QED BY <1>1, <3>1, <3>2, FirstLeftIs DEF ModsOf
  <2> HIDE DEF m
  <2> QED BY <2>1, <2>2 DEF Lines
<1>4. CASE OpDone \/ OpFails \/ OpCut
  <2>1. \E phase \in {"done", "failed", "cancelled"} :
          Told(call.mod, phase) /\ (phase = "done" => OpDone)
    <3>1. OpDone => Told(call.mod, "done") BY DEF OpDone
    <3>2. OpFails => Told(call.mod, "failed") BY DEF OpFails
    <3>3. OpCut => Told(call.mod, "cancelled") BY DEF OpCut
    <3> QED BY <1>4, <3>1, <3>2, <3>3
  <2>2. call.mod \in Lines BY <1>1 DEF Calls
  <2> QED BY <2>1, <2>2
<1> QED BY <1>2, <1>3, <1>4 DEF CallStep

LEMMA SweepTells ==
    ASSUME Types, SweepStep
    PROVE  \/ UNCHANGED job
           \/ \E m \in Lines, phase \in {"running", "done", "failed", "cancelled"} :
                Told(m, phase)
<1>1. job' = job \/ \E phase \in {"running", "done", "failed", "cancelled"} :
        \/ Told(sweep.mod, phase)
        \/ sweep.left # {} /\ Told(FirstLeft(Library, sweep.left), phase)
  BY DEF SweepStep, SweepBegins, SweepTakes, SweepLocks, SweepOpEnds, SweepHears,
         SweepReverts, SweepIsOver, ui
<1>2. sweep.mod \in Lines BY DEF Types, Sweeps
<1>3. sweep.left # {} => FirstLeft(Library, sweep.left) \in Lines BY SweepsFirst DEF Lines
<1> QED BY <1>1, <1>2, <1>3

\* The job s has no line that is done but those of the job r, and no line but those of r.
Behind(r, s) ==
    \A m \in Mods : /\ s.line[m] = "done" => r.line[m] = "done"
                    /\ s.line[m] # "absent" => /\ r.line[m] # "absent"
                                               /\ s.mods = r.mods /\ s.batch = r.batch

LEMMA TurnsBehind ==
    ASSUME NEW jb \in Jobs, NEW j \in JobIds, Turns(jb, j), NEW k \in JobIds
    PROVE  Behind(jb[k], job'[k])
<1>1. CASE k = j BY <1>1 DEF Turns, GoneOn, SameJob, Behind
<1>2. CASE k # j BY <1>2 DEF Turns, Behind
<1> QED BY <1>1, <1>2

LEMMA PumpsBehind ==
    ASSUME NEW jb \in Jobs, NEW js \in Seq(JobIds), Pumps(js, jb), NEW k \in JobIds
    PROVE  Behind(jb[k], job'[k])
<1>1. CASE job' = jb BY <1>1 DEF Behind
<1>2. ASSUME NEW j \in ToSet(js), Turns(Begins(jb, j), j) PROVE Behind(jb[k], job'[k])
  <2>1. j \in JobIds BY ListElements
  <2>2. Begins(jb, j) \in Jobs /\ Begins(jb, j)[k].line = jb[k].line
        /\ Begins(jb, j)[k].mods = jb[k].mods /\ Begins(jb, j)[k].batch = jb[k].batch
    BY <2>1, BeginsIs
  <2>3. Behind(Begins(jb, j)[k], job'[k]) BY <1>2, <2>1, <2>2, TurnsBehind
  <2> QED BY <2>2, <2>3 DEF Behind
<1> QED BY <1>1, <1>2 DEF Pumps

LEMMA BehindToo ==
    ASSUME NEW r, NEW s, NEW t, Behind(r, s), Behind(s, t)
    PROVE  Behind(r, t)
BY DEF Behind

\* What the user stops, ends or queues leaves no line that is done.
LEMMA EndsBehind ==
    ASSUME Types, ListInv, RunnerInv, RunnerEnds, NEW k \in JobIds
    PROVE  Behind(job[k], job'[k])
<1> DEFINE js == jobs'
<1>1. js \in Seq(JobIds) /\ Pumps(js, Ending) BY EndsPumps
<1> HIDE DEF js
<1>2. Ending \in Jobs BY EndingIs
<1>3. Behind(Ending[k], job'[k]) BY <1>1, <1>2, PumpsBehind
<1>4. Behind(job[k], Ending[k])
  <2>1. CASE k = runner.id
    <3>1. \A m \in Mods : Ending[k].line[m] = "absent" BY <2>1, EndingIs DEF Lines
    <3> QED BY <3>1 DEF Behind
  <2>2. CASE k # runner.id
    <3>1. Ending[k] = job[k] BY <2>2, EndingIs
    <3> QED BY <3>1 DEF Behind
  <2> QED BY <2>1, <2>2
<1> QED BY <1>3, <1>4, BehindToo

LEMMA QueueBehind ==
    ASSUME Types, ListInv, RunnerInv, NEW r \in Requests, QueueJob(r), NEW k \in JobIds
    PROVE  /\ k # nextId => Behind(job[k], job'[k])
           /\ k = nextId => \A m \in Mods : /\ job'[k].line[m] # "done"
                                            /\ job'[k].line[m] # "absent" => m \in ModsOf(job'[k])
<1> DEFINE js == jobs'
<1>1. /\ nextId \in JobIds /\ js \in Seq(JobIds)
      /\ Pumps(js, Queueing(r)) \/ job' = Queueing(r)
  BY QueuePumps
<1> HIDE DEF js
<1>2. /\ Queueing(r) \in Jobs /\ \A l \in JobIds \ {nextId} : Queueing(r)[l] = job[l]
      /\ Queueing(r)[nextId].mods = r.mods
      /\ \A m \in Mods : /\ Queueing(r)[nextId].line[m] # "done"
                         /\ Queueing(r)[nextId].line[m] # "absent" => m \in ModsOf(r)
  BY <1>1, QueueingIs
<1>3. Behind(Queueing(r)[k], job'[k])
  <2>1. CASE job' = Queueing(r) BY <2>1 DEF Behind
  <2>2. CASE Pumps(js, Queueing(r)) BY <1>1, <1>2, <2>2, PumpsBehind
  <2> QED BY <1>1, <2>1, <2>2
<1>4. CASE k # nextId
  <2>1. Queueing(r)[k] = job[k] BY <1>2, <1>4
  <2> QED BY <1>3, <1>4, <2>1
<1>5. CASE k = nextId BY <1>2, <1>3, <1>5 DEF Behind, ModsOf
<1> QED BY <1>4, <1>5

LEMMA StopBehind ==
    ASSUME Types, ListInv, RunnerInv,
           (\E j \in JobIds : StopJob(j)) \/ (\E j \in Clicks : CancelAll(j)), NEW k \in JobIds
    PROVE  /\ Behind(job[k], job'[k])
           /\ job[k].state = "running" => job'[k].mods = job[k].mods /\ job'[k].line = job[k].line
<1>1. job[k] \in JobRecords BY DEF Types, Jobs
<1>2. ASSUME job'[k] = [job[k] EXCEPT !.stop = TRUE]
      PROVE  Behind(job[k], job'[k]) /\ job'[k].mods = job[k].mods /\ job'[k].line = job[k].line
  BY <1>1, <1>2 DEF Behind, JobRecords
<1>3. ASSUME \A m \in Lines : job'[k].line[m] = "absent"
      PROVE  Behind(job[k], job'[k])
  BY <1>3 DEF Behind, Lines
<1>4. ASSUME NEW j \in JobIds, StopJob(j)
      PROVE  /\ Behind(job[k], job'[k])
             /\ job[k].state = "running" =>
                  job'[k].mods = job[k].mods /\ job'[k].line = job[k].line
  <2>1. CASE k # j
    <3>1. job'[k] = job[k] BY <1>4, <2>1, StopJobIs
    <3> QED BY <3>1 DEF Behind
  <2>2. CASE k = j BY <1>2, <1>3, <1>4, <2>2, StopJobIs
  <2> QED BY <2>1, <2>2
<1>5. ASSUME NEW j \in Clicks, CancelAll(j)
      PROVE  /\ Behind(job[k], job'[k])
             /\ job[k].state = "running" =>
                  job'[k].mods = job[k].mods /\ job'[k].line = job[k].line
  <2>1. CASE k \in Queued
    <3>1. job[k].state # "running" BY <2>1 DEF Queued
    <3> QED BY <1>3, <1>5, <2>1, <3>1, CancelAllIs
  <2>2. CASE k \in Running BY <1>2, <1>5, <2>2, CancelAllIs
  <2>3. CASE k \notin Queued \cup Running
    <3>1. job'[k] = job[k] BY <1>5, <2>3, CancelAllIs
    <3> QED BY <3>1 DEF Behind
  <2> QED BY <2>1, <2>2, <2>3
<1> QED BY <1>4, <1>5

\* An event brings no line, unsettles none, and makes one done only if it says so.
LEMMA ToldLines ==
    ASSUME Types, NEW m \in Lines, NEW phase \in {"running", "done", "failed", "cancelled"},
           Told(m, phase)
    PROVE  /\ \A j \in JobIds : job'[j].mods = job[j].mods /\ job'[j].batch = job[j].batch
           /\ \A j \in JobIds, k \in Lines :
                /\ job'[j].line[k] # "absent" => job[j].line[k] # "absent"
                /\ job'[j].line[k] \in Unsettled => job[j].line[k] \in Unsettled
                /\ job'[j].line[k] = "done" /\ job[j].line[k] # "done" =>
                     phase = "done" /\ k = m /\ runner.at = "batch" /\ j = runner.id
<1>1. phase \in Phases BY DEF Phases
<1>2. /\ JobsStand(job, job')
      /\ \A j \in JobIds, k \in Lines :
           \/ job'[j].line[k] = job[j].line[k]
           \/ /\ runner.at = "batch" /\ j = runner.id /\ k = m
              /\ job[j].line[k] \in {"queued", "running"} /\ job'[j].line[k] = phase
  BY <1>1, ToldJobs DEF Types
<1> QED BY <1>2 DEF JobsStand, SameJob, Unsettled

\* Those steps leave the jobs but for what an event tells.
LEMMA TellsLines ==
    ASSUME Types, RunnerInv, CallInv, CallStep \/ SweepStep
    PROVE  /\ \A j \in JobIds : job'[j].mods = job[j].mods /\ job'[j].batch = job[j].batch
           /\ \A j \in JobIds, k \in Lines :
                /\ job'[j].line[k] # "absent" => job[j].line[k] # "absent"
                /\ job'[j].line[k] \in Unsettled => job[j].line[k] \in Unsettled
<1>1. UNCHANGED job \/ \E m \in Lines, phase \in {"running", "done", "failed", "cancelled"} :
        Told(m, phase)
  BY CallTells, SweepTells
<1> QED BY <1>1, ToldLines

\* The steps that leave the jobs as they are.
Resting ==
    \/ UNCHANGED vars \/ Deliver \/ SkipCurrent \/ DashboardCancels
    \/ \E mode \in SweepModes : SweepStarts(mode)
    \/ \E p \in SwitchTo : SwitchProfile(p)
    \/ \E k \in Clicks : CancelAllEnds(k)

Stopping == (\E j \in JobIds : StopJob(j)) \/ (\E k \in Clicks : CancelAll(k))

LEMMA Steps ==
    ASSUME Types, RunnerInv, [Next]_vars
    PROVE  \/ CallStep \/ RunnerStep \/ SweepStep \/ Stopping
           \/ \E r \in Requests : QueueJob(r)
           \/ Resting /\ UNCHANGED job
<1>1. PillCancel => Stopping BY RunnerOne DEF PillCancel, Stopping
<1>2. Resting => UNCHANGED job
  BY DEF Resting, vars, Deliver, SpawnCall, SpawnSweep, StopArrives, StopAllArrives, KillArrives,
         ClearArrives, LowerArrives, SkipCurrent, DashboardCancels, SweepStarts, SwitchProfile,
         CancelAllEnds, ui
<1> QED BY <1>1, <1>2 DEF Next, Users, Resting, Stopping

LEMMA LinesStep ==
    ASSUME Types, ListInv, RunnerInv, CallInv, LinesInv, [Next]_vars
    PROVE  LinesInv'
<1>1. ASSUME NEW j \in JobIds, Behind(job[j], job'[j]),
             NEW m \in Mods, job'[j].batch, job'[j].line[m] # "absent"
      PROVE  m \in ModsOf(job'[j])
  <2>1. /\ job[j].line[m] # "absent"
        /\ job[j].mods = job'[j].mods /\ job[j].batch = job'[j].batch
    BY <1>1 DEF Behind
  <2>2. m \in ModsOf(job[j])
    BY <1>1, <2>1 DEF LinesInv
  <2> QED BY <2>1, <2>2 DEF ModsOf
<1>2. ASSUME \A j \in JobIds : Behind(job[j], job'[j]) PROVE LinesInv'
  BY <1>1, <1>2 DEF LinesInv
<1>3. CASE CallStep \/ SweepStep
  <2> SUFFICES ASSUME NEW j \in JobIds, NEW m \in Mods, job'[j].batch,
                      job'[j].line[m] # "absent"
               PROVE  m \in ModsOf(job'[j])
    BY DEF LinesInv
  <2>1. m \in Lines BY DEF Lines
  <2>2. job[j].batch /\ job'[j].mods = job[j].mods /\ job[j].line[m] # "absent"
    BY <1>3, <2>1, TellsLines
  <2> QED BY <2>2 DEF LinesInv, ModsOf
<1>4. CASE Resting /\ UNCHANGED job BY <1>4 DEF LinesInv
<1>5. CASE Stopping BY <1>2, <1>5, StopBehind DEF Stopping
<1>6. ASSUME NEW r \in Requests, QueueJob(r) PROVE LinesInv'
  <2> SUFFICES ASSUME NEW j \in JobIds, NEW m \in Mods, job'[j].batch,
                      job'[j].line[m] # "absent"
               PROVE  m \in ModsOf(job'[j])
    BY DEF LinesInv
  <2> QED BY <1>1, <1>6, QueueBehind
<1>7. CASE RunnerStep
  <2>1. CASE ProfileIsRead BY <1>2, <2>1, ProfileTurns, TurnsBehind, RunnerOne DEF Types
  <2>2. CASE RunnerEnds BY <1>2, <2>2, EndsBehind
  <2>3. CASE RunnerHears
    <3> SUFFICES ASSUME NEW j \in JobIds, NEW m \in Mods, job'[j].batch,
                        job'[j].line[m] # "absent"
                 PROVE  m \in ModsOf(job'[j])
      BY DEF LinesInv
    <3>1. Heard \in Jobs /\ Turns(Heard, runner.id) /\ runner.id \in JobIds
          /\ (\A k \in JobIds \ {runner.id} : Heard[k] = job[k])
          /\ SameJob(job[runner.id], Heard[runner.id]) /\ runner.at = "call"
      BY <2>3, HearsTurns, RunnerOne DEF Moved
    <3>2. Behind(Heard[j], job'[j]) BY <3>1, TurnsBehind
    <3>3. Heard[j].batch BY <3>2 DEF Behind
    <3>4. j # runner.id BY <3>1, <3>3 DEF RunnerInv, SameJob
    <3>5. Heard[j] = job[j] BY <3>1, <3>4
    <3> QED BY <1>1, <3>2, <3>5
  <2>4. CASE RunnerHearsBatch
    <3> SUFFICES ASSUME NEW j \in JobIds, NEW m \in Mods, job'[j].batch,
                        job'[j].line[m] # "absent"
                 PROVE  m \in ModsOf(job'[j])
      BY DEF LinesInv
    <3>1. CASE j = runner.id
      <4>1. job'[j].mods = job[j].mods /\ job'[j].batch = job[j].batch
            /\ job[j].line[m] # "absent"
        BY <2>4, <3>1, BatchHeard
      <4> QED BY <4>1 DEF LinesInv, ModsOf
    <3>2. CASE j # runner.id
      <4>1. job'[j] = job[j] BY <2>4, <3>2, BatchHeard
      <4> QED BY <4>1 DEF LinesInv
    <3> QED BY <3>1, <3>2
  <2> QED BY <1>7, <2>1, <2>2, <2>3, <2>4 DEF RunnerStep
<1> QED BY <1>3, <1>4, <1>5, <1>6, <1>7, Steps

LEMMA CoverCalls ==
    ASSUME Types, ListInv, RunnerInv, CallInv, CoverInv, CallStep
    PROVE  CoverInv'
<1> DEFINE j == runner.id
<1>1. /\ j \in JobIds /\ call \in Calls /\ active \in Profiles /\ ModsOf(job[j]) \subseteq Mods
      /\ call.mod \in Lines
  BY RunnerOne DEF Types, Calls
<1>2. UNCHANGED runner BY CallsStand
<1>3. job'[j].mods = job[j].mods
      /\ \A m \in Mods : job'[j].line[m] \in Unsettled => job[j].line[m] \in Unsettled
  BY <1>1, TellsLines DEF Lines
<1>4. ModsOf(job'[j]) = ModsOf(job[j]) BY <1>3 DEF ModsOf
\* It is enough to look at the call.
<1>5. ASSUME runner.at = "call" /\ call'.at = "answered" /\ call'.reply = "ok" =>
                 runner.mod \in call'.did \cup call'.cut,
             runner.at = "batch" /\ call'.at \in {"loop", "plan", "work"} =>
                 ModsOf(job[j]) \subseteq call'.left \cup call'.did \cup call'.bad \cup call'.cut,
             runner.at = "batch" /\ call'.at = "answered" /\ call'.reply = "ok" =>
                 ModsOf(job[j]) \subseteq call'.did \cup call'.bad \cup call'.cut,
             runner.at = "batch" => \A m \in call'.cut \cap Mods :
                 m \in call.cut \/ job'[j].line[m] \notin Unsettled
      PROVE  CoverInv'
  <2>1. ASSUME runner.at = "batch", NEW m \in call'.cut \cap Mods
        PROVE  job'[j].line[m] \notin Unsettled
    BY <1>3, <1>5, <2>1 DEF CoverInv
  <2> QED BY <1>2, <1>4, <1>5, <2>1 DEF CoverInv
<1>6. call.at # "none"
  BY DEF CallStep, CallBegins, BatchTakes, LockTaken, OpDone, OpFails, OpCut
<1>7. runner.at \in {"call", "batch"} BY <1>6 DEF CallInv
<1>8. job[j].batch <=> runner.at = "batch" BY <1>7 DEF RunnerInv
<1>9. CASE CallBegins
  <2> DEFINE gone == ModsOf(job[j]) \ on[active]
             here == ModsOf(job[j]) \cap on[active]
             one == {runner.mod}
  <2>1. \/ ~job[j].batch /\ call' = [call EXCEPT !.at = "answered", !.cut = one]
        \/ ~job[j].batch /\ call' = [call EXCEPT !.at = "answered", !.did = one]
        \/ ~job[j].batch /\ call' = [call EXCEPT !.at = "plan", !.mod = runner.mod, !.to = active]
        \/ call' = [call EXCEPT !.at = "answered", !.reply = "error"]
        \/ job[j].batch /\
           call' = [call EXCEPT !.at = "loop", !.pid = active, !.left = gone, !.did = here]
    BY <1>9 DEF CallBegins
  <2>2. ModsOf(job[j]) \subseteq gone \cup here /\ runner.mod \in one OBVIOUS
  <2> HIDE DEF gone, here, one
  <2>3. CASE ~job[j].batch /\ call' = [call EXCEPT !.at = "answered", !.cut = one]
    <3>1. runner.mod \in call'.cut BY <1>1, <2>2, <2>3 DEF Calls
    <3> QED BY <1>5, <1>8, <2>3, <3>1
  <2>4. CASE ~job[j].batch /\ call' = [call EXCEPT !.at = "answered", !.did = one]
    <3>1. runner.mod \in call'.did BY <1>1, <2>2, <2>4 DEF Calls
    <3> QED BY <1>5, <1>8, <2>4, <3>1
  <2>5. CASE /\ ~job[j].batch
             /\ call' = [call EXCEPT !.at = "plan", !.mod = runner.mod, !.to = active]
    <3>1. call'.at = "plan" BY <1>1, <2>5 DEF Calls
    <3> QED BY <1>5, <1>8, <2>5, <3>1
  <2>6. CASE call' = [call EXCEPT !.at = "answered", !.reply = "error"]
    <3>1. call'.at = "answered" /\ call'.reply = "error" /\ call'.cut = call.cut
      BY <1>1, <2>6 DEF Calls
    <3> QED BY <1>5, <3>1
  <2>7. CASE /\ job[j].batch
             /\ call' = [call EXCEPT !.at = "loop", !.pid = active, !.left = gone, !.did = here]
    <3>1. call'.at = "loop" /\ call'.left = gone /\ call'.did = here /\ call'.cut = call.cut
      BY <1>1, <2>7 DEF Calls
    <3> QED BY <1>5, <1>8, <2>2, <2>7, <3>1
  <2> QED BY <2>1, <2>3, <2>4, <2>5, <2>6, <2>7
<1>10. CASE BatchTakes
  <2> DEFINE m == FirstLeft(job[j].mods, call.left)
             L == call.left \ {m}
             D == call.did \cup {m}
             B == call.bad \cup {m}
  <2>1. \/ \E r \in {"ok", "cancelled"} : /\ call' = [call EXCEPT !.at = "answered", !.reply = r]
                                          /\ r = "ok" => call.left = {}
        \/ call' = [call EXCEPT !.left = L, !.did = D]
        \/ call' = [call EXCEPT !.at = "plan", !.mod = m, !.to = active]
        \/ call' = [call EXCEPT !.left = L, !.bad = B]
    BY <1>10 DEF BatchTakes
  <2>2. call.at = "loop" /\ runner.at = "batch" BY <1>10 DEF BatchTakes, CallInv
  <2>3. ModsOf(job[j]) \subseteq call.left \cup call.did \cup call.bad \cup call.cut
    BY <2>2 DEF CoverInv
  <2>4. call.left \cup call.did \subseteq L \cup D /\ call.left \cup call.bad \subseteq L \cup B
        /\ call.did \subseteq D /\ call.bad \subseteq B
    OBVIOUS
  <2> HIDE DEF m, L, D, B
  <2>5. CASE \E r \in {"ok", "cancelled"} : /\ call' = [call EXCEPT !.at = "answered", !.reply = r]
                                            /\ r = "ok" => call.left = {}
    <3>1. call'.at = "answered" /\ call'.did = call.did /\ call'.bad = call.bad
          /\ call'.cut = call.cut /\ (call'.reply = "ok" => call.left = {})
      BY <1>1, <2>5 DEF Calls
    <3> QED BY <1>5, <2>2, <2>3, <3>1
  <2>6. CASE call' = [call EXCEPT !.left = L, !.did = D]
    <3>1. call'.at = "loop" /\ call'.left = L /\ call'.did = D /\ call'.bad = call.bad
          /\ call'.cut = call.cut
      BY <1>1, <2>2, <2>6 DEF Calls
    <3> QED BY <1>5, <2>2, <2>3, <2>4, <3>1
  <2>7. CASE call' = [call EXCEPT !.at = "plan", !.mod = m, !.to = active]
    <3>1. call'.at = "plan" /\ call'.left = call.left /\ call'.did = call.did
          /\ call'.bad = call.bad /\ call'.cut = call.cut
      BY <1>1, <2>7 DEF Calls
    <3> QED BY <1>5, <2>2, <2>3, <3>1
  <2>8. CASE call' = [call EXCEPT !.left = L, !.bad = B]
    <3>1. call'.at = "loop" /\ call'.left = L /\ call'.bad = B /\ call'.did = call.did
          /\ call'.cut = call.cut
      BY <1>1, <2>2, <2>8 DEF Calls
    <3> QED BY <1>5, <2>2, <2>3, <2>4, <3>1
  <2> QED BY <2>1, <2>5, <2>6, <2>7, <2>8
<1>11. CASE LockTaken
  <2>1. call.at = "plan" /\ call'.at = "work" /\ call'.left = call.left /\ call'.did = call.did
        /\ call'.bad = call.bad /\ call'.cut = call.cut
    BY <1>1, <1>11 DEF LockTaken, Calls
  <2> QED BY <1>5, <2>1 DEF CoverInv
\* The mod whose operation ends goes from what is left to where its end puts it.
<1>12. ASSUME call.at \in {"plan", "work"}, NEW c \in Calls, OpEnds(c), c.left = call.left,
              call.did \subseteq c.did, call.bad \subseteq c.bad, call.cut \subseteq c.cut,
              \/ call.mod \in c.did \cup c.cut
              \/ IF runner.at = "batch" THEN call.mod \in c.bad ELSE c.reply # "ok",
              \A m \in c.cut \cap Mods : m \in call.cut \/ job'[j].line[m] \notin Unsettled
       PROVE  CoverInv'
  <2>1. /\ IF runner.at = "batch"
           THEN call'.at = "loop" /\ call'.left = call.left \ {call.mod}
           ELSE call'.at = "answered"
        /\ call'.did = c.did /\ call'.bad = c.bad /\ call'.cut = c.cut /\ call'.reply = c.reply
    BY <1>8, <1>12, OpEndsIs
  <2>2. CASE runner.at = "batch"
    <3>1. ModsOf(job[j]) \subseteq call.left \cup call.did \cup call.bad \cup call.cut
      BY <1>12, <2>2 DEF CoverInv
    <3>2. call.mod \in c.did \cup c.bad \cup c.cut BY <1>12, <2>2
    <3>3. ModsOf(job[j]) \subseteq call'.left \cup call'.did \cup call'.bad \cup call'.cut
      BY <1>12, <2>1, <2>2, <3>1, <3>2
    <3> QED BY <1>5, <1>12, <2>1, <2>2, <3>3
  <2>3. CASE runner.at # "batch"
    <3>1. call.mod = runner.mod BY <1>7, <1>12, <2>3 DEF CallInv
    <3> QED BY <1>5, <1>12, <2>1, <2>3, <3>1
  <2> QED BY <2>2, <2>3
<1>13. CASE OpDone
  <2> DEFINE d == call.did \cup {call.mod}
             c == [call EXCEPT !.did = d]
  <2>1. call.at = "work" /\ OpEnds(c) BY <1>13 DEF OpDone
  <2>2. d \in SUBSET Lines /\ call.did \subseteq d /\ call.mod \in d BY <1>1 DEF Calls
  <2> HIDE DEF d
  <2>3. c \in Calls /\ c.left = call.left /\ c.did = d /\ c.bad = call.bad /\ c.cut = call.cut
    BY <1>1, <2>2 DEF Calls
  <2> HIDE DEF c
  <2> QED BY <1>12, <2>1, <2>2, <2>3
<1>14. CASE OpFails
  <2> DEFINE b == call.bad \cup {call.mod}
             c == IF job[j].batch THEN [call EXCEPT !.bad = b]
                  ELSE [call EXCEPT !.reply = "error"]
  <2>1. call.at = "work" /\ OpEnds(c) BY <1>14 DEF OpFails
  <2>2. b \in SUBSET Lines /\ call.bad \subseteq b /\ call.mod \in b BY <1>1 DEF Calls
  <2> HIDE DEF b
  <2>3. /\ c \in Calls /\ c.left = call.left /\ c.did = call.did /\ c.cut = call.cut
        /\ call.bad \subseteq c.bad
        /\ IF runner.at = "batch" THEN call.mod \in c.bad ELSE c.reply # "ok"
    BY <1>1, <1>8, <2>2 DEF Calls
  <2> HIDE DEF c
  <2> QED BY <1>12, <2>1, <2>3
<1>15. CASE OpCut
  <2> DEFINE x == call.cut \cup {call.mod}
             c == [call EXCEPT !.cut = x]
  <2>1. call.at \in {"plan", "work"} /\ OpEnds(c) /\ Told(call.mod, "cancelled")
    BY <1>15 DEF OpCut
  <2>2. x \in SUBSET Lines /\ call.cut \subseteq x /\ call.mod \in x
        /\ \A m \in x : m \in call.cut \/ m = call.mod
    BY <1>1 DEF Calls
  <2> HIDE DEF x
  <2>3. c \in Calls /\ c.left = call.left /\ c.did = call.did /\ c.bad = call.bad /\ c.cut = x
    BY <1>1, <2>2 DEF Calls
  <2> HIDE DEF c
  <2>4. runner.at = "batch" => job'[j].line[call.mod] \notin Unsettled
    <3>1. CASE job[j].line[call.mod] \in {"queued", "running"} /\ runner.at = "batch"
      <4>1. job'[j].line[call.mod] = "cancelled"
        BY <1>1, <2>1, <3>1, ToldJobs DEF Types, Phases
      <4> QED BY <4>1 DEF Unsettled
    <3>2. CASE job[j].line[call.mod] \notin {"queued", "running"}
      BY <1>1, <3>2, TellsLines DEF Unsettled
    <3> QED BY <3>1, <3>2
  <2>5. CASE runner.at = "batch" BY <1>12, <2>1, <2>2, <2>3, <2>4, <2>5
  <2>6. CASE runner.at # "batch"
    <3>1. call'.at = "answered" /\ call'.cut = x BY <1>8, <2>1, <2>3, <2>6, OpEndsIs
    <3>2. call.mod = runner.mod BY <1>7, <2>1, <2>6 DEF CallInv
    <3> QED BY <1>5, <2>2, <2>6, <3>1, <3>2
  <2> QED BY <2>5, <2>6
<1> QED BY <1>9, <1>10, <1>11, <1>13, <1>14, <1>15 DEF CallStep

LEMMA CoverStep ==
    ASSUME Types, ListInv, RunnerInv, CallInv, CoverInv, [Next]_vars
    PROVE  CoverInv'
<1> DEFINE j == runner.id
<1>1. /\ j \in JobIds /\ runner \in Runners /\ mail \in Seq(Messages) /\ job \in Jobs
      /\ (runner.at # "idle" => job[j].state = "running")
  BY RunnerOne DEF Types
<1>2. ASSUME call' = NoCall PROVE CoverInv'
  <2>1. call'.at = "none" /\ call'.cut = {} BY <1>2 DEF NoCall
  <2> QED BY <2>1 DEF CoverInv
<1>3. ASSUME UNCHANGED call, runner'.id = j, runner'.mod = runner.mod,
             runner'.at = runner.at \/ runner'.at = "cleared",
             runner.at = "batch" =>
                 /\ job'[j].mods = job[j].mods
                 /\ \A m \in Mods : job'[j].line[m] \in Unsettled => job[j].line[m] \in Unsettled
      PROVE  CoverInv'
  <2>1. runner.at = "batch" => ModsOf(job'[j]) = ModsOf(job[j]) BY <1>3 DEF ModsOf
  <2> QED BY <1>3, <2>1 DEF CoverInv
<1>4. ASSUME UNCHANGED <<call, runner, job>> PROVE CoverInv' BY <1>4 DEF CoverInv
<1>5. CASE UNCHANGED vars BY <1>4, <1>5 DEF vars
<1>6. CASE SpawnCall
  <2>1. mail # <<>> /\ Head(mail).cmd = "call" /\ call' = [call EXCEPT !.at = "spawned"]
    BY <1>6 DEF SpawnCall, Delivered
  <2>2. Holds(mail, {"call"}) BY <1>1, <2>1, MailOneLess
  <2>3. call'.at = "spawned" /\ call'.cut = {} BY <2>1, <2>2 DEF CallInv, NoCall
  <2> QED BY <2>3 DEF CoverInv
<1>7. CASE SpawnSweep \/ StopArrives \/ StopAllArrives \/ KillArrives \/ LowerArrives
  BY <1>4, <1>7 DEF SpawnSweep, StopArrives, StopAllArrives, KillArrives, LowerArrives, ui
<1>8. CASE ClearArrives
  <2>1. runner' = [runner EXCEPT !.at = "cleared"] /\ UNCHANGED <<call, job>>
    BY <1>8 DEF ClearArrives
  <2>2. runner'.id = j /\ runner'.mod = runner.mod /\ runner'.at = "cleared"
    BY <1>1, <2>1 DEF Runners
  <2> QED BY <1>3, <2>1, <2>2
<1>9. CASE SkipCurrent
  <2>1. runner' = [runner EXCEPT !.skip = runner.skip \/ Current] /\ UNCHANGED <<call, job>>
    BY <1>9 DEF SkipCurrent
  <2>2. runner'.id = j /\ runner'.mod = runner.mod /\ runner'.at = runner.at
    BY <1>1, <2>1 DEF Runners
  <2> QED BY <1>3, <2>1, <2>2
<1>10. CASE DashboardCancels \/ \E p \in SwitchTo : SwitchProfile(p)
  BY <1>4, <1>10 DEF DashboardCancels, SwitchProfile, ui
<1>11. CASE (\E mode \in SweepModes : SweepStarts(mode)) \/ (\E k \in Clicks : CancelAllEnds(k))
  BY <1>4, <1>11 DEF SweepStarts, CancelAllEnds, ui
<1>12. Resting => CoverInv'
  BY <1>5, <1>6, <1>7, <1>8, <1>9, <1>10, <1>11 DEF Resting, Deliver
<1>13. CASE SweepStep
  <2>1. UNCHANGED <<runner, call>> BY <1>13, SweepsStand
  <2>2. job'[j].mods = job[j].mods
        /\ \A m \in Mods : job'[j].line[m] \in Unsettled => job[j].line[m] \in Unsettled
    BY <1>1, <1>13, TellsLines DEF Lines
  <2> QED BY <1>3, <2>1, <2>2
<1>14. CASE RunnerStep BY <1>2, <1>14, RunnerAnew DEF Anew
<1>15. ASSUME NEW r \in Requests, QueueJob(r) PROVE CoverInv'
  <2>1. CASE Anew BY <1>2, <2>1 DEF Anew
  <2>2. CASE UNCHANGED <<runner, call>> /\ job'[j] = job[j] BY <1>3, <2>2
  <2> QED BY <1>15, <2>1, <2>2, QueueAnew
<1>16. CASE Stopping
  <2>1. UNCHANGED <<runner, call>> BY <1>16 DEF Stopping, StopJob, CancelAll
  <2>2. runner.at = "batch" => job'[j].mods = job[j].mods /\ job'[j].line = job[j].line
    BY <1>1, <1>16, StopBehind DEF Stopping
  <2> QED BY <1>3, <2>1, <2>2
<1> QED BY <1>12, <1>13, <1>14, <1>15, <1>16, CoverCalls, Steps

\* A line comes to be done only in these two ways.
LEMMA LineIsTrue ==
    ASSUME Types, ListInv, RunnerInv, CallInv, CutInv, DoneInv, [Next]_vars,
           NEW j \in JobIds, NEW m \in Mods, job[j].line[m] # "done", job'[j].line[m] = "done"
    PROVE  m \in call.did \cup call'.did \/ (Sweeping /\ job[j].batch)
<1>1. runner.id \in JobIds /\ job[runner.id] \in JobRecords /\ m \in Lines /\ call \in Calls
      /\ job \in Jobs
  BY RunnerOne DEF Types, Lines
<1>2. ~Behind(job[j], job'[j]) BY DEF Behind
<1>3. ~(Resting /\ UNCHANGED job) OBVIOUS
<1>4. ~Stopping BY <1>2, StopBehind DEF Stopping
<1>5. \A r \in Requests : ~QueueJob(r) BY <1>2, QueueBehind
<1>6. CASE CallStep
  <2>1. OpDone /\ m = call.mod BY <1>1, <1>6, CallTells, ToldLines
  <2> DEFINE d == call.did \cup {call.mod}
             c == [call EXCEPT !.did = d]
  <2>2. OpEnds(c) BY <2>1 DEF OpDone
  <2>3. d \in SUBSET Lines /\ m \in d BY <1>1, <2>1 DEF Calls
  <2> HIDE DEF d
  <2>4. c \in Calls /\ c.did = d BY <1>1, <2>3 DEF Calls
  <2> HIDE DEF c
  <2>5. call'.did = d BY <2>2, <2>4, OpEndsIs
  <2> QED BY <2>3, <2>5
<1>7. CASE SweepStep
  <2>1. runner.at = "batch" /\ j = runner.id BY <1>1, <1>7, SweepTells, ToldLines
  <2>2. Sweeping
    BY <1>7 DEF SweepStep, SweepBegins, SweepTakes, SweepLocks, SweepOpEnds, SweepHears,
                SweepReverts, SweepIsOver, Sweeping
  <2> QED BY <2>1, <2>2 DEF RunnerInv
<1>8. CASE ProfileIsRead BY <1>1, <1>2, <1>8, ProfileTurns, TurnsBehind
<1>9. CASE RunnerEnds BY <1>2, <1>9, EndsBehind
\* The runner hears Ok, and nobody stopped the job or skipped the mod.
<1>10. CASE RunnerHears
  <2>1. /\ Heard \in Jobs /\ Turns(Heard, runner.id)
        /\ \A k \in JobIds \ {runner.id} : Heard[k] = job[k]
        /\ \A k \in Lines : Heard[runner.id].line[k] =
                              IF k = runner.mod THEN Verdict ELSE job[runner.id].line[k]
        /\ runner.at = "call" /\ call.at = "answered"
    BY <1>10, HearsTurns DEF Moved
  <2>2. Heard[j].line[m] = "done"
    <3>1. Behind(Heard[j], job'[j]) BY <1>1, <2>1, TurnsBehind
    <3> QED BY <3>1 DEF Behind
  <2>3. j = runner.id /\ m = runner.mod /\ Verdict = "done" BY <1>1, <2>1, <2>2
  <2>4. ~Asked /\ call.reply = "ok" BY <2>3 DEF Verdict, Asked
  <2>5. call.cut = {} BY <2>4 DEF CutInv
  <2> QED BY <2>1, <2>3, <2>4, <2>5 DEF DoneInv, CoverInv
\* The batch answers Ok, and the events left the line open.
<1>11. CASE RunnerHearsBatch
  <2>1. runner.at = "batch" /\ call.at = "answered" BY <1>11, BatchHeard
  <2>2. j = runner.id
    <3>1. j # runner.id => job'[j] = job[j] BY <1>11, BatchHeard
    <3> QED BY <3>1
  <2>3. job[j].line[m] \in Unsettled /\ m \notin call.bad /\ call.reply = "ok"
    BY <1>11, <2>2, BatchHeard DEF Unsettled
  <2>4. job[j].batch /\ job[j].line[m] # "absent" BY <2>1, <2>2, <2>3 DEF RunnerInv, Unsettled
  <2>5. m \in ModsOf(job[j]) BY <2>4 DEF DoneInv, LinesInv
  <2>6. m \notin call.cut BY <2>1, <2>2, <2>3 DEF DoneInv, CoverInv
  <2> QED BY <2>1, <2>2, <2>3, <2>5, <2>6 DEF DoneInv, CoverInv
<1> QED BY <1>3, <1>4, <1>5, <1>6, <1>7, <1>8, <1>9, <1>10, <1>11, Steps DEF RunnerStep

LEMMA AskedHolds ==
    ASSUME "dashboard" \notin Others
    PROVE  Spec => []AskedInv
<1>1. Init => AskedInv
  <2> SUFFICES ASSUME Init PROVE AskedInv OBVIOUS
  <2>1. call.at = "none" /\ call.cut = {} BY DEF Init, NoCall
  <2>2. CutInv BY <2>1 DEF CutInv
  <2>3. CoverInv BY <2>1 DEF CoverInv
  <2>4. LinesInv
    <3>1. \A j \in JobIds, m \in Mods : job[j].line[m] = "absent"
      BY DEF Init, NoJob, NoLines, Lines
    <3> QED BY <3>1 DEF LinesInv
  <2> QED BY <2>2, <2>3, <2>4, InitAll DEF AskedInv, DoneInv
<1>2. AskedInv /\ [Next]_vars => AskedInv'
  <2> SUFFICES ASSUME AskedInv, [Next]_vars PROVE AskedInv' OBVIOUS
  <2>1. Types /\ ListInv /\ RunnerInv /\ CallInv /\ SweepInv /\ StopInv
        /\ CutInv /\ LinesInv /\ CoverInv
    BY TypeParts DEF AskedInv, AllInv, DoneInv
  <2>2. AllInv' BY StepAll DEF AskedInv
  <2>3. CutInv' BY <2>1, CutStep
  <2>4. LinesInv' BY <2>1, LinesStep
  <2>5. CoverInv' BY <2>1, CoverStep
  <2> QED BY <2>2, <2>3, <2>4, <2>5 DEF AskedInv, DoneInv
<1> QED BY <1>1, <1>2, PTL DEF Spec

\* A job whose operation was cut was stopped, or the mod in flight was skipped: no stop
\* meant for another job, no Cancel all from before it began and no flag somebody else
\* raised ever reaches it.  The governor's dashboard is nobody's Cancel: it cuts what runs
\* and tells the job nothing, so the theorem is about behaviours in which it is not used.
THEOREM CutsAreAskedHolds ==
    ASSUME "dashboard" \notin Others
    PROVE  Spec => []CutsAreAsked
<1>1. AskedInv => CutsAreAsked BY DEF AskedInv, CutInv, CutsAreAsked, Asked
<1> QED BY <1>1, AskedHolds, PTL

\* A line that turns done tells the truth: the job's own command did it, or found it done,
\* but for a batch's lines while Enable all works.
THEOREM DoneIsTrueHolds ==
    ASSUME "dashboard" \notin Others
    PROVE  Spec => DoneIsTrue
<1>1. AskedInv /\ [Next]_vars =>
        [\A j \in JobIds, m \in Mods :
            job[j].line[m] # "done" /\ job'[j].line[m] = "done" =>
                m \in call.did \cup call'.did \/ (Sweeping /\ job[j].batch)]_vars
  <2> SUFFICES ASSUME AskedInv, [Next]_vars, NEW j \in JobIds, NEW m \in Mods,
                      job[j].line[m] # "done", job'[j].line[m] = "done"
               PROVE  m \in call.did \cup call'.did \/ (Sweeping /\ job[j].batch)
    OBVIOUS
  <2>1. Types /\ ListInv /\ RunnerInv /\ CallInv /\ CutInv /\ DoneInv
    BY TypeParts DEF AskedInv, AllInv
  <2> QED BY <2>1, LineIsTrue
<1> QED BY <1>1, AskedHolds, PTL DEF Spec, DoneIsTrue

================================================================================
