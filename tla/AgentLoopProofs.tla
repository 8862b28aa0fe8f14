--------------------------- MODULE AgentLoopProofs ---------------------------
(***************************************************************************)
(* Proofs about the agent's loop, for any calls, any batches of them, any  *)
(* queue mode and any number of prompts, inputs, replies and retries.      *)
(* A reader should start from IInv.  That the transcript holds the results *)
(* of a reply behind it is inductive only with the reply whose calls are   *)
(* being executed at its end (TranscriptFits), and that a request shows    *)
(* them needs that none stands on its own (Attached). Input reaches its    *)
(* run once only by an equation between what was heard behind the prompt,  *)
(* what waits and what was accepted (InputFits). That nothing seen is      *)
(* attempted again needs what is known of a delay (StreamFits), and the    *)
(* status of a run what the last reply says while its calls are executed   *)
(* (LastFits).                                                             *)
(***************************************************************************)
EXTENDS AgentLoop, FiniteSetTheorems, SequenceTheorems, TLAPS

\* u is t with the messages ms and then the input q behind it
Extension(t, ms, q, u) ==
  /\ u \in Seq(Messages) /\ Len(u) = Len(t) + Len(ms) + Len(q)
  /\ \A i \in 1 .. Len(t) : u[i] = t[i]
  /\ \A k \in 1 .. Len(ms) : u[Len(t) + k] = ms[k]
  /\ \A k \in 1 .. Len(q) : u[Len(t) + Len(ms) + k] = User(q[k])

Queue == Seq(1 .. MaxInputs)

\* Input and replies are messages.
LEMMA MessagesFit ==
  ASSUME NEW i \in 0 .. MaxInputs
  PROVE  User(i) \in Messages /\ User(i).role = "user"
BY LoopAssumption DEF User, Message, Messages

\* A reply of the model, or the request of a broken one, is a message.
LEMMA ReplyFits ==
  ASSUME NEW of \in {0, 1}, NEW calls \in Batches, NEW stop \in Broken \cup {"stop"},
         NEW m, m = Message("assistant", of, calls, stop)
  PROVE  /\ m \in Messages /\ <<m>> \in Seq(Messages)
         /\ m.role = "assistant" /\ m.calls = calls /\ m.stop = stop /\ m.of = of
<1>1. m \in Messages
  BY LoopAssumption DEF Messages, Message
<1>2. m.role = "assistant" /\ m.calls = calls /\ m.stop = stop /\ m.of = of
  BY DEF Message
<1>3. QED
  BY <1>1, <1>2

\* What a user says is a message without calls.
LEMMA UsersFit ==
  ASSUME NEW i
  PROVE  /\ User(i).role = "user" /\ User(i).of = i
         /\ User(i).calls = <<>> /\ DOMAIN User(i).calls = {}
BY DEF User, Message

\* One sequence behind another.
LEMMA Concatenation ==
  ASSUME NEW S, NEW t \in Seq(S), NEW u \in Seq(S)
  PROVE  /\ t \o u \in Seq(S) /\ Len(t \o u) = Len(t) + Len(u)
         /\ \A i \in 1 .. Len(t) : (t \o u)[i] = t[i]
         /\ \A k \in 1 .. Len(u) : (t \o u)[Len(t) + k] = u[k]
OBVIOUS

\* Where an index of three parts in a row belongs.
LEMMA Parts ==
  ASSUME NEW a \in Nat, NEW b \in Nat, NEW c \in Nat, NEW n, n = a + b, NEW i \in 1 .. n + c
  PROVE  \/ i \in 1 .. a
         \/ \E k \in 1 .. b : i = a + k
         \/ \E k \in 1 .. c : i = n + k
<1>1. CASE i > a /\ i <= a + b
  <2>1. i - a \in 1 .. b /\ i = a + (i - a)
    BY <1>1
  <2>2. QED
    BY <2>1
<1>2. CASE i > a + b
  <2>1. i - n \in 1 .. c /\ i = n + (i - n)
    BY <1>2
  <2>2. QED
    BY <2>1
<1>3. QED
  BY <1>1, <1>2

\* What is injected behind a turn extends the transcript by both.
LEMMA Extends ==
  ASSUME NEW t \in Seq(Messages), NEW ms \in Seq(Messages), NEW q \in Queue
  PROVE  Extension(t, ms, q, Injected(t \o ms, q))
<1> DEFINE users == [i \in DOMAIN q |-> User(q[i])]
<1>1. users \in Seq(Messages) /\ Len(users) = Len(q)
      /\ \A k \in 1 .. Len(q) : users[k] = User(q[k])
  <2>1. \A i \in 1 .. Len(q) : q[i] \in 1 .. MaxInputs
    BY LenProperties, ElementOfSeq DEF Queue
  <2>2. \A i \in 1 .. Len(q) : User(q[i]) \in Messages
    BY <2>1, MessagesFit, LoopAssumption
  <2>3. DOMAIN q = 1 .. Len(q) /\ Len(q) \in Nat
    BY DEF Queue
  <2>4. QED
    BY <2>2, <2>3
<1> HIDE DEF users
<1>2. Injected(t \o ms, q) = (t \o ms) \o users
  BY DEF Injected, users
<1>3. Len(q) \in Nat /\ Len(t) \in Nat /\ Len(ms) \in Nat
  BY DEF Queue
<1>4. /\ t \o ms \in Seq(Messages) /\ Len(t \o ms) = Len(t) + Len(ms)
      /\ \A i \in 1 .. Len(t) : (t \o ms)[i] = t[i]
      /\ \A k \in 1 .. Len(ms) : (t \o ms)[Len(t) + k] = ms[k]
  BY <1>3
<1> HIDE DEF Queue
<1> DEFINE tm == t \o ms
<1>9. tm \in Seq(Messages)
  BY <1>4
<1> HIDE DEF tm
<1>5. /\ tm \o users \in Seq(Messages) /\ Len(tm \o users) = Len(tm) + Len(q)
      /\ \A i \in 1 .. Len(tm) : (tm \o users)[i] = tm[i]
      /\ \A k \in 1 .. Len(q) : (tm \o users)[Len(tm) + k] = users[k]
  <2> HIDE DEF users
  <2>1. users \in Seq(Messages) /\ Len(users) = Len(q)
    BY <1>1
  <2>2. /\ tm \o users \in Seq(Messages) /\ Len(tm \o users) = Len(tm) + Len(users)
        /\ \A i \in 1 .. Len(tm) : (tm \o users)[i] = tm[i]
        /\ \A k \in 1 .. Len(users) : (tm \o users)[Len(tm) + k] = users[k]
    <3>1. tm \in Seq(Messages) /\ users \in Seq(Messages)
      BY <1>9, <2>1
    <3>2. QED
      BY <3>1, Concatenation
  <2>3. QED
    BY <2>1, <2>2
<1>6. \A i \in 1 .. Len(t) : i \in 1 .. Len(tm)
  BY <1>3, <1>4 DEF tm
<1>7. \A k \in 1 .. Len(ms) : Len(t) + k \in 1 .. Len(tm)
  BY <1>3, <1>4 DEF tm
<1>8. QED
  BY <1>1, <1>2, <1>3, <1>4, <1>5, <1>6, <1>7 DEF Extension, tm

\* Whatever stands in u was in t, is in ms or is input.
LEMMA ExtensionParts ==
  ASSUME NEW t \in Seq(Messages), NEW ms \in Seq(Messages), NEW q \in Queue, NEW u,
         Extension(t, ms, q, u), NEW i \in DOMAIN u
  PROVE  \/ i \in 1 .. Len(t)
         \/ \E k \in 1 .. Len(ms) : i = Len(t) + k
         \/ \E k \in 1 .. Len(q) : i = Len(t) + Len(ms) + k
<1> DEFINE a == Len(t)  b == Len(ms)  c == Len(q)  n == a + b
<1>1. a \in Nat /\ b \in Nat /\ c \in Nat /\ n = a + b
  BY DEF Queue
<1>2. i \in 1 .. n + c
  BY DEF Extension
<1> HIDE DEF a, b, c, n
<1>3. \A j \in 1 .. n + c : \/ j \in 1 .. a
                            \/ \E k \in 1 .. b : j = a + k
                            \/ \E k \in 1 .. c : j = n + k
  BY <1>1, Parts
<1>4. QED
  BY <1>2, <1>3 DEF a, b, c, n

\* A turn with no input behind it.
LEMMA ExtendsQuietly ==
  ASSUME NEW t \in Seq(Messages), NEW ms \in Seq(Messages)
  PROVE  Extension(t, ms, <<>>, t \o ms)
BY DEF Extension

-----------------------------------------------------------------------------
(* The calls of a reply and their results                                  *)

AnswersFollow(t) ==
  \A i \in DOMAIN t : Answered(t, i) \/ Unanswerable(t, i)

\* Only a reply that is shown makes calls, and no result stands on its own
Proper(m) ==
  m.role # "assistant" \/ (m.stop \in Broken /\ m.of = 0) => m.calls = <<>>
HasOwner(t, j) ==
  \E i \in DOMAIN t : /\ t[i].role = "assistant" /\ Answered(t, i)
                      /\ \E k \in DOMAIN t[i].calls : j = i + k
Attached(t) ==
  \A j \in DOMAIN t : Proper(t[j]) /\ (t[j].role = "result" => HasOwner(t, j))

ResultsFollow(t) == AnswersFollow(t) /\ Attached(t)

\* Messages that may be put behind t: the results of its last calls, or a reply
Fits(t, ms) ==
  \/ /\ \A k \in DOMAIN ms : ms[k].role = "result" /\ ms[k].calls = <<>>
     /\ Len(t) > 0 /\ t[Len(t)].role = "assistant"
     /\ DOMAIN ms = DOMAIN t[Len(t)].calls
     /\ \A k \in DOMAIN ms : ms[k].of = t[Len(t)].calls[k]
  \/ \E m \in Messages : ms = <<m>> /\ m.role = "assistant" /\ Proper(m)

\* Results stay behind their calls when a turn and its input are added.
LEMMA AnswersStay ==
  ASSUME NEW t \in Seq(Messages), NEW ms \in Seq(Messages), NEW q \in Queue, NEW u,
         Extension(t, ms, q, u), AnswersFollow(t), Fits(t, ms)
  PROVE  AnswersFollow(u)
<1> DEFINE a == Len(t)  b == Len(ms)  c == Len(q)  n == a + b
<1>1. a \in Nat /\ b \in Nat /\ c \in Nat /\ n = a + b /\ n \in Nat
  BY DEF Queue
<1>2. DOMAIN t = 1 .. a /\ DOMAIN ms = 1 .. b /\ DOMAIN q = 1 .. c
  BY DEF Queue
<1>3. DOMAIN u = 1 .. n + c
  BY DEF Extension
<1>4. \A i \in 1 .. a : u[i] = t[i]
  BY DEF Extension
<1>5. \A k \in 1 .. b : u[a + k] = ms[k]
  BY DEF Extension
<1>6. \A k \in 1 .. c : u[n + k] = User(q[k])
  BY DEF Extension
<1>7. \/ /\ \A k \in 1 .. b : ms[k].role = "result" /\ ms[k].calls = <<>>
         /\ \A k \in DOMAIN t[a].calls : k \in 1 .. b /\ ms[k].of = t[a].calls[k]
      \/ b = 1 /\ ms[1].role = "assistant"
  BY <1>2 DEF Fits
<1>8. \A i \in 1 .. a : Answered(t, i) \/ Unanswerable(t, i)
  BY <1>2 DEF AnswersFollow
<1> HIDE DEF a, b, c, n
<1>9. ASSUME NEW i \in 1 .. a, i # a
      PROVE  Answered(u, i) \/ Unanswerable(u, i)
  <2>1. i + 1 \in 1 .. a
    BY <1>1, <1>9
  <2>2. CASE Answered(t, i)
    <3>1. ASSUME NEW k \in DOMAIN u[i].calls
          PROVE  /\ i + k \in DOMAIN u
                 /\ u[i + k].role = "result" /\ u[i + k].of = u[i].calls[k]
      <4>1. /\ i + k \in 1 .. a
            /\ t[i + k].role = "result" /\ t[i + k].of = t[i].calls[k]
        BY <1>2, <1>4, <2>2, <3>1 DEF Answered
      <4>2. i + k \in 1 .. n + c
        BY <1>1, <4>1
      <4>3. QED
        BY <1>3, <1>4, <4>1, <4>2
    <3>2. QED
      BY <3>1 DEF Answered
  <2>3. CASE Unanswerable(t, i)
    BY <1>2, <1>4, <2>1, <2>3 DEF Unanswerable
  <2>4. QED
    BY <1>8, <2>2, <2>3
<1>10. ASSUME a \in 1 .. a
       PROVE  Answered(u, a) \/ Unanswerable(u, a)
  <2>1. u[a] = t[a]
    BY <1>4, <1>10
  <2>2. CASE /\ \A k \in 1 .. b : ms[k].role = "result"
             /\ \A k \in DOMAIN t[a].calls : k \in 1 .. b /\ ms[k].of = t[a].calls[k]
    <3>1. ASSUME NEW k \in DOMAIN t[a].calls
          PROVE  /\ a + k \in DOMAIN u
                 /\ u[a + k].role = "result" /\ u[a + k].of = t[a].calls[k]
      <4>1. k \in 1 .. b /\ ms[k].of = t[a].calls[k] /\ ms[k].role = "result"
        BY <2>2, <3>1
      <4>2. u[a + k] = ms[k]
        BY <1>5, <4>1
      <4>3. a + k \in 1 .. n + c
        BY <1>1, <4>1
      <4>4. QED
        BY <1>3, <4>1, <4>2, <4>3
    <3>2. QED
      BY <2>1, <3>1 DEF Answered
  <2>3. CASE b = 1 /\ ms[1].role = "assistant"
    <3>1. u[a + 1].role = "assistant"
      BY <1>5, <2>3
    <3>2. QED
      BY <3>1 DEF Unanswerable
  <2>4. QED
    BY <1>7, <2>2, <2>3
<1>11. ASSUME NEW k \in 1 .. b
       PROVE  Answered(u, a + k) \/ Unanswerable(u, a + k)
  <2>1. u[a + k] = ms[k]
    BY <1>5
  <2>2. CASE \A l \in 1 .. b : ms[l].calls = <<>>
    <3>1. DOMAIN u[a + k].calls = {}
      BY <2>1, <2>2
    <3>2. QED
      BY <3>1 DEF Answered
  <2>3. CASE b = 1
    <3>1. k = 1
      BY <2>3
    <3>2. (a + k) + 1 = n + 1 /\ ((a + k) + 1 \in 1 .. n + c => 1 \in 1 .. c)
      BY <1>1, <2>3, <3>1
    <3>3. 1 \in 1 .. c => u[n + 1].role = "user"
      BY <1>6, UsersFit
    <3>4. QED
      BY <1>3, <3>2, <3>3 DEF Unanswerable
  <2>4. QED
    BY <1>7, <2>2, <2>3
<1>12. ASSUME NEW k \in 1 .. c
       PROVE  Answered(u, n + k)
  <2>1. u[n + k] = User(q[k])
    BY <1>6
  <2>2. DOMAIN u[n + k].calls = {}
    BY <2>1, UsersFit
  <2>3. QED
    BY <2>2 DEF Answered
<1>13. ASSUME NEW i \in 1 .. n + c
       PROVE  Answered(u, i) \/ Unanswerable(u, i)
  <2>1. \/ i \in 1 .. a
        \/ \E k \in 1 .. b : i = a + k
        \/ \E k \in 1 .. c : i = n + k
    BY <1>1, Parts
  <2>2. QED
    BY <1>9, <1>10, <1>11, <1>12, <2>1
<1>14. QED
  BY <1>3, <1>13 DEF AnswersFollow

\* What stands in t stays attached, whatever is put behind it.
LEMMA Attaches ==
  ASSUME NEW t, NEW u, NEW a \in Nat, NEW n \in Nat, a <= n,
         DOMAIN t = 1 .. a, DOMAIN u = 1 .. n, \A i \in 1 .. a : u[i] = t[i],
         Attached(t),
         \A j \in 1 .. n : j > a =>
           Proper(u[j]) /\ (u[j].role = "result" => HasOwner(u, j))
  PROVE  Attached(u)
<1>1. ASSUME NEW j \in 1 .. a, u[j].role = "result"
      PROVE  HasOwner(u, j)
  <2>1. PICK i \in 1 .. a : /\ t[i].role = "assistant" /\ Answered(t, i)
                            /\ \E k \in DOMAIN t[i].calls : j = i + k
    BY <1>1 DEF Attached, HasOwner
  <2>2. ASSUME NEW k \in DOMAIN u[i].calls
        PROVE  /\ i + k \in DOMAIN u
               /\ u[i + k].role = "result" /\ u[i + k].of = u[i].calls[k]
    <3>1. /\ i + k \in 1 .. a
          /\ t[i + k].role = "result" /\ t[i + k].of = t[i].calls[k]
      BY <2>1, <2>2 DEF Answered
    <3>2. i + k \in 1 .. n
      BY <3>1
    <3>3. QED
      BY <3>1, <3>2
  <2>3. Answered(u, i)
    BY <2>2 DEF Answered
  <2>4. i \in DOMAIN u
    OBVIOUS
  <2>5. QED
    BY <2>1, <2>3, <2>4 DEF HasOwner
<1>2. \A j \in 1 .. a : Proper(u[j])
  BY DEF Attached
<1>3. \A j \in 1 .. n : j \in 1 .. a \/ j > a
  OBVIOUS
<1>4. QED
  BY <1>1, <1>2, <1>3 DEF Attached

\* No result is left without the reply that called it.
LEMMA AttachedStays ==
  ASSUME NEW t \in Seq(Messages), NEW ms \in Seq(Messages), NEW q \in Queue, NEW u,
         Extension(t, ms, q, u), Attached(t), Fits(t, ms)
  PROVE  Attached(u)
<1> DEFINE a == Len(t)  b == Len(ms)  c == Len(q)  n == a + b
<1>1. /\ a \in Nat /\ b \in Nat /\ c \in Nat /\ n = a + b /\ n \in Nat
      /\ DOMAIN t = 1 .. a /\ DOMAIN ms = 1 .. b /\ DOMAIN q = 1 .. c
  BY DEF Queue
<1>2. DOMAIN u = 1 .. n + c /\ \A i \in 1 .. a : u[i] = t[i]
  BY DEF Extension
<1>3. \A k \in 1 .. b : u[a + k] = ms[k]
  BY DEF Extension
<1>4. \A k \in 1 .. c : u[n + k] = User(q[k])
  BY DEF Extension
<1>5. \/ /\ \A k \in 1 .. b : ms[k].role = "result" /\ ms[k].calls = <<>>
         /\ a > 0 /\ t[a].role = "assistant" /\ DOMAIN t[a].calls = 1 .. b
         /\ \A k \in 1 .. b : ms[k].of = t[a].calls[k]
      \/ b = 1 /\ ms[1].role = "assistant" /\ Proper(ms[1])
  BY <1>1 DEF Fits
<1> HIDE DEF a, b, c, n
<1>6. ASSUME NEW k \in 1 .. b
      PROVE  /\ Proper(u[a + k])
             /\ u[a + k].role = "result" => HasOwner(u, a + k)
  <2>1. CASE b = 1 /\ ms[1].role = "assistant" /\ Proper(ms[1])
    BY <1>3, <1>6, <2>1
  <2>2. CASE /\ \A l \in 1 .. b : ms[l].role = "result" /\ ms[l].calls = <<>>
             /\ a > 0 /\ t[a].role = "assistant" /\ DOMAIN t[a].calls = 1 .. b
             /\ \A l \in 1 .. b : ms[l].of = t[a].calls[l]
    <3>1. a \in 1 .. a /\ a \in 1 .. n + c /\ u[a] = t[a]
      BY <1>1, <1>2, <2>2
    <3>2. ASSUME NEW l \in 1 .. b
          PROVE  /\ a + l \in 1 .. n + c
                 /\ u[a + l].role = "result" /\ u[a + l].of = u[a].calls[l]
      <4>1. a + l \in 1 .. n + c
        BY <1>1, <3>2
      <4>2. QED
        BY <1>3, <2>2, <3>1, <4>1
    <3>3. Answered(u, a)
      BY <1>2, <2>2, <3>1, <3>2 DEF Answered
    <3>4. HasOwner(u, a + k)
      BY <1>2, <2>2, <3>1, <3>3 DEF HasOwner
    <3>5. Proper(u[a + k])
      BY <1>3, <2>2 DEF Proper
    <3>6. QED
      BY <3>4, <3>5
  <2>3. QED
    BY <1>5, <2>1, <2>2
<1>7. \A k \in 1 .. c : Proper(u[n + k]) /\ u[n + k].role # "result"
  BY <1>4, UsersFit DEF Proper
<1>8. \A j \in 1 .. n + c : \/ j \in 1 .. a
                            \/ \E k \in 1 .. b : j = a + k
                            \/ \E k \in 1 .. c : j = n + k
  BY <1>1, Parts
<1>9. \A j \in 1 .. n + c : j > a =>
        Proper(u[j]) /\ (u[j].role = "result" => HasOwner(u, j))
  <2>1. TAKE j \in 1 .. n + c
  <2>2. HAVE j > a
  <2>3. j \notin 1 .. a
    BY <1>1, <2>2
  <2>4. (\E k \in 1 .. b : j = a + k) \/ (\E k \in 1 .. c : j = n + k)
    BY <1>8, <2>3
  <2>5. QED
    BY <1>6, <1>7, <2>4
<1>10. n + c \in Nat /\ a <= n + c
  BY <1>1
<1>11. QED
  BY <1>1, <1>2, <1>9, <1>10, Attaches

\* Hence the results of the transcript follow their calls.
LEMMA ResultsStay ==
  ASSUME NEW t \in Seq(Messages), NEW ms \in Seq(Messages), NEW q \in Queue, NEW u,
         Extension(t, ms, q, u), ResultsFollow(t), Fits(t, ms)
  PROVE  ResultsFollow(u)
BY AnswersStay, AttachedStays DEF ResultsFollow

-----------------------------------------------------------------------------
(* Input of the user                                                       *)

Users(t, p) == {i \in DOMAIN t : i > p /\ t[i].role = "user"}
Heard(t, p) == {t[i].of : i \in Users(t, p)}
HeardOnce(t, p) == \A i, j \in Users(t, p) : t[i].of = t[j].of => i = j
\* p is where the last prompt stands
IsPrompt(t, p) ==
  p \in DOMAIN t /\ t[p] = User(0) /\ \A i \in DOMAIN t : i > p => t[i] # User(0)

\* What is injected is heard once, behind the same prompt.
LEMMA Hears ==
  ASSUME NEW t \in Seq(Messages), NEW ms \in Seq(Messages), NEW q \in Queue, NEW u,
         Extension(t, ms, q, u), \A k \in DOMAIN ms : ms[k].role # "user",
         NEW p, IsPrompt(t, p), HeardOnce(t, p), IsInjective(q),
         Heard(t, p) \cap Range(q) = {}
  PROVE  /\ IsPrompt(u, p) /\ HeardOnce(u, p)
         /\ Heard(u, p) = Heard(t, p) \cup Range(q)
<1> DEFINE a == Len(t)  b == Len(ms)  c == Len(q)  n == a + b
           late(k) == n + k
<1>a. a \in Nat /\ b \in Nat /\ c \in Nat /\ n = a + b /\ n \in Nat
  BY DEF Queue
<1>b. DOMAIN t = 1 .. a /\ DOMAIN ms = 1 .. b /\ DOMAIN q = 1 .. c
  BY DEF Queue
<1>c. DOMAIN u = 1 .. n + c
  BY DEF Extension
<1>d. \A i \in 1 .. a : u[i] = t[i]
  BY DEF Extension
<1>e. \A k \in 1 .. b : u[a + k] = ms[k]
  BY DEF Extension
<1>f. \A k \in 1 .. c : u[n + k] = User(q[k])
  BY DEF Extension
<1>g. p \in 1 .. a
  BY <1>b DEF IsPrompt
<1> HIDE DEF a, b, c, n
<1>2. ASSUME NEW i \in DOMAIN u
      PROVE  \/ i \in DOMAIN t /\ u[i] = t[i]
             \/ u[i].role # "user" /\ u[i] # User(0)
             \/ \E k \in DOMAIN q : i = late(k)
  <2>1. \/ i \in 1 .. a
        \/ \E k \in 1 .. b : i = a + k
        \/ \E k \in 1 .. c : i = n + k
    BY ExtensionParts DEF a, b, c, n
  <2>2. ASSUME NEW k \in 1 .. b
        PROVE  u[a + k].role # "user" /\ u[a + k] # User(0)
    <3>1. u[a + k] = ms[k] /\ ms[k].role # "user"
      BY <1>b, <1>e
    <3>2. User(0).role = "user"
      BY DEF User, Message
    <3>3. QED
      BY <3>1, <3>2
  <2>3. QED
    BY <1>b, <1>d, <2>1, <2>2
<1>3. \A k \in DOMAIN q : /\ late(k) \in DOMAIN u /\ late(k) > p /\ u[late(k)] = User(q[k])
                         /\ late(k) \notin DOMAIN t
  <2>1. \A k \in 1 .. c : /\ n + k \in 1 .. n + c
                         /\ n + k > p /\ n + k \notin 1 .. a
    BY <1>a, <1>g
  <2>2. QED
    BY <1>b, <1>c, <1>f, <2>1
<1>4. \A i \in DOMAIN t : i \in DOMAIN u /\ u[i] = t[i]
  <2>1. \A i \in 1 .. a : i \in 1 .. n + c
    BY <1>a
  <2>2. QED
    BY <1>b, <1>c, <1>d, <2>1
<1>5. \A k \in DOMAIN q : /\ User(q[k]).role = "user" /\ User(q[k]).of = q[k]
                         /\ User(q[k]) # User(0)
  <2>1. \A k \in DOMAIN q : q[k] \in 1 .. MaxInputs
    BY LenProperties, ElementOfSeq DEF Queue
  <2>2. QED
    BY <2>1, LoopAssumption DEF User, Message
<1>6. \A i, j \in DOMAIN q : late(i) = late(j) => i = j
  BY <1>a, <1>b
<1> HIDE DEF late
<1>7. Users(u, p) = Users(t, p) \cup {late(k) : k \in DOMAIN q}
  BY <1>2, <1>3, <1>4, <1>5 DEF Users
<1>8. Heard(u, p) = Heard(t, p) \cup Range(q)
  <2>1. \A i \in Users(t, p) : u[i].of = t[i].of
    BY <1>4 DEF Users
  <2>2. \A k \in DOMAIN q : u[late(k)].of = q[k]
    BY <1>3, <1>5
  <2>3. QED
    BY <1>7, <2>1, <2>2 DEF Heard, Range
<1>9. HeardOnce(u, p)
  <2>1. \A i \in Users(t, p) : u[i].of = t[i].of /\ t[i].of \in Heard(t, p)
    BY <1>4 DEF Users, Heard
  <2>2. \A k \in DOMAIN q : u[late(k)].of = q[k] /\ q[k] \in Range(q)
    BY <1>3, <1>5 DEF Range
  <2>3. ASSUME NEW i \in Users(u, p), NEW j \in Users(u, p), u[i].of = u[j].of
        PROVE  i = j
    <3>1. CASE i \in Users(t, p) /\ j \in Users(t, p)
      BY <2>1, <2>3, <3>1 DEF HeardOnce
    <3>2. CASE i \notin Users(t, p) /\ j \notin Users(t, p)
      <4>1. PICK k \in DOMAIN q, l \in DOMAIN q : i = late(k) /\ j = late(l)
        BY <1>7, <3>2
      <4>2. q[k] = q[l]
        BY <2>2, <2>3, <4>1
      <4>3. QED
        BY <4>1, <4>2 DEF IsInjective
    <3>3. CASE \/ i \in Users(t, p) /\ j \notin Users(t, p)
               \/ i \notin Users(t, p) /\ j \in Users(t, p)
      BY <1>7, <2>1, <2>2, <2>3, <3>3
    <3>4. QED
      BY <3>1, <3>2, <3>3
  <2>4. QED
    BY <2>3 DEF HeardOnce
<1>10. IsPrompt(u, p)
  <2>1. p \in DOMAIN u /\ u[p] = User(0)
    BY <1>4 DEF IsPrompt
  <2>2. \A i \in DOMAIN u : i > p => u[i] # User(0)
    BY <1>2, <1>3, <1>5 DEF IsPrompt
  <2>3. QED
    BY <2>1, <2>2 DEF IsPrompt
<1>11. QED
  BY <1>8, <1>9, <1>10

\* What a queue gives and keeps is what was in it.
LEMMA QueueSplits ==
  ASSUME NEW q \in Queue, IsInjective(q)
  PROVE  /\ Drained(q) \in Queue /\ Left(q) \in Queue
         /\ IsInjective(Drained(q)) /\ IsInjective(Left(q))
         /\ Range(Drained(q)) \cup Range(Left(q)) = Range(q)
         /\ Range(Drained(q)) \cap Range(Left(q)) = {}
         /\ Drained(q) = <<>> => q = <<>>
<1>1. CASE q = <<>> \/ QueueMode = "all"
  <2>1. Drained(q) = q /\ Left(q) = <<>>
    BY <1>1 DEF Drained, Left
  <2>2. <<>> \in Queue /\ Range(<<>>) = {} /\ IsInjective(<<>>)
    BY DEF Queue, Range, IsInjective
  <2>3. QED
    BY <2>1, <2>2
<1>2. CASE q # <<>> /\ QueueMode # "all"
  <2> DEFINE S == 1 .. MaxInputs
  <2>1. Drained(q) = <<Head(q)>> /\ Left(q) = Tail(q)
    BY <1>2 DEF Drained, Left
  <2>2. q \in Seq(S) /\ Len(q) > 0
    BY <1>2 DEF Queue
  <2> HIDE DEF S
  <2>3. /\ Head(q) \in S /\ Head(q) = q[1] /\ Tail(q) \in Seq(S)
        /\ Len(Tail(q)) = Len(q) - 1
        /\ \A i \in 1 .. Len(q) - 1 : Tail(q)[i] = q[i + 1]
    BY <2>2
  <2> DEFINE h == <<Head(q)>>  l == Tail(q)
  <2>4. h \in Seq(S) /\ l \in Seq(S) /\ DOMAIN h = {1} /\ h[1] = q[1]
        /\ DOMAIN q = 1 .. Len(q) /\ DOMAIN l = 1 .. Len(q) - 1 /\ Len(q) \in Nat
    BY <2>2, <2>3
  <2>5. \A i \in DOMAIN l : l[i] = q[i + 1] /\ i + 1 \in DOMAIN q /\ i + 1 # 1
    BY <2>3, <2>4
  <2>6. \A j \in DOMAIN q : j = 1 \/ (j - 1 \in DOMAIN l /\ l[j - 1] = q[j])
    <3>1. \A j \in DOMAIN q : j = 1 \/ (j - 1 \in DOMAIN l /\ (j - 1) + 1 = j)
      BY <2>4
    <3>2. QED
      BY <2>5, <3>1
  <2>7. \A i, j \in DOMAIN l : i + 1 = j + 1 => i = j
    BY <2>4
  <2>8. 1 \in DOMAIN q
    BY <2>2, <2>4
  <2> HIDE DEF h, l
  <2>9. IsInjective(h) /\ IsInjective(l)
    BY <2>4, <2>5, <2>7 DEF IsInjective
  <2>10. Range(h) = {q[1]}
    BY <2>4 DEF Range
  <2>11. Range(h) \cup Range(l) = Range(q)
    BY <2>4, <2>5, <2>6, <2>8, <2>10 DEF Range
  <2>12. Range(h) \cap Range(l) = {}
    <3>1. \A i \in DOMAIN l : l[i] # q[1]
      BY <2>5, <2>8 DEF IsInjective
    <3>2. QED
      BY <2>10, <3>1 DEF Range
  <2>13. Len(h) = 1 /\ h # <<>>
    BY DEF h
  <2>14. QED
    BY <2>1, <2>4, <2>9, <2>11, <2>12, <2>13 DEF h, l, Queue, S
<1>3. QED
  BY <1>1, <1>2

-----------------------------------------------------------------------------
(* The last reply                                                          *)

IsLast(t, r) ==
  /\ r \in DOMAIN t /\ t[r].role = "assistant"
  /\ \A i \in DOMAIN t : i > r => t[i].role # "assistant"
LastStops(t, stop) == \E r \in DOMAIN t : IsLast(t, r) /\ t[r].stop = stop

\* The reply that is added is the last one.
LEMMA LastIsNew ==
  ASSUME NEW t \in Seq(Messages), NEW m \in Messages, m.role = "assistant",
         NEW q \in Queue, NEW u, Extension(t, <<m>>, q, u)
  PROVE  LastStops(u, m.stop)
<1> DEFINE a == Len(t)  c == Len(q)
<1>1. a \in Nat /\ c \in Nat
  BY DEF Queue
<1>2. DOMAIN u = 1 .. a + 1 + c /\ u[a + 1] = m
      /\ \A k \in 1 .. c : u[a + 1 + k] = User(q[k])
  BY DEF Extension
<1> HIDE DEF a, c
<1>3. a + 1 \in DOMAIN u
  BY <1>1, <1>2
<1>4. \A i \in DOMAIN u : i > a + 1 => u[i].role # "assistant"
  <2>1. ASSUME NEW i \in DOMAIN u, i > a + 1
        PROVE  u[i].role = "user"
    <3>1. i - (a + 1) \in 1 .. c /\ a + 1 + (i - (a + 1)) = i
      BY <1>1, <1>2, <2>1
    <3>2. PICK k \in 1 .. c : a + 1 + k = i
      BY <3>1
    <3>3. u[i] = User(q[k])
      BY <1>2, <3>2
    <3>4. QED
      BY <3>3, UsersFit
  <2>2. QED
    BY <2>1
<1>5. QED
  BY <1>2, <1>3, <1>4 DEF LastStops, IsLast

\* What holds no reply leaves the last one the last.
LEMMA LastStays ==
  ASSUME NEW t \in Seq(Messages), NEW ms \in Seq(Messages), NEW q \in Queue, NEW u,
         Extension(t, ms, q, u), \A k \in DOMAIN ms : ms[k].role # "assistant",
         NEW stop, LastStops(t, stop)
  PROVE  LastStops(u, stop)
<1>1. PICK r \in DOMAIN t : IsLast(t, r) /\ t[r].stop = stop
  BY DEF LastStops
<1>2. \A i \in DOMAIN t : i \in DOMAIN u /\ u[i] = t[i]
  BY DEF Extension, Queue
<1>3. ASSUME NEW i \in DOMAIN u, i > r
      PROVE  u[i].role # "assistant"
  <2>1. CASE i \in 1 .. Len(t)
    BY <1>1, <1>2, <1>3, <2>1 DEF IsLast
  <2>2. ASSUME NEW k \in 1 .. Len(ms), i = Len(t) + k
        PROVE  u[i].role # "assistant"
    BY <2>2 DEF Extension
  <2>3. ASSUME NEW k \in 1 .. Len(q), i = Len(t) + Len(ms) + k
        PROVE  u[i].role # "assistant"
    BY <2>3, UsersFit DEF Extension
  <2>4. QED
    BY <2>1, <2>2, <2>3, ExtensionParts
<1>4. QED
  BY <1>1, <1>2, <1>3 DEF LastStops, IsLast

-----------------------------------------------------------------------------
(* The inductive invariant                                                 *)

\* Attempts are made for a request only, and none is repeated that was seen
StreamFits ==
  /\ run.at \notin {"asking", "closing"} => stream.at = "off"
  /\ stream.at \in {"backoff", "ended"} => stream.final \in Finals
  /\ stream.at = "backoff" => stream.seen = {} /\ stream.attempt < MaxRetries

\* Calls are there only while they are executed
CallsFit == run.at # "tools" => call = NoCalls

\* The transcript ends with the reply whose calls are executed
TranscriptFits ==
  /\ ResultsFollow(transcript)
  /\ run.at = "tools" =>
       /\ Len(transcript) > 0 /\ transcript[Len(transcript)].role = "assistant"
       /\ transcript[Len(transcript)].calls = run.batch
  /\ run.at \in {"asking", "closing", "tools"} => context = transcript

\* What a run accepted waits in a queue or was heard behind its prompt
Queued == Range(steering) \cup Range(followUp)
QueuesFit ==
  /\ IsInjective(steering) /\ IsInjective(followUp)
  /\ Range(steering) \cap Range(followUp) = {}
InputFits(p) ==
  /\ IsPrompt(transcript, p) /\ HeardOnce(transcript, p)
  /\ Heard(transcript, p) \cup Queued = run.first + 1 .. inputs
  /\ Heard(transcript, p) \cap Queued = {}
InputsFit ==
  /\ run.first <= inputs
  /\ run.at = "idle" => steering = <<>> /\ followUp = <<>>
  /\ run.at # "idle" => QueuesFit /\ \E p : InputFits(p)
  /\ run.at = "ending" =>
       ~run.accepting /\ (run.how = "done" => steering = <<>> /\ followUp = <<>>)
  /\ run.at \notin {"idle", "ending"} => run.how = None

\* How a run that ends can end
LastFits ==
  /\ run.at = "tools" => LastStops(transcript, "stop")
  /\ run.at \in {"asking", "closing", "tools"} => run.status = None
  /\ run.at = "ending" =>
       /\ run.status # "completed"
       /\ run.status = None /\ ~run.signal => LastStops(transcript, "stop")
  /\ run.at \in {"ending", "idle"} =>
       /\ run.status = "completed" => LastStops(transcript, "stop")
       /\ run.status = "failed" => LastStops(transcript, "error")

IInv ==
  TypeOK /\ StreamFits /\ CallsFit /\ TranscriptFits /\ InputsFit /\ LastFits

\* The bounds are numbers, and the values at the start have their types.
LEMMA Numbers ==
  /\ MaxRetries \in Nat /\ MaxPrompts \in Nat /\ MaxInputs \in Nat /\ MaxReplies \in Nat
  /\ <<>> \in Batches /\ <<>> \in Queue
  /\ NoStream \in Streams /\ Opens \in Streams /\ NoCalls \in [Call -> Calls]
  /\ NoRun \in Runs
<1>1. /\ MaxRetries \in Nat /\ MaxPrompts \in Nat /\ MaxInputs \in Nat /\ MaxReplies \in Nat
      /\ <<>> \in Batches
  BY LoopAssumption
<1>2. <<>> \in Queue
  BY DEF Queue
<1>3. NoStream \in Streams /\ Opens \in Streams
  BY <1>1 DEF NoStream, Opens, Streams
<1>4. NoCalls \in [Call -> Calls]
  BY DEF NoCalls, NoCall, Calls
<1>5. NoRun \in Runs
  BY <1>1 DEF NoRun, Runs, Stages
<1>6. QED
  BY <1>1, <1>2, <1>3, <1>4, <1>5

Working == run.at \in {"asking", "closing", "tools"}

\* Messages that a turn adds: a reply, or the results of its calls
TurnAdds(ms) ==
  /\ ms \in Seq(Messages) /\ Fits(transcript, ms)
  /\ \A k \in DOMAIN ms : ms[k].role \in {"assistant", "result"}

\* A turn is added to the transcript of a run that goes on, with its input.
LEMMA TurnHears ==
  ASSUME IInv, Working, NEW ms, TurnAdds(ms), NEW q \in Queue, IsInjective(q),
         Range(q) \subseteq Queued, NEW u, Extension(transcript, ms, q, u)
  PROVE  /\ u \in Seq(Messages) /\ ResultsFollow(u)
         /\ \E p : /\ IsPrompt(u, p) /\ HeardOnce(u, p)
                   /\ Heard(u, p) \cup (Queued \ Range(q)) = run.first + 1 .. inputs
                   /\ Heard(u, p) \cap (Queued \ Range(q)) = {}
<1>1. transcript \in Seq(Messages) /\ ms \in Seq(Messages)
  BY DEF IInv, TypeOK, TurnAdds
<1>2. u \in Seq(Messages) /\ ResultsFollow(u)
  BY <1>1, ResultsStay DEF IInv, TranscriptFits, TurnAdds, Extension
<1>3. PICK p : InputFits(p)
  BY DEF IInv, InputsFit, Working
<1>4. /\ IsPrompt(transcript, p) /\ HeardOnce(transcript, p)
      /\ Heard(transcript, p) \cup Queued = run.first + 1 .. inputs
      /\ Heard(transcript, p) \cap Queued = {}
  BY <1>3 DEF InputFits
<1>5. /\ \A k \in DOMAIN ms : ms[k].role # "user"
      /\ Heard(transcript, p) \cap Range(q) = {}
  BY <1>4 DEF TurnAdds
<1>6. /\ IsPrompt(u, p) /\ HeardOnce(u, p)
      /\ Heard(u, p) = Heard(transcript, p) \cup Range(q)
  BY <1>1, <1>4, <1>5, Hears
<1>7. /\ Heard(u, p) \cup (Queued \ Range(q)) = run.first + 1 .. inputs
      /\ Heard(u, p) \cap (Queued \ Range(q)) = {}
  BY <1>4, <1>6
<1>8. QED
  BY <1>2, <1>6, <1>7

\* A run that ends keeps the invariant, whatever it ends with.
LEMMA EndingKeeps ==
  ASSUME IInv, Working, NEW ms, TurnAdds(ms),
         NEW how \in {"done", "finished", "aborted", "broken"},
         NEW status \in {None, "failed", "cancelled"}, 
         run' = [run EXCEPT !.at = "ending", !.accepting = FALSE, !.how = how,
                            !.status = status],
         transcript' = transcript \o ms, context' \in Seq(Messages),
         stream' = NoStream, UNCHANGED <<steering, followUp>>, call' = NoCalls, UNCHANGED <<prompts, inputs, replies>>,
         how = "done" => steering = <<>> /\ followUp = <<>>,
         status = "failed" => LastStops(transcript', "error"),
         status = None /\ ~run.signal => LastStops(transcript', "stop")
  PROVE  IInv'
<1>2. /\ run' \in Runs /\ run'.at = "ending" /\ ~run'.accepting /\ run'.how = how
      /\ run'.status = status /\ run'.first = run.first /\ run'.signal = run.signal
  BY DEF IInv, TypeOK, Runs, Stages
<1>3. transcript \in Seq(Messages) /\ ms \in Seq(Messages)
  BY DEF IInv, TypeOK, TurnAdds
<1>4. Extension(transcript, ms, <<>>, transcript')
  BY <1>3, ExtendsQuietly
<1>5. <<>> \in Queue /\ IsInjective(<<>>) /\ Range(<<>>) = {}
  BY Numbers DEF IsInjective, Range
<1>6. /\ transcript' \in Seq(Messages) /\ ResultsFollow(transcript')
      /\ \E p : /\ IsPrompt(transcript', p) /\ HeardOnce(transcript', p)
                /\ Heard(transcript', p) \cup Queued = run.first + 1 .. inputs
                /\ Heard(transcript', p) \cap Queued = {}
  BY <1>4, <1>5, TurnHears
<1>7. TypeOK'
  BY <1>2, <1>3, <1>6, Numbers DEF IInv, TypeOK
<1>8. StreamFits' /\ CallsFit'
  BY <1>2 DEF StreamFits, CallsFit, NoStream
<1>9. TranscriptFits'
  BY <1>2, <1>6 DEF TranscriptFits
<1>10. InputsFit'
  <2>1. Queued' = Queued /\ QueuesFit'
    BY DEF Queued, QueuesFit, IInv, InputsFit, Working
  <2>2. \E p : InputFits(p)'
    BY <1>2, <1>6, <2>1 DEF InputFits
  <2>3. QED
    BY <1>2, <2>1, <2>2 DEF InputsFit, IInv
<1>11. LastFits'
  BY <1>2, LoopAssumption DEF LastFits
<1>12. QED
  BY <1>7, <1>8, <1>9, <1>10, <1>11 DEF IInv

\* The same for the ways the loop ends a run.
LEMMA EndsKeeps ==
  ASSUME IInv, Working, NEW ms, TurnAdds(ms),
         NEW how \in {"done", "finished", "aborted", "broken"},
         NEW status \in {None, "failed", "cancelled"}, Ends(how, ms, status),
         call' = NoCalls, UNCHANGED <<prompts, inputs, replies>>,
         how = "done" => steering = <<>> /\ followUp = <<>>,
         status = "failed" => LastStops(transcript', "error"),
         status = None /\ ~run.signal => LastStops(transcript', "stop")
  PROVE  IInv'
<1>1. /\ run' = [run EXCEPT !.at = "ending", !.accepting = FALSE, !.how = how,
                            !.status = status]
      /\ transcript' = transcript \o ms /\ context' = context \o ms
      /\ stream' = NoStream /\ UNCHANGED <<steering, followUp>>
  BY DEF Ends
<1>2. context' \in Seq(Messages)
  BY <1>1, Concatenation DEF IInv, TypeOK, TurnAdds
<1>3. QED
  BY <1>1, <1>2, EndingKeeps

\* A run asks the model again with the input it took.
LEMMA AsksKeeps ==
  ASSUME IInv, Working, NEW ms, TurnAdds(ms), NEW q \in Queue, IsInjective(q),
         Range(q) \subseteq Queued, run' = [run EXCEPT !.at = "asking"],
         transcript' = Injected(transcript \o ms, q),
         context' = Injected(context \o ms, q), stream' = Opens,
         steering' \in Queue, followUp' \in Queue, QueuesFit', Queued' = Queued \ Range(q),
         call' = NoCalls, UNCHANGED <<prompts, inputs, replies>>
  PROVE  IInv'
<1>1. /\ run' \in Runs /\ run'.at = "asking" /\ run'.how = run.how
      /\ run'.status = run.status /\ run'.first = run.first
  BY DEF IInv, TypeOK, Runs, Stages
<1>2. transcript \in Seq(Messages) /\ ms \in Seq(Messages)
  BY DEF IInv, TypeOK, TurnAdds
<1>3. Extension(transcript, ms, q, transcript')
  BY <1>2, Extends
<1>4. /\ transcript' \in Seq(Messages) /\ ResultsFollow(transcript')
      /\ \E p : /\ IsPrompt(transcript', p) /\ HeardOnce(transcript', p)
                /\ Heard(transcript', p) \cup (Queued \ Range(q)) = run.first + 1 .. inputs
                /\ Heard(transcript', p) \cap (Queued \ Range(q)) = {}
  BY <1>3, TurnHears
<1>5. context' = transcript'
  BY DEF IInv, TranscriptFits, Working
<1>6. TypeOK'
  BY <1>1, <1>4, <1>5, Numbers DEF IInv, TypeOK, Queue
<1>7. StreamFits' /\ CallsFit'
  BY <1>1 DEF StreamFits, CallsFit, Opens, NoStream
<1>8. TranscriptFits'
  BY <1>1, <1>4, <1>5 DEF TranscriptFits
<1>9. InputsFit'
  <2>1. \E p : InputFits(p)'
    BY <1>1, <1>4 DEF InputFits
  <2>2. QED
    BY <1>1, <2>1 DEF InputsFit, IInv, Working
<1>10. LastFits'
  BY <1>1 DEF LastFits, IInv, Working
<1>11. QED
  BY <1>6, <1>7, <1>8, <1>9, <1>10 DEF IInv

\* After a turn the loop ends, or goes on with what waits in the queues.
LEMMA GoesOnKeeps ==
  ASSUME IInv, Working, NEW ms, TurnAdds(ms), NEW more \in BOOLEAN, GoesOn(ms, more),
         call' = NoCalls, UNCHANGED <<prompts, inputs, replies>>,
         ~run.signal => LastStops(transcript \o ms, "stop")
  PROVE  IInv'
<1>1. steering \in Queue /\ followUp \in Queue /\ QueuesFit
  BY DEF IInv, TypeOK, InputsFit, Working, Queue
<1>2. CASE Asks(ms, Drained(steering), <<>>)
  <2> DEFINE q == Drained(steering)
  <2>1. /\ q \in Queue /\ Left(steering) \in Queue
        /\ IsInjective(q) /\ IsInjective(Left(steering))
        /\ Range(q) \cup Range(Left(steering)) = Range(steering)
        /\ Range(q) \cap Range(Left(steering)) = {}
        /\ q = <<>> => steering = <<>>
    BY <1>1, QueueSplits DEF QueuesFit
  <2>2. q \o <<>> = q
    BY <2>1 DEF Queue
  <2>3. /\ run' = [run EXCEPT !.at = "asking"]
        /\ transcript' = Injected(transcript \o ms, q)
        /\ context' = Injected(context \o ms, q) /\ stream' = Opens
        /\ steering' = (IF q = <<>> THEN steering ELSE Left(steering))
        /\ followUp' = followUp
    BY <1>2, <2>2 DEF Asks
  <2>4. steering' = Left(steering)
    BY <2>1, <2>3 DEF Left
  <2> HIDE DEF q
  <2>5. QueuesFit' /\ Queued' = Queued \ Range(q) /\ Range(q) \subseteq Queued
    BY <1>1, <2>1, <2>3, <2>4 DEF QueuesFit, Queued
  <2>6. QED
    BY <1>1, <2>1, <2>3, <2>4, <2>5, AsksKeeps
<1>3. CASE Asks(ms, <<>>, Drained(followUp))
  <2> DEFINE q == Drained(followUp)
  <2>1. /\ q \in Queue /\ Left(followUp) \in Queue
        /\ IsInjective(q) /\ IsInjective(Left(followUp))
        /\ Range(q) \cup Range(Left(followUp)) = Range(followUp)
        /\ Range(q) \cap Range(Left(followUp)) = {}
        /\ q = <<>> => followUp = <<>>
    BY <1>1, QueueSplits DEF QueuesFit
  <2>2. <<>> \o q = q
    BY <2>1 DEF Queue
  <2>3. /\ run' = [run EXCEPT !.at = "asking"]
        /\ transcript' = Injected(transcript \o ms, q)
        /\ context' = Injected(context \o ms, q) /\ stream' = Opens
        /\ followUp' = (IF q = <<>> THEN followUp ELSE Left(followUp))
        /\ steering' = steering
    BY <1>3, <2>2 DEF Asks
  <2>4. followUp' = Left(followUp)
    BY <2>1, <2>3 DEF Left
  <2> HIDE DEF q
  <2>5. QueuesFit' /\ Queued' = Queued \ Range(q) /\ Range(q) \subseteq Queued
    BY <1>1, <2>1, <2>3, <2>4 DEF QueuesFit, Queued
  <2>6. QED
    BY <1>1, <2>1, <2>3, <2>4, <2>5, AsksKeeps
<1>4. CASE steering = <<>> /\ followUp = <<>> /\ Ends("done", ms, run.status)
  <2>1. run.status = None
    BY DEF IInv, LastFits, Working
  <2>2. transcript' = transcript \o ms
    BY <1>4 DEF Ends
  <2>3. QED
    BY <1>4, <2>1, <2>2, LoopAssumption, EndsKeeps
<1>5. QED
  BY <1>2, <1>3, <1>4 DEF GoesOn

-----------------------------------------------------------------------------
(* Steps of the user and of the host                                       *)

\* A prompt starts a run.
LEMMA PromptKeeps ==
  ASSUME IInv, Prompt
  PROVE  IInv'
<1>1. /\ run.at = "idle" /\ prompts < MaxPrompts /\ prompts' = prompts + 1
      /\ run' = [NoRun EXCEPT !.at = "asking", !.accepting = TRUE, !.first = inputs]
      /\ transcript' = Append(transcript, User(0)) /\ context' = transcript'
      /\ stream' = Opens
      /\ UNCHANGED <<steering, followUp, call, inputs, replies>>
  BY DEF Prompt
<1>2. /\ run' \in Runs /\ run'.at = "asking" /\ run'.how = None /\ run'.status = None
      /\ run'.first = inputs
  <2>1. inputs \in 0 .. MaxInputs
    BY DEF IInv, TypeOK
  <2>2. QED
    BY <1>1, <2>1, Numbers DEF NoRun, Runs, Stages
<1>3. User(0) \in Messages /\ User(0).role = "user"
  BY MessagesFit, Numbers
<1>4. transcript' \in Seq(Messages)
  BY <1>1, <1>3 DEF IInv, TypeOK
<1>5. TypeOK'
  BY <1>1, <1>2, <1>4, Numbers DEF IInv, TypeOK
<1>6. StreamFits' /\ CallsFit'
  BY <1>1, <1>2 DEF IInv, StreamFits, CallsFit, Opens, NoStream
<1>7. ResultsFollow(transcript')
  <2> DEFINE u == Append(transcript, User(0))  a == Len(transcript)
  <2>1. /\ a \in Nat /\ DOMAIN u = 1 .. a + 1 /\ u[a + 1] = User(0)
        /\ DOMAIN transcript = 1 .. a /\ \A i \in 1 .. a : u[i] = transcript[i]
    BY DEF IInv, TypeOK
  <2>2. \A i \in 1 .. a : Answered(transcript, i) \/ Unanswerable(transcript, i)
    BY <2>1 DEF IInv, TranscriptFits, ResultsFollow, AnswersFollow
  <2> HIDE DEF u, a
  <2>3. ASSUME NEW i \in 1 .. a
        PROVE  Answered(u, i) \/ Unanswerable(u, i)
    <3>1. u[i] = transcript[i]
      BY <2>1
    <3>2. CASE Answered(transcript, i)
      <4>1. ASSUME NEW k \in DOMAIN u[i].calls
            PROVE  i + k \in DOMAIN u /\ u[i + k].role = "result"
                     /\ u[i + k].of = u[i].calls[k]
        <5>1. /\ i + k \in 1 .. a /\ transcript[i + k].role = "result"
              /\ transcript[i + k].of = transcript[i].calls[k]
          BY <2>1, <3>1, <3>2, <4>1 DEF Answered
        <5>2. i + k \in 1 .. a + 1
          BY <2>1, <5>1
        <5>3. QED
          BY <2>1, <3>1, <5>1, <5>2
      <4>2. QED
        BY <4>1 DEF Answered
    <3>3. CASE Unanswerable(transcript, i)
      <4>1. CASE i = a
        BY <1>3, <2>1, <4>1 DEF Unanswerable
      <4>2. CASE i # a
        <5>1. i + 1 \in 1 .. a
          BY <2>1, <4>2
        <5>2. QED
          BY <2>1, <3>3, <5>1 DEF Unanswerable
      <4>3. QED
        BY <4>1, <4>2
    <3>4. QED
      BY <2>2, <3>2, <3>3
  <2>4. Answered(u, a + 1)
    BY <2>1, UsersFit DEF Answered
  <2>5. \A i \in 1 .. a + 1 : i \in 1 .. a \/ i = a + 1
    BY <2>1
  <2>6. AnswersFollow(u)
    BY <2>1, <2>3, <2>4, <2>5 DEF AnswersFollow
  <2>7. Attached(u)
    <3>1. Proper(u[a + 1]) /\ u[a + 1].role # "result"
      BY <2>1, UsersFit DEF Proper
    <3>2. \A j \in 1 .. a + 1 : j > a => j = a + 1
      BY <2>1
    <3>3. Attached(transcript) /\ a + 1 \in Nat /\ a <= a + 1
      BY <2>1 DEF IInv, TranscriptFits, ResultsFollow
    <3>4. QED
      BY <2>1, <3>1, <3>2, <3>3, Attaches
  <2>8. QED
    BY <1>1, <2>6, <2>7 DEF u, ResultsFollow
<1>8. TranscriptFits'
  BY <1>1, <1>2, <1>7 DEF TranscriptFits
<1>9. InputsFit'
  <2>0. PICK p : p = Len(transcript')
    OBVIOUS
  <2>1. /\ p \in Nat /\ p \in DOMAIN transcript' /\ transcript'[p] = User(0)
        /\ \A i \in DOMAIN transcript' : ~(i > p)
    BY <1>1, <1>3, <2>0 DEF IInv, TypeOK
  <2>2. Users(transcript', p) = {}
    BY <2>1 DEF Users
  <2>3. IsPrompt(transcript', p) /\ HeardOnce(transcript', p) /\ Heard(transcript', p) = {}
    BY <2>1, <2>2 DEF IsPrompt, HeardOnce, Heard
  <2>4. steering' = <<>> /\ followUp' = <<>>
    BY <1>1 DEF IInv, InputsFit
  <2>5. QueuesFit' /\ Queued' = {}
    BY <2>4 DEF QueuesFit, Queued, Range, IsInjective
  <2>6. run'.first + 1 .. inputs' = {}
    BY <1>1, <1>2 DEF IInv, TypeOK
  <2>7. InputFits(p)'
    BY <2>3, <2>5, <2>6 DEF InputFits
  <2>8. QED
    <3>1. inputs \in Nat
      BY DEF IInv, TypeOK
    <3>2. QED
      BY <1>1, <1>2, <2>5, <2>7, <3>1 DEF InputsFit
<1>10. LastFits'
  BY <1>2 DEF LastFits
<1>11. QED
  BY <1>5, <1>6, <1>8, <1>9, <1>10 DEF IInv

\* Input that is new may wait in a queue.
LEMMA QueueGrows ==
  ASSUME NEW q \in Queue, IsInjective(q), NEW n \in 1 .. MaxInputs, n \notin Range(q)
  PROVE  /\ Append(q, n) \in Queue /\ IsInjective(Append(q, n))
         /\ Range(Append(q, n)) = Range(q) \cup {n}
<1> DEFINE u == Append(q, n)  a == Len(q)
<1>1. /\ u \in Queue /\ a \in Nat /\ DOMAIN q = 1 .. a /\ DOMAIN u = 1 .. a + 1
      /\ u[a + 1] = n /\ \A i \in 1 .. a : u[i] = q[i]
  BY DEF Queue
<1> HIDE DEF u, a
<1>2. /\ \A i \in 1 .. a + 1 : i \in 1 .. a \/ i = a + 1
      /\ \A i \in 1 .. a : i \in 1 .. a + 1 /\ i # a + 1
      /\ a + 1 \in 1 .. a + 1
  BY <1>1
<1>3. IsInjective(u)
  BY <1>1, <1>2 DEF IsInjective, Range
<1>4. Range(u) = Range(q) \cup {n}
  BY <1>1, <1>2 DEF Range
<1>5. QED
  BY <1>1, <1>3, <1>4 DEF u

\* A run accepts input.
LEMMA InputKeeps ==
  ASSUME IInv, Steer \/ FollowUp
  PROVE  IInv'
<1> DEFINE n == inputs + 1
<1>1. /\ run.at # "idle" /\ run.at # "ending" /\ inputs' = n /\ n \in 1 .. MaxInputs
      /\ UNCHANGED <<run, transcript, context, stream, call, prompts, replies>>
      /\ \/ steering' = Append(steering, n) /\ followUp' = followUp
         \/ followUp' = Append(followUp, n) /\ steering' = steering
  BY Numbers DEF Steer, FollowUp, Accepts, IInv, InputsFit, TypeOK
<1>2. steering \in Queue /\ followUp \in Queue /\ QueuesFit
  BY <1>1 DEF IInv, TypeOK, InputsFit, Queue
<1>3. PICK p : InputFits(p)
  BY <1>1 DEF IInv, InputsFit
<1>4. /\ inputs \in Nat /\ run.first \in 0 .. inputs
      /\ run.first + 1 .. n = (run.first + 1 .. inputs) \cup {n}
      /\ n \notin run.first + 1 .. inputs
  <2>1. inputs \in Nat /\ run.first \in Nat
    BY DEF IInv, TypeOK, Runs
  <2>2. run.first <= inputs
    BY DEF IInv, InputsFit
  <2>3. QED
    BY <2>1, <2>2
<1> HIDE DEF n
<1>5. n \notin Heard(transcript, p) /\ n \notin Queued
  BY <1>3, <1>4 DEF InputFits
<1>6. /\ steering' \in Queue /\ followUp' \in Queue /\ QueuesFit'
      /\ Queued' = Queued \cup {n}
  <2>1. CASE steering' = Append(steering, n) /\ followUp' = followUp
    <3>1. /\ steering' \in Queue /\ IsInjective(steering')
          /\ Range(steering') = Range(steering) \cup {n}
      BY <1>1, <1>2, <1>5, <2>1, QueueGrows DEF QueuesFit, Queued
    <3>2. QED
      BY <1>2, <1>5, <2>1, <3>1 DEF QueuesFit, Queued
  <2>2. CASE followUp' = Append(followUp, n) /\ steering' = steering
    <3>1. /\ followUp' \in Queue /\ IsInjective(followUp')
          /\ Range(followUp') = Range(followUp) \cup {n}
      BY <1>1, <1>2, <1>5, <2>2, QueueGrows DEF QueuesFit, Queued
    <3>2. QED
      BY <1>2, <1>5, <2>2, <3>1 DEF QueuesFit, Queued
  <2>3. QED
    BY <1>1, <2>1, <2>2
<1>7. TypeOK'
  BY <1>1, <1>6 DEF IInv, TypeOK, Queue
<1>8. StreamFits' /\ CallsFit' /\ TranscriptFits' /\ LastFits'
  BY <1>1 DEF IInv, StreamFits, CallsFit, TranscriptFits, LastFits
<1>9. InputsFit'
  <2>1. InputFits(p)'
    BY <1>1, <1>3, <1>4, <1>5, <1>6 DEF InputFits
  <2>2. QED
    BY <1>1, <1>4, <1>6, <2>1 DEF InputsFit, IInv, n
<1>10. QED
  BY <1>7, <1>8, <1>9 DEF IInv

\* A step that leaves the transcript and the queues alone, and the run where it
\* is, but for its signal.
Quiet ==
  /\ UNCHANGED <<transcript, context, steering, followUp, prompts, inputs>>
  /\ run' \in Runs /\ stream' \in Streams /\ call' \in [Call -> Calls]
  /\ replies' \in 0 .. MaxReplies
  /\ run'.at = run.at \/ {run.at, run'.at} \subseteq {"asking", "closing"}
  /\ run'.how = run.how /\ run'.status = run.status /\ run'.first = run.first
  /\ run'.batch = run.batch /\ run'.accepting = run.accepting
  /\ run.signal => run'.signal
  /\ StreamFits' /\ CallsFit'

\* A step that changes neither transcript, queues nor the stage of the run.
LEMMA QuietKeeps ==
  ASSUME IInv, Quiet
  PROVE  IInv'
<1>1. TypeOK'
  BY DEF IInv, TypeOK, Quiet
<1>2. TranscriptFits'
  BY DEF IInv, TranscriptFits, Quiet
<1>3. InputsFit'
  <2>1. \A p : InputFits(p) => InputFits(p)'
    BY DEF InputFits, Queued, Quiet
  <2>2. QueuesFit => QueuesFit'
    BY DEF QueuesFit, Quiet
  <2>3. QED
    BY <2>1, <2>2 DEF IInv, InputsFit, Quiet
<1>4. LastFits'
  BY DEF IInv, LastFits, Quiet
<1>5. QED
  BY <1>1, <1>2, <1>3, <1>4 DEF IInv, Quiet

\* The task of a run is cancelled.
LEMMA DiesKeeps ==
  ASSUME IInv, Dies, UNCHANGED <<prompts, inputs, replies>>
  PROVE  IInv'
<1>1. /\ run' = [NoRun EXCEPT !.signal = TRUE, !.status = "cancelled"]
      /\ steering' = <<>> /\ followUp' = <<>> /\ stream' = NoStream /\ call' = NoCalls
      /\ UNCHANGED <<transcript, context, prompts, inputs, replies>>
  BY DEF Dies
<1>2. /\ run' \in Runs /\ run'.at = "idle" /\ run'.status = "cancelled"
      /\ run'.first = 0
  BY <1>1, Numbers DEF NoRun, Runs, Stages
<1>0. 0 <= inputs
  BY DEF IInv, TypeOK
<1>3. TypeOK'
  BY <1>1, <1>2, Numbers DEF IInv, TypeOK
<1>4. StreamFits' /\ CallsFit' /\ TranscriptFits' /\ InputsFit' /\ LastFits'
  BY <1>0, <1>1, <1>2
     DEF IInv, StreamFits, NoStream, CallsFit, TranscriptFits, InputsFit, LastFits
<1>5. QED
  BY <1>3, <1>4 DEF IInv

\* A run is over and its queues are emptied.
LEMMA RunEndsKeeps ==
  ASSUME IInv, RunEnds
  PROVE  IInv'
<1>1. /\ run.at = "ending"
      /\ run' = [run EXCEPT !.at = "idle", !.accepting = FALSE, !.status = FinalStatus]
      /\ steering' = <<>> /\ followUp' = <<>>
      /\ UNCHANGED <<transcript, context, stream, call, prompts, inputs, replies>>
  BY DEF RunEnds, Finished
<1>2. FinalStatus \in {"completed", "failed", "cancelled"}
  BY DEF FinalStatus, IInv, TypeOK, Runs
<1>3. /\ run' \in Runs /\ run'.at = "idle" /\ run'.status = FinalStatus
      /\ run'.first = run.first
  BY <1>1, <1>2 DEF IInv, TypeOK, Runs, Stages
<1>4. TypeOK'
  BY <1>1, <1>3, Numbers DEF IInv, TypeOK
<1>5. StreamFits' /\ CallsFit' /\ TranscriptFits' /\ InputsFit'
  BY <1>1, <1>3 DEF IInv, StreamFits, CallsFit, TranscriptFits, InputsFit
<1>6. LastFits'
  BY <1>1, <1>3 DEF IInv, LastFits, FinalStatus
<1>7. QED
  BY <1>4, <1>5, <1>6 DEF IInv

\* The user stops a run.
LEMMA AbortKeeps ==
  ASSUME IInv, Abort
  PROVE  IInv'
<1>1. /\ run' = [run EXCEPT !.signal = TRUE]
      /\ UNCHANGED <<transcript, context, steering, followUp, stream, call, prompts,
                     inputs, replies>>
  BY DEF Abort
<1>2. /\ run' \in Runs /\ run'.at = run.at /\ run'.how = run.how /\ run'.signal
      /\ run'.status = run.status /\ run'.first = run.first /\ run'.batch = run.batch
      /\ run'.accepting = run.accepting
  BY <1>1 DEF IInv, TypeOK, Runs
<1>3. StreamFits' /\ CallsFit'
  BY <1>1, <1>2 DEF IInv, StreamFits, CallsFit
<1>4. QED
  BY <1>1, <1>2, <1>3, QuietKeeps DEF IInv, TypeOK, Quiet

-----------------------------------------------------------------------------
(* Steps of a stream                                                       *)

\* A step that does nothing but move the stream of a request.
LEMMA StreamMoves ==
  ASSUME IInv, run.at \in {"asking", "closing"}, stream' \in Streams,
         replies' \in 0 .. MaxReplies,
         stream'.at \in {"backoff", "ended"} => stream'.final \in Finals,
         stream'.at = "backoff" => stream'.seen = {} /\ stream'.attempt < MaxRetries,
         UNCHANGED <<run, transcript, context, steering, followUp, call, prompts, inputs>>
  PROVE  IInv'
<1>1. StreamFits' /\ CallsFit'
  BY DEF IInv, StreamFits, CallsFit
<1>2. QED
  BY <1>1, QuietKeeps DEF IInv, TypeOK, Quiet

\* What an attempt ends with is a message.
LEMMA FinalsFit ==
  ASSUME NEW final \in Finals
  PROVE  /\ final \in Messages /\ <<final>> \in Seq(Messages)
         /\ final.role = "assistant" /\ final.calls \in Batches
         /\ final.stop \in {"stop", "error"} /\ Proper(final)
<1>1. PICK of \in {0, 1}, calls \in Batches, stop \in {"stop", "error"} :
        final = Message("assistant", of, calls, stop) /\ (of = 0 => calls = <<>>)
  BY Numbers DEF Finals, ReplyOf
<1>2. stop \in Broken \cup {"stop"}
  BY DEF Broken
<1>3. QED
  BY <1>1, <1>2, ReplyFits DEF Proper

\* The provider sends something.
LEMMA SpeaksKeeps ==
  ASSUME IInv, Speaks
  PROVE  IInv'
<1>1. stream \in Streams /\ stream.attempt \in 0 .. MaxRetries
  BY DEF IInv, TypeOK, Streams
<1>2. stream' = [stream EXCEPT !.at = "content", !.seen = stream.seen \cup {stream.attempt}]
  BY DEF Speaks
<1>3. stream' \in Streams /\ stream'.at = "content"
  BY <1>1, <1>2 DEF Streams
<1>4. QED
  BY <1>3, StreamMoves DEF Speaks, IInv, TypeOK

\* An attempt ends and is retried or forwarded.
LEMMA AttemptEndsKeeps ==
  ASSUME IInv, NEW final \in Finals, NEW transient \in BOOLEAN, AttemptEnds(final, transient)
  PROVE  IInv'
<1>1. stream \in Streams /\ replies \in 0 .. MaxReplies
  BY DEF IInv, TypeOK
<1>2. final \in Messages
  BY FinalsFit
<1>3. replies' \in 0 .. MaxReplies
  BY <1>1, Numbers DEF AttemptEnds
<1>4. CASE MayRetry(transient) /\ stream' = [stream EXCEPT !.at = "backoff", !.final = final]
  <2>1. /\ stream' \in Streams /\ stream'.at = "backoff" /\ stream'.final = final
        /\ stream'.seen = {} /\ stream'.attempt < MaxRetries
    BY <1>1, <1>2, <1>4 DEF Streams, MayRetry, Visible
  <2>2. QED
    BY <1>3, <2>1, StreamMoves DEF AttemptEnds
<1>5. CASE stream' = [stream EXCEPT !.at = "ended", !.final = final]
  <2>1. stream' \in Streams /\ stream'.at = "ended" /\ stream'.final = final
    BY <1>1, <1>2, <1>5 DEF Streams
  <2>2. QED
    BY <1>3, <2>1, StreamMoves DEF AttemptEnds
<1>6. QED
  BY <1>4, <1>5 DEF AttemptEnds

\* The delay before another attempt ends.
LEMMA BackoffEndsKeeps ==
  ASSUME IInv, BackoffEnds
  PROVE  IInv'
<1>1. /\ stream \in Streams /\ stream.at = "backoff" /\ stream.final \in Finals
      /\ stream.attempt < MaxRetries /\ run.at \in {"asking", "closing"}
      /\ UNCHANGED <<run, transcript, context, steering, followUp, call, prompts,
                     inputs, replies>>
  BY DEF BackoffEnds, IInv, TypeOK, StreamFits
<1>2. CASE stream' = [stream EXCEPT !.at = "ended"]
  <2>1. stream' \in Streams /\ stream'.at = "ended" /\ stream'.final \in Finals
    BY <1>1, <1>2 DEF Streams
  <2>2. QED
    BY <1>1, <2>1, StreamMoves DEF IInv, TypeOK
<1>3. CASE stream' = [stream EXCEPT !.at = "open", !.attempt = stream.attempt + 1,
                                    !.final = None]
  <2>1. stream.attempt + 1 \in 0 .. MaxRetries
    BY <1>1, Numbers DEF Streams
  <2>2. stream' \in Streams /\ stream'.at = "open"
    BY <1>1, <1>3, <2>1 DEF Streams
  <2>3. QED
    BY <1>1, <2>2, StreamMoves DEF IInv, TypeOK
<1>4. QED
  BY <1>2, <1>3 DEF BackoffEnds

\* The loop stops listening to a stream.
LEMMA StopsListeningKeeps ==
  ASSUME IInv, StopsListening
  PROVE  IInv'
<1>1. /\ run.at = "asking" /\ run' = [run EXCEPT !.at = "closing"]
      /\ UNCHANGED <<transcript, context, steering, followUp, stream, call, prompts,
                     inputs, replies>>
  BY DEF StopsListening
<1>2. /\ run' \in Runs /\ run'.at = "closing" /\ run'.how = run.how
      /\ run'.signal = run.signal
      /\ run'.status = run.status /\ run'.first = run.first /\ run'.batch = run.batch
      /\ run'.accepting = run.accepting
  BY <1>1 DEF IInv, TypeOK, Runs, Stages
<1>3. StreamFits' /\ CallsFit'
  BY <1>1, <1>2 DEF IInv, StreamFits, CallsFit
<1>4. QED
  BY <1>1, <1>2, <1>3, QuietKeeps DEF IInv, TypeOK, Quiet

\* A reply is a message that a turn may add.
LEMMA ReplyAdds ==
  ASSUME NEW m \in Messages, m.role = "assistant", Proper(m)
  PROVE  TurnAdds(<<m>>)
BY DEF TurnAdds, Fits

\* A request fails before its stream does.
LEMMA RequestFailsKeeps ==
  ASSUME IInv, RequestFails
  PROVE  IInv'
<1> DEFINE stop == IF run.signal THEN "aborted" ELSE "error"
           status == IF run.signal THEN "cancelled" ELSE "failed"
           m == Message("assistant", 0, <<>>, stop)
<1>1. /\ stop \in {"aborted", "error"} /\ status \in {"cancelled", "failed"}
      /\ status = "failed" => stop = "error"
      /\ m = Message("assistant", 0, <<>>, stop)
  OBVIOUS
<1>2. /\ run' = [run EXCEPT !.at = "ending", !.accepting = FALSE, !.how = "broken",
                            !.status = status]
      /\ transcript' = Append(transcript, m)
  BY DEF RequestFails, ReplyOf
<1> HIDE DEF stop, status, m
<1>3. /\ m \in Messages /\ <<m>> \in Seq(Messages)
      /\ m.role = "assistant" /\ m.stop = stop /\ Proper(m)
  <2>1. stop \in Broken \cup {"stop"}
    BY <1>1 DEF Broken
  <2>2. QED
    BY <1>1, <2>1, ReplyFits, Numbers DEF Proper
<1>4. /\ run.at = "asking" /\ stream' = NoStream
      /\ UNCHANGED <<context, steering, followUp, call, prompts, inputs, replies>>
      /\ call = NoCalls /\ context \in Seq(Messages) /\ transcript \in Seq(Messages)
  BY DEF RequestFails, IInv, TypeOK, CallsFit
<1>5. transcript' = transcript \o <<m>>
  BY <1>2, <1>3, <1>4
<1>6. LastStops(transcript', stop)
  <2>1. Extension(transcript, <<m>>, <<>>, transcript')
    BY <1>3, <1>4, <1>5, ExtendsQuietly
  <2>2. QED
    BY <1>3, <1>4, <2>1, Numbers, LastIsNew
<1>7. QED
  <2>1. TurnAdds(<<m>>) /\ Working
    BY <1>3, <1>4, ReplyAdds DEF Working
  <2>2. status # None
    BY <1>1, LoopAssumption DEF Outcomes
  <2>3. QED
    BY <1>1, <1>2, <1>4, <1>5, <1>6, <2>1, <2>2, EndingKeeps

\* A stream that was left closes with calls of its own.
LEMMA StreamClosesKeeps ==
  ASSUME IInv, NEW calls \in Batches, StreamCloses(calls)
  PROVE  IInv'
<1>1. run.at = "closing" /\ UNCHANGED <<prompts, inputs, replies>>
  BY DEF StreamCloses
<1>2. CASE Dies
  BY <1>1, <1>2, DiesKeeps
<1>3. CASE /\ Ends("aborted", <<ReplyOf(Visible, calls, "aborted")>>, "cancelled")
           /\ call' = call
  <2>1. PICK m : m = ReplyOf(Visible, calls, "aborted")
    OBVIOUS
  <2>2. m \in Messages /\ m.role = "assistant" /\ Proper(m)
    <3>1. PICK of \in {0, 1} :
            m = Message("assistant", of, calls, "aborted") /\ (of = 0 => calls = <<>>)
      BY <2>1 DEF ReplyOf, StreamCloses
    <3>2. QED
      BY <3>1, ReplyFits DEF Broken, Proper
  <2>3. call' = NoCalls /\ Working /\ TurnAdds(<<m>>)
    BY <1>1, <1>3, <2>2, ReplyAdds DEF IInv, CallsFit, Working
  <2>4. "cancelled" # None
    BY LoopAssumption DEF Outcomes
  <2>5. QED
    BY <1>1, <1>3, <2>1, <2>3, <2>4, EndsKeeps
<1>4. QED
  BY <1>2, <1>3 DEF StreamCloses

\* The loop takes the reply.
LEMMA TakesReplyKeeps ==
  ASSUME IInv, TakesReply
  PROVE  IInv'
<1>1. PICK m : m = stream.final
  OBVIOUS
<1>2. /\ run.at = "asking" /\ stream.at = "ended" /\ m \in Finals
      /\ UNCHANGED <<prompts, inputs, replies>> /\ call = NoCalls
      /\ transcript \in Seq(Messages) /\ context = transcript /\ run.status = None
  BY <1>1 DEF TakesReply, IInv, TypeOK, StreamFits, CallsFit, TranscriptFits, LastFits
<1>3. /\ m \in Messages /\ <<m>> \in Seq(Messages)
      /\ m.role = "assistant" /\ m.calls \in Batches
      /\ m.stop \in {"stop", "error"} /\ Proper(m)
  BY <1>2, FinalsFit
<1>4. TurnAdds(<<m>>) /\ Working
  BY <1>2, <1>3, ReplyAdds DEF Working
<1>5. Extension(transcript, <<m>>, <<>>, transcript \o <<m>>)
  BY <1>2, <1>3, ExtendsQuietly
<1>6. LastStops(transcript \o <<m>>, m.stop)
  BY <1>2, <1>3, <1>5, Numbers, LastIsNew
<1>7. CASE m.stop \in Broken /\ Ends("broken", <<m>>, "failed") /\ call' = call
  <2>1. m.stop = "error" /\ "failed" # None
    BY <1>3, <1>7, LoopAssumption DEF Broken
  <2>2. transcript' = transcript \o <<m>>
    BY <1>7 DEF Ends
  <2>3. QED
    BY <1>2, <1>4, <1>6, <1>7, <2>1, <2>2, EndsKeeps
<1>8. CASE run.signal /\ Ends("aborted", <<m>>, run.status) /\ call' = call
  <2>1. "failed" # None
    BY LoopAssumption
  <2>2. QED
    BY <1>2, <1>4, <1>8, <2>1, EndsKeeps
<1>9. CASE m.stop \notin Broken /\ GoesOn(<<m>>, FALSE) /\ call' = call
  <2>1. m.stop = "stop"
    BY <1>3, <1>9 DEF Broken
  <2>2. QED
    BY <1>2, <1>4, <1>6, <1>9, <2>1, GoesOnKeeps
<1>10. ASSUME m.stop \notin Broken, NEW mode \in Modes,
              run' = [run EXCEPT !.at = "tools", !.batch = m.calls,
                                 !.together = mode = "parallel"],
              Says(m), call' = Waiting(m.calls), stream' = NoStream,
              UNCHANGED <<steering, followUp>>
       PROVE  IInv'
  <2>1. /\ run' \in Runs /\ run'.at = "tools" /\ run'.batch = m.calls
        /\ run'.how = run.how /\ run'.status = run.status /\ run'.first = run.first
    BY <1>3, <1>10 DEF IInv, TypeOK, Runs, Stages
  <2>2. transcript' = transcript \o <<m>> /\ context' = transcript'
    BY <1>2, <1>3, <1>10 DEF Says
  <2>3. <<>> \in Queue /\ IsInjective(<<>>) /\ Range(<<>>) = {}
    BY Numbers DEF IsInjective, Range
  <2>4. /\ transcript' \in Seq(Messages) /\ ResultsFollow(transcript')
        /\ \E p : /\ IsPrompt(transcript', p) /\ HeardOnce(transcript', p)
                  /\ Heard(transcript', p) \cup Queued = run.first + 1 .. inputs
                  /\ Heard(transcript', p) \cap Queued = {}
    BY <1>4, <1>5, <2>2, <2>3, TurnHears
  <2>5. call' \in [Call -> Calls]
    BY <1>10 DEF Waiting, NoCall, Calls
  <2>6. TypeOK'
    BY <1>2, <1>10, <2>1, <2>2, <2>4, <2>5, Numbers DEF IInv, TypeOK
  <2>7. StreamFits' /\ CallsFit'
    BY <1>10, <2>1 DEF StreamFits, CallsFit, NoStream
  <2>8. TranscriptFits'
    <3>1. Len(transcript') = Len(transcript) + 1 /\ transcript'[Len(transcript')] = m
      BY <1>2, <1>3, <2>2
    <3>2. Len(transcript') > 0
      BY <1>2, <3>1
    <3>3. QED
      BY <1>3, <2>1, <2>2, <2>4, <3>1, <3>2 DEF TranscriptFits
  <2>9. InputsFit'
    <3>1. Queued' = Queued /\ QueuesFit'
      BY <1>2, <1>10 DEF Queued, QueuesFit, IInv, InputsFit
    <3>2. \E p : InputFits(p)'
      BY <1>2, <2>1, <2>4, <3>1 DEF InputFits
    <3>3. QED
      BY <1>2, <2>1, <3>1, <3>2 DEF InputsFit, IInv
  <2>10. LastFits'
    <3>1. m.stop = "stop"
      BY <1>3, <1>10 DEF Broken
    <3>2. QED
      BY <1>2, <1>6, <2>1, <2>2, <3>1 DEF LastFits
  <2>11. QED
    BY <2>6, <2>7, <2>8, <2>9, <2>10 DEF IInv
<1>11. QED
  BY <1>1, <1>7, <1>8, <1>9, <1>10 DEF TakesReply

-----------------------------------------------------------------------------
(* Steps of the calls                                                      *)

\* A step that does nothing but move calls of a reply that is executed.
LEMMA CallsMove ==
  ASSUME IInv, run.at = "tools", call' \in [Call -> Calls],
         UNCHANGED <<run, transcript, context, steering, followUp, stream, prompts,
                     inputs, replies>>
  PROVE  IInv'
<1>1. StreamFits' /\ CallsFit'
  BY DEF IInv, StreamFits, CallsFit
<1>2. QED
  BY <1>1, QuietKeeps DEF IInv, TypeOK, Quiet

\* A call moves on.
LEMMA CallBecomesKeeps ==
  ASSUME IInv, run.at = "tools", NEW c \in Call,
         NEW at \in {"asked", "ready", "running", "done"},
         NEW outcome \in Outcomes \cup {None}, CallBecomes(c, at, outcome)
  PROVE  IInv'
<1>1. call \in [Call -> Calls] /\ [at |-> at, outcome |-> outcome] \in Calls
  BY DEF IInv, TypeOK, Calls
<1>2. call' \in [Call -> Calls]
  BY <1>1 DEF CallBecomes
<1>3. QED
  BY <1>2, CallsMove DEF CallBecomes

\* Each step of a call is such a move.
LEMMA CallStepsKeep ==
  ASSUME IInv, NEW c \in Call,
         \/ Refuses(c) \/ AsksHook(c) \/ Starts(c)
         \/ \E allowed \in BOOLEAN : HookAnswers(c, allowed)
         \/ \E outcome \in Outcomes : ToolEnds(c, outcome)
  PROVE  IInv'
<1>1. PICK at \in {"asked", "ready", "running", "done"}, outcome \in Outcomes \cup {None} :
        run.at = "tools" /\ CallBecomes(c, at, outcome)
  <2>1. CASE Refuses(c)
    BY <2>1 DEF Refuses, Outcomes
  <2>2. CASE AsksHook(c)
    BY <2>2 DEF AsksHook
  <2>3. CASE Starts(c)
    BY <2>3 DEF Starts, Outcomes
  <2>4. ASSUME NEW allowed \in BOOLEAN, HookAnswers(c, allowed)
        PROVE  \E at \in {"asked", "ready", "running", "done"}, outcome \in Outcomes \cup {None} :
                 run.at = "tools" /\ CallBecomes(c, at, outcome)
    BY <2>4 DEF HookAnswers, Outcomes
  <2>5. ASSUME NEW outcome \in Outcomes, ToolEnds(c, outcome)
        PROVE  run.at = "tools" /\ CallBecomes(c, "done", outcome)
    BY <2>5 DEF ToolEnds
  <2>6. QED
    BY <2>1, <2>2, <2>3, <2>4, <2>5
<1>2. QED
  BY <1>1, CallBecomesKeeps

\* The results of the calls of the last reply are what a turn may add behind it.
LEMMA ResultsAdd ==
  ASSUME IInv, run.at = "tools"
  PROVE  /\ TurnAdds(Results)
         /\ \A k \in DOMAIN Results : Results[k].role # "assistant"
<1>1. run.batch \in Batches /\ run.batch \in Seq(Call) /\ call \in [Call -> Calls]
  BY LoopAssumption DEF IInv, TypeOK, Runs
<1>2. \A k \in DOMAIN run.batch :
        run.batch[k] \in Call /\ call[run.batch[k]].outcome \in Outcomes \cup {None}
  <2>1. \A k \in DOMAIN run.batch : run.batch[k] \in Call
    BY <1>1, ElementOfSeq, LenProperties
  <2>2. QED
    BY <1>1, <2>1 DEF Calls
<1>3. DOMAIN Results = DOMAIN run.batch
  BY DEF Results
<1>4. ASSUME NEW k \in DOMAIN run.batch
      PROVE  /\ Results[k] \in Messages /\ Results[k].role = "result"
             /\ Results[k].calls = <<>> /\ Results[k].of = run.batch[k]
  <2>1. Results[k] = ResultOf(run.batch[k], call[run.batch[k]].outcome)
    BY DEF Results
  <2>2. QED
    BY <1>2, <2>1, LoopAssumption DEF ResultOf, Message, Messages
<1>5. Results \in Seq(Messages)
  <2>1. DOMAIN run.batch = 1 .. Len(run.batch) /\ Len(run.batch) \in Nat
    BY <1>1
  <2>2. \A k \in 1 .. Len(run.batch) :
          ResultOf(run.batch[k], call[run.batch[k]].outcome) \in Messages
    BY <1>4, <2>1 DEF Results
  <2>3. QED
    BY <2>1, <2>2 DEF Results
<1>6. Fits(transcript, Results)
  <2>1. /\ Len(transcript) > 0 /\ transcript[Len(transcript)].role = "assistant"
        /\ transcript[Len(transcript)].calls = run.batch
    BY DEF IInv, TranscriptFits
  <2>2. QED
    BY <1>3, <1>4, <2>1 DEF Fits
<1>7. QED
  BY <1>3, <1>4, <1>5, <1>6 DEF TurnAdds

\* All calls have ended and their results enter the transcript.
LEMMA BatchEndsKeeps ==
  ASSUME IInv, BatchEnds
  PROVE  IInv'
<1>1. run.at = "tools" /\ Working /\ UNCHANGED <<prompts, inputs, replies>>
  BY DEF BatchEnds, Working
<1>2. PICK ms : ms = Results
  OBVIOUS
<1>3. TurnAdds(ms) /\ \A k \in DOMAIN ms : ms[k].role # "assistant"
  BY <1>1, <1>2, ResultsAdd
<1>4. LastStops(transcript \o ms, "stop") /\ run.status = None
  <2>1. /\ transcript \in Seq(Messages) /\ ms \in Seq(Messages)
        /\ LastStops(transcript, "stop") /\ run.status = None
    BY <1>1, <1>3 DEF IInv, TypeOK, TurnAdds, LastFits
  <2>2. Extension(transcript, ms, <<>>, transcript \o ms)
    BY <2>1, ExtendsQuietly
  <2>3. QED
    BY <1>3, <2>1, <2>2, Numbers, LastStays
<1>5. CASE Dies
  BY <1>1, <1>5, DiesKeeps
<1>6. ASSUME NEW how \in {"aborted", "finished"}, Ends(how, ms, run.status), call' = NoCalls
      PROVE  IInv'
  <2>1. transcript' = transcript \o ms /\ "failed" # None
    BY <1>6, LoopAssumption DEF Ends
  <2>2. QED
    BY <1>1, <1>3, <1>4, <1>6, <2>1, EndsKeeps
<1>7. CASE GoesOn(ms, TRUE) /\ call' = NoCalls
  BY <1>1, <1>3, <1>4, <1>7, GoesOnKeeps
<1>8. QED
  BY <1>2, <1>5, <1>6, <1>7 DEF BatchEnds

\* The host cancels the task wherever the loop waits.
LEMMA CancelKeeps ==
  ASSUME IInv, Cancel
  PROVE  IInv'
<1>1. UNCHANGED <<prompts, inputs, replies>>
  BY DEF Cancel
<1>2. CASE /\ run.at \in {"asking", "closing"}
           /\ run' = [run EXCEPT !.at = "closing", !.cancelled = TRUE]
           /\ UNCHANGED <<transcript, context, steering, followUp, stream, call>>
  <2>1. /\ run' \in Runs /\ run'.at = "closing" /\ run'.how = run.how
        /\ run'.signal = run.signal
        /\ run'.status = run.status /\ run'.first = run.first /\ run'.batch = run.batch
        /\ run'.accepting = run.accepting
    BY <1>2 DEF IInv, TypeOK, Runs, Stages
  <2>2. StreamFits' /\ CallsFit'
    BY <1>2, <2>1 DEF IInv, StreamFits, CallsFit
  <2>3. QED
    BY <1>1, <1>2, <2>1, <2>2, QuietKeeps DEF IInv, TypeOK, Quiet
<1>3. ASSUME run.at = "tools", NEW r \in Runs, run' = r,
             r.at = run.at, r.how = run.how, r.status = run.status, r.first = run.first,
             r.batch = run.batch, r.accepting = run.accepting, run.signal => r.signal,
             NEW S, call' = [c \in Call |-> IF c \in S
                                            THEN [at |-> "done", outcome |-> "cancelled"]
                                            ELSE call[c]],
             UNCHANGED <<transcript, context, steering, followUp, stream>>
      PROVE  IInv'
  <2>1. call' \in [Call -> Calls]
    BY <1>3 DEF IInv, TypeOK, Calls, Outcomes
  <2>2. StreamFits' /\ CallsFit'
    BY <1>3 DEF IInv, StreamFits, CallsFit
  <2>3. QED
    BY <1>1, <1>3, <2>1, <2>2, QuietKeeps DEF IInv, TypeOK, Quiet
<1>4. CASE /\ run.at = "tools"
           /\ run' = [run EXCEPT !.cancelled = TRUE]
           /\ call' = [c \in Call |-> IF call[c].at = "ready"
                                      THEN [at |-> "done", outcome |-> "cancelled"]
                                      ELSE call[c]]
           /\ UNCHANGED <<transcript, context, steering, followUp, stream>>
  <2>1. PICK S : S = {c \in Call : call[c].at = "ready"}
    OBVIOUS
  <2>2. call' = [c \in Call |-> IF c \in S THEN [at |-> "done", outcome |-> "cancelled"]
                                ELSE call[c]]
    BY <1>4, <2>1
  <2>3. PICK r : r = [run EXCEPT !.cancelled = TRUE]
    OBVIOUS
  <2>4. /\ r \in Runs /\ r.at = run.at /\ r.how = run.how /\ r.status = run.status
        /\ r.first = run.first /\ r.batch = run.batch /\ r.accepting = run.accepting
        /\ r.signal = run.signal
    BY <2>3 DEF IInv, TypeOK, Runs
  <2>5. QED
    BY <1>3, <1>4, <2>2, <2>3, <2>4
<1>5. CASE /\ run.at = "tools"
           /\ run' = [run EXCEPT !.signal = TRUE]
           /\ call' = [c \in Call |-> IF c \in Running
                                      THEN [at |-> "done", outcome |-> "cancelled"]
                                      ELSE call[c]]
           /\ UNCHANGED <<transcript, context, steering, followUp, stream>>
  <2>1. PICK r : r = [run EXCEPT !.signal = TRUE]
    OBVIOUS
  <2>2. /\ r \in Runs /\ r.at = run.at /\ r.how = run.how /\ r.status = run.status
        /\ r.first = run.first /\ r.batch = run.batch /\ r.accepting = run.accepting
        /\ r.signal
    BY <2>1 DEF IInv, TypeOK, Runs
  <2>3. QED
    BY <1>3, <1>5, <2>1, <2>2
<1>6. CASE Dies
  BY <1>1, <1>6, DiesKeeps
<1>7. QED
  BY <1>2, <1>4, <1>5, <1>6 DEF Cancel

-----------------------------------------------------------------------------
(* Every step                                                              *)

\* The loop starts fit.
LEMMA InitFits ==
  ASSUME Init
  PROVE  IInv
<1>1. /\ run = NoRun /\ transcript = <<>> /\ context = <<>>
      /\ steering = <<>> /\ followUp = <<>> /\ stream = NoStream /\ call = NoCalls
      /\ prompts = 0 /\ inputs = 0 /\ replies = 0
  BY DEF Init
<1>2. run.at = "idle" /\ run.status = None /\ run.first = 0
  BY <1>1 DEF NoRun
<1>3. TypeOK
  BY <1>1, Numbers DEF TypeOK
<1>4. StreamFits /\ CallsFit /\ TranscriptFits /\ InputsFit
  BY <1>1, <1>2 DEF StreamFits, NoStream, CallsFit, TranscriptFits, ResultsFollow,
     AnswersFollow, Attached, InputsFit
<1>5. LastFits
  BY <1>2, LoopAssumption DEF LastFits
<1>6. QED
  BY <1>3, <1>4, <1>5 DEF IInv

\* Every step of the loop, its tools and its user keeps the invariant.
LEMMA NextKeeps ==
  ASSUME IInv, [Next]_vars
  PROVE  IInv'
<1>1. CASE ByUser
  BY <1>1, PromptKeeps, InputKeeps, AbortKeeps, CancelKeeps DEF ByUser
<1>2. CASE Provider
  BY <1>2, SpeaksKeeps, AttemptEndsKeeps DEF Provider
<1>3. CASE Loop
  BY <1>3, TakesReplyKeeps, StopsListeningKeeps, BatchEndsKeeps, RunEndsKeeps,
     StreamClosesKeeps, CallStepsKeep DEF Loop
<1>4. CASE Tools
  BY <1>4, CallStepsKeep DEF Tools
<1>5. CASE BackoffEnds \/ RequestFails
  BY <1>5, BackoffEndsKeeps, RequestFailsKeeps
<1>6. CASE \E c \in Call : AsksHook(c)
  BY <1>6, CallStepsKeep
<1>7. CASE UNCHANGED vars
  <2>1. UNCHANGED <<run, transcript, context, steering, followUp, stream, call, prompts,
                    inputs, replies>>
    BY <1>7 DEF vars
  <2>2. StreamFits' /\ CallsFit'
    BY <2>1 DEF IInv, StreamFits, CallsFit
  <2>3. QED
    BY <2>1, <2>2, QuietKeeps DEF IInv, TypeOK, Quiet
<1>8. QED
  BY <1>1, <1>2, <1>3, <1>4, <1>5, <1>6, <1>7 DEF Next

\* What every run of the loop keeps, for all the theorems below.
THEOREM Invariance == Spec => []IInv
<1>1. Init => IInv
  BY InitFits
<1>2. IInv /\ [Next]_vars => IInv'
  BY NextKeeps
<1>3. QED
  BY <1>1, <1>2, PTL DEF Spec

\* The variables keep their types.
THEOREM TypeCorrect == Spec => []TypeOK
<1>1. IInv => TypeOK
  BY DEF IInv
<1>2. QED
  BY <1>1, Invariance, PTL

-----------------------------------------------------------------------------
(* What a request shows of the transcript.  It is computed by a recursive    *)
(* function over the messages, and what holds of each message is carried    *)
(* over them by induction.                                                  *)

\* A set of natural numbers that is not empty has a least element.
LEMMA LeastElement ==
  ASSUME NEW T, T \subseteq Nat, T # {}
  PROVE  \E x \in T : \A y \in T : x <= y
<1>1. SUFFICES ASSUME \A x \in T : \E y \in T : y < x
               PROVE  FALSE
  OBVIOUS
<1>2. PICK n \in T : TRUE
  OBVIOUS
<1> DEFINE U == {m \in 0 .. n : \E y \in T : y <= m}
           f == [m \in U |-> m - 1]
<1>3. IsFiniteSet(U) /\ Cardinality(U) \in Nat
  <2>1. IsFiniteSet(0 .. n)
    BY <1>2, FS_Interval
  <2>2. IsFiniteSet(U)
    BY <2>1, FS_Subset
  <2>3. QED
    BY <2>2, FS_CardinalityType
<1>4. n \in U
  BY <1>2
<1>5. IsFiniteSet(U \ {n}) /\ Cardinality(U \ {n}) = Cardinality(U) - 1
  BY <1>3, <1>4, FS_RemoveElement
<1>6. \A m \in U : m - 1 \in U \ {n}
  <2>1. TAKE m \in U
  <2>2. PICK y \in T : y <= m
    OBVIOUS
  <2>3. PICK z \in T : z < y
    BY <1>1
  <2>4. QED
    BY <2>2, <2>3, <1>2
<1>7. f \in [U -> U \ {n}]
  BY <1>6
<1>8. PICK x, y \in U : x # y /\ f[x] = f[y]
  <2>1. Cardinality(U \ {n}) < Cardinality(U)
    BY <1>3, <1>5
  <2> HIDE DEF U, f
  <2>2. QED
    BY <1>3, <1>5, <1>7, <2>1, FS_PigeonHole
<1>9. QED
  BY <1>8

\* What holds of 0 and of n + 1 when it holds of n, holds of every number.
LEMMA Induction ==
  ASSUME NEW S, 0 \in S, \A n \in Nat : n \in S => n + 1 \in S
  PROVE  Nat \subseteq S
<1>1. SUFFICES ASSUME Nat \ S # {}
               PROVE  FALSE
  OBVIOUS
<1>2. PICK x \in Nat \ S : \A y \in Nat \ S : x <= y
  BY <1>1, LeastElement
<1>3. x - 1 \in Nat /\ x - 1 \in S
  BY <1>2
<1>4. QED
  BY <1>2, <1>3

NothingShown == [out |-> <<>>, open |-> <<>>]

\* f is what is shown of the first n messages, g the results among them.
IsShowing(f, messages, n) ==
  f = [i \in 0 .. n |-> IF i = 0 THEN NothingShown ELSE Shows(f[i - 1], messages[i])]
Finds(found, m) == IF IsResult(m) THEN Append(found, m) ELSE found
IsFinding(g, messages, n) ==
  g = [i \in 0 .. n |-> IF i = 0 THEN <<>> ELSE Finds(g[i - 1], messages[i])]

\* Any number of messages can be shown, and searched for results.
LEMMA ShowingExists ==
  ASSUME NEW messages
  PROVE  \A n \in Nat : \E f : IsShowing(f, messages, n)
<1> DEFINE S == {n \in Nat : \E f : IsShowing(f, messages, n)}
<1>1. 0 \in S
  <2>1. IsShowing([i \in 0 .. 0 |-> NothingShown], messages, 0)
    BY DEF IsShowing
  <2>2. QED
    BY <2>1
<1>2. \A n \in Nat : n \in S => n + 1 \in S
  <2>1. SUFFICES ASSUME NEW n \in Nat, NEW f, IsShowing(f, messages, n)
                 PROVE  \E h : IsShowing(h, messages, n + 1)
    OBVIOUS
  <2> DEFINE h == [i \in 0 .. n + 1 |->
                     IF i = n + 1 THEN Shows(f[n], messages[i]) ELSE f[i]]
  <2>2. \A i \in 0 .. n + 1 :
          h[i] = IF i = 0 THEN NothingShown ELSE Shows(h[i - 1], messages[i])
    <3>1. TAKE i \in 0 .. n + 1
    <3>2. CASE i = n + 1
      BY <3>2
    <3>3. CASE i \in 0 .. n
      <4>1. h[i] = f[i] /\ (i # 0 => h[i - 1] = f[i - 1])
        BY <3>3
      <4>2. f[i] = IF i = 0 THEN NothingShown ELSE Shows(f[i - 1], messages[i])
        BY <2>1, <3>3 DEF IsShowing
      <4> HIDE DEF h
      <4>3. QED
        BY <4>1, <4>2
    <3>4. QED
      BY <3>2, <3>3
  <2>3. IsShowing(h, messages, n + 1)
    BY <2>2 DEF IsShowing
  <2>4. QED
    BY <2>3
<1>3. QED
  BY <1>1, <1>2, Induction

\* The results of a transcript can be collected, up to any message.
LEMMA FindingExists ==
  ASSUME NEW messages
  PROVE  \A n \in Nat : \E g : IsFinding(g, messages, n)
<1> DEFINE S == {n \in Nat : \E g : IsFinding(g, messages, n)}
<1>1. 0 \in S
  <2>1. IsFinding([i \in 0 .. 0 |-> <<>>], messages, 0)
    BY DEF IsFinding
  <2>2. QED
    BY <2>1
<1>2. \A n \in Nat : n \in S => n + 1 \in S
  <2>1. SUFFICES ASSUME NEW n \in Nat, NEW g, IsFinding(g, messages, n)
                 PROVE  \E h : IsFinding(h, messages, n + 1)
    OBVIOUS
  <2> DEFINE h == [i \in 0 .. n + 1 |->
                     IF i = n + 1 THEN Finds(g[n], messages[i]) ELSE g[i]]
  <2>2. \A i \in 0 .. n + 1 :
          h[i] = IF i = 0 THEN <<>> ELSE Finds(h[i - 1], messages[i])
    <3>1. TAKE i \in 0 .. n + 1
    <3>2. CASE i = n + 1
      BY <3>2
    <3>3. CASE i \in 0 .. n
      <4>1. h[i] = g[i] /\ (i # 0 => h[i - 1] = g[i - 1])
        BY <3>3
      <4>2. g[i] = IF i = 0 THEN <<>> ELSE Finds(g[i - 1], messages[i])
        BY <2>1, <3>3 DEF IsFinding
      <4> HIDE DEF h
      <4>3. QED
        BY <4>1, <4>2
    <3>4. QED
      BY <3>2, <3>3
  <2>3. IsFinding(h, messages, n + 1)
    BY <2>2 DEF IsFinding
  <2>4. QED
    BY <2>3
<1>3. QED
  BY <1>1, <1>2, Induction

\* Each goes on message by message.
LEMMA ShowingSteps ==
  ASSUME NEW messages, NEW n \in Nat, NEW f, IsShowing(f, messages, n)
  PROVE  /\ f[0] = NothingShown
         /\ \A i \in 1 .. n : f[i] = Shows(f[i - 1], messages[i])
<1> DEFINE F(i) == IF i = 0 THEN NothingShown ELSE Shows(f[i - 1], messages[i])
<1>1. f = [i \in 0 .. n |-> F(i)]
  BY DEF IsShowing
<1> HIDE DEF F
<1>2. \A i \in 0 .. n : f[i] = F(i)
  BY <1>1
<1>3. QED
  BY <1>2 DEF F

\* One step of collecting them.
LEMMA FindingSteps ==
  ASSUME NEW messages, NEW n \in Nat, NEW g, IsFinding(g, messages, n)
  PROVE  /\ g[0] = <<>>
         /\ \A i \in 1 .. n : g[i] = Finds(g[i - 1], messages[i])
<1> DEFINE G(i) == IF i = 0 THEN <<>> ELSE Finds(g[i - 1], messages[i])
<1>1. g = [i \in 0 .. n |-> G(i)]
  BY DEF IsFinding
<1> HIDE DEF G
<1>2. \A i \in 0 .. n : g[i] = G(i)
  BY <1>1
<1>3. QED
  BY <1>2 DEF G

\* The repaired transcript is where showing it message by message ends.
LEMMA RepairedIs ==
  ASSUME NEW messages, Len(messages) \in Nat
  PROVE  \E f : /\ IsShowing(f, messages, Len(messages))
                /\ Repaired(messages) =
                     f[Len(messages)].out \o Unanswered(f[Len(messages)].open)
<1> DEFINE f == CHOOSE f : IsShowing(f, messages, Len(messages))
<1>1. Repaired(messages) = f[Len(messages)].out \o Unanswered(f[Len(messages)].open)
  BY DEF Repaired, IsShowing, NothingShown
<1>2. IsShowing(f, messages, Len(messages))
  BY ShowingExists
<1>3. QED
  BY <1>1, <1>2

\* The results of a transcript are where collecting them ends.
LEMMA ResultsInIs ==
  ASSUME NEW messages, Len(messages) \in Nat
  PROVE  \E g : /\ IsFinding(g, messages, Len(messages))
                /\ ResultsIn(messages) = g[Len(messages)]
<1>1. ResultsIn(messages) = (CHOOSE g : IsFinding(g, messages, Len(messages)))[Len(messages)]
  BY DEF ResultsIn, IsFinding, Finds
<1>2. QED
  BY <1>1, FindingExists

\* In transcripts that begin alike the same results are found at first.
LEMMA FindingUnique ==
  ASSUME NEW s, NEW t, NEW n \in Nat, NEW m \in Nat, NEW f, NEW g,
         n <= m, \A i \in 1 .. n : s[i] = t[i], IsFinding(f, s, n), IsFinding(g, t, m)
  PROVE  f[n] = g[n]
<1> DEFINE S == {i \in Nat : i <= n => f[i] = g[i]}
<1>1. 0 \in S
  BY FindingSteps
<1>2. \A i \in Nat : i \in S => i + 1 \in S
  <2>1. SUFFICES ASSUME NEW i \in Nat, f[i] = g[i], i + 1 <= n
                 PROVE  f[i + 1] = g[i + 1]
    OBVIOUS
  <2>2. i + 1 \in 1 .. n /\ i + 1 \in 1 .. m /\ i + 1 - 1 = i
    BY <2>1
  <2>3. f[i + 1] = Finds(f[i + 1 - 1], s[i + 1])
    BY <2>2, FindingSteps
  <2>4. g[i + 1] = Finds(g[i + 1 - 1], t[i + 1])
    BY <2>2, FindingSteps
  <2>5. QED
    BY <2>1, <2>2, <2>3, <2>4
<1> HIDE DEF S
<1>3. n \in S
  BY <1>1, <1>2, Induction
<1>4. QED
  BY <1>3 DEF S

\* No messages hold no results.
LEMMA FindsNothing == ResultsIn(<<>>) = <<>>
<1>1. PICK g : IsFinding(g, <<>>, 0) /\ ResultsIn(<<>>) = g[0]
  BY ResultsInIs
<1>2. QED
  BY <1>1, FindingSteps

\* Messages that are no results add nothing.
LEMMA FindsNoMore ==
  ASSUME NEW s \in Seq(Messages), NEW t \in Seq(Messages), Len(s) <= Len(t),
         \A i \in 1 .. Len(s) : t[i] = s[i],
         \A i \in 1 .. Len(t) : i > Len(s) => ~IsResult(t[i])
  PROVE  ResultsIn(t) = ResultsIn(s)
<1>1. PICK n \in Nat, m \in Nat : n = Len(s) /\ m = Len(t)
  OBVIOUS
<1>2. PICK f : IsFinding(f, s, n) /\ ResultsIn(s) = f[n]
  BY <1>1, ResultsInIs
<1>3. PICK g : IsFinding(g, t, m) /\ ResultsIn(t) = g[m]
  BY <1>1, ResultsInIs
<1>4. f[n] = g[n]
  <2>1. n <= m /\ \A i \in 1 .. n : s[i] = t[i]
    BY <1>1
  <2>2. QED
    BY <1>2, <1>3, <2>1, FindingUnique
<1> DEFINE S == {i \in Nat : n <= i /\ i <= m => g[i] = g[n]}
<1>5. 0 \in S
  BY <1>1
<1>6. \A i \in Nat : i \in S => i + 1 \in S
  <2>1. SUFFICES ASSUME NEW i \in Nat, i \in S, n <= i + 1, i + 1 <= m
                 PROVE  g[i + 1] = g[n]
    OBVIOUS
  <2>2. CASE n = i + 1
    BY <2>2
  <2>3. CASE n <= i
    <3>1. g[i] = g[n] /\ i + 1 \in 1 .. m /\ i + 1 - 1 = i /\ ~IsResult(t[i + 1])
      BY <1>1, <2>1, <2>3
    <3>2. g[i + 1] = Finds(g[i + 1 - 1], t[i + 1])
      BY <1>3, <3>1, FindingSteps
    <3>3. QED
      BY <3>1, <3>2 DEF Finds
  <2>4. QED
    BY <2>1, <2>2, <2>3
<1> HIDE DEF S
<1>7. m \in S
  BY <1>5, <1>6, Induction
<1>8. QED
  BY <1>1, <1>2, <1>3, <1>4, <1>7 DEF S

\* One more message holds its own results besides.
LEMMA FindsOneMore ==
  ASSUME NEW s \in Seq(Messages), NEW e \in Messages
  PROVE  ResultsIn(Append(s, e)) = Finds(ResultsIn(s), e)
<1> DEFINE more == Append(s, e)
<1>1. PICK n \in Nat, m \in Nat :
        /\ n = Len(s) /\ m = n + 1 /\ m = Len(more) /\ more[m] = e
        /\ \A i \in 1 .. n : s[i] = more[i]
  OBVIOUS
<1> HIDE DEF more
<1>2. PICK f : IsFinding(f, s, n) /\ ResultsIn(s) = f[n]
  BY <1>1, ResultsInIs
<1>3. PICK g : IsFinding(g, more, m) /\ ResultsIn(more) = g[m]
  BY <1>1, ResultsInIs
<1>4. f[n] = g[n]
  <2>1. n <= m
    BY <1>1
  <2>2. \A i \in 1 .. n : s[i] = more[i]
    BY <1>1
  <2>3. IsFinding(f, s, n)
    BY <1>2
  <2>4. IsFinding(g, more, m)
    BY <1>3
  <2>5. QED
    BY <1>1, <2>1, <2>2, <2>3, <2>4, FindingUnique, SMTT(60)
<1>5. g[m] = Finds(g[n], e)
  <2>1. m \in 1 .. m /\ m - 1 = n
    BY <1>1
  <2>2. g[m] = Finds(g[m - 1], more[m])
    BY <1>3, <2>1, FindingSteps
  <2>3. QED
    BY <1>1, <2>1, <2>2
<1>6. QED
  BY <1>2, <1>3, <1>4, <1>5 DEF more

-----------------------------------------------------------------------------
(* Every call is shown with its result                                     *)

Whole(shown) ==
  \A i \in DOMAIN shown : shown[i].role = "assistant" => Answered(shown, i)

\* u is out with a stand-in for the result of each open call
Closes(out, open, u) ==
  /\ u \in Seq(Messages) /\ DOMAIN u = 1 .. Len(out) + Len(open)
  /\ Len(u) = Len(out) + Len(open)
  /\ \A i \in 1 .. Len(out) : u[i] = out[i]
  /\ \A k \in 1 .. Len(open) : /\ u[Len(out) + k].role = "result"
                               /\ u[Len(out) + k].of = open[k]
                               /\ ~IsResult(u[Len(out) + k])

\* Calls that are open get their results in their order.
LEMMA Closing ==
  ASSUME NEW out \in Seq(Messages), NEW open \in Seq(Call), NEW u, u = out \o Unanswered(open)
  PROVE  Closes(out, open, u)
<1>1. \A k \in 1 .. Len(open) : open[k] \in Call
  BY ElementOfSeq, LenProperties
<1>2. \A k \in 1 .. Len(open) :
        LET r == ResultOf(open[k], "uncertain") IN
        r \in Messages /\ r.role = "result" /\ r.of = open[k] /\ ~IsResult(r)
  BY <1>1, LoopAssumption DEF ResultOf, Message, Messages, IsResult
<1> DEFINE w == Unanswered(open)
<1>3. /\ w \in Seq(Messages) /\ Len(w) = Len(open)
      /\ \A k \in 1 .. Len(open) : w[k] = ResultOf(open[k], "uncertain")
  <2>1. DOMAIN open = 1 .. Len(open) /\ Len(open) \in Nat
    OBVIOUS
  <2>2. QED
    BY <1>2, <2>1 DEF Unanswered
<1>0. u = out \o w
  OBVIOUS
<1> HIDE DEF w
<1>4. /\ u \in Seq(Messages) /\ Len(u) = Len(out) + Len(w)
      /\ \A i \in 1 .. Len(out) : u[i] = out[i]
      /\ \A k \in 1 .. Len(w) : u[Len(out) + k] = w[k]
  BY <1>0, <1>3, Concatenation
<1>5. QED
  BY <1>2, <1>3, <1>4 DEF Closes

\* The first open call is taken away.
LEMMA FirstIsTaken ==
  ASSUME NEW open \in Seq(Call), Len(open) > 0, IsInjective(open)
  PROVE  /\ Without(open, open[1]) \in Seq(Call)
         /\ Len(Without(open, open[1])) = Len(open) - 1
         /\ \A k \in 1 .. Len(open) - 1 : Without(open, open[1])[k] = open[k + 1]
         /\ open[1] \in Range(open)
<1>1. 1 \in DOMAIN open
  OBVIOUS
<1>2. (CHOOSE i \in DOMAIN open : open[i] = open[1]) = 1
  BY <1>1 DEF IsInjective
<1>3. Without(open, open[1]) = SubSeq(open, 1, 0) \o SubSeq(open, 2, Len(open))
  <2>1. Without(open, open[1]) = RemoveAt(open, 1)
    BY <1>2, Zenon DEF Without
  <2>2. RemoveAt(open, 1) = SubSeq(open, 1, 1 - 1) \o SubSeq(open, 1 + 1, Len(open))
    BY DEF RemoveAt
  <2>3. 1 - 1 = 0 /\ 1 + 1 = 2
    OBVIOUS
  <2>4. QED
    BY <2>1, <2>2, <2>3
<1>4. SubSeq(open, 1, 0) = <<>>
  OBVIOUS
<1>5. /\ SubSeq(open, 2, Len(open)) \in Seq(Call)
      /\ Len(SubSeq(open, 2, Len(open))) = Len(open) - 1
      /\ \A k \in 1 .. Len(open) - 1 : SubSeq(open, 2, Len(open))[k] = open[k + 1]
  <2>1. \A i \in 2 .. Len(open) : open[i] \in Call
    BY ElementOfSeq, LenProperties
  <2>2. 2 \in Int /\ Len(open) \in Int
    OBVIOUS
  <2>3. /\ SubSeq(open, 2, Len(open)) \in Seq(Call)
        /\ Len(SubSeq(open, 2, Len(open))) = IF 2 <= Len(open) THEN Len(open) - 2 + 1 ELSE 0
        /\ \A i \in 1 .. Len(open) - 2 + 1 : SubSeq(open, 2, Len(open))[i] = open[2 + i - 1]
    BY <2>1, <2>2, SubSeqProperties
  <2>4. PICK b, w : b = Len(open) /\ b \in Nat /\ b > 0 /\ w = SubSeq(open, 2, Len(open))
    <3>1. Len(open) \in Nat
      OBVIOUS
    <3>2. QED
      BY <3>1
  <2>5. \A k \in 1 .. b - 1 : k \in 1 .. b - 2 + 1 /\ 2 + k - 1 = k + 1
    BY <2>4
  <2>6. /\ Len(w) = IF 2 <= b THEN b - 2 + 1 ELSE 0
        /\ \A i \in 1 .. b - 2 + 1 : w[i] = open[2 + i - 1]
    BY <2>3, <2>4
  <2>7. Len(w) = b - 1 /\ \A k \in 1 .. b - 1 : w[k] = open[k + 1]
    BY <2>4, <2>5, <2>6
  <2>8. QED
    BY <2>3, <2>4, <2>7
<1>6. Without(open, open[1]) = SubSeq(open, 2, Len(open))
  BY <1>3, <1>4, <1>5
<1>7. QED
  BY <1>1, <1>5, <1>6 DEF Range

\* A result that answers the first open call stands where its stand-in was.
LEMMA ResultIsShown ==
  ASSUME NEW out \in Seq(Messages), NEW open \in Seq(Call), NEW left \in Seq(Call),
         Len(open) > 0, Len(left) = Len(open) - 1,
         \A k \in 1 .. Len(open) - 1 : left[k] = open[k + 1],
         NEW m \in Messages, m.role = "result", m.of = open[1],
         Whole(out \o Unanswered(open))
  PROVE  Whole(Append(out, m) \o Unanswered(left))
<1>0. PICK u, w, v : /\ u = out \o Unanswered(open) /\ w = Append(out, m)
                     /\ v = w \o Unanswered(left)
  OBVIOUS
<1> DEFINE a == Len(out)  b == Len(open)
<1>1. a \in Nat /\ b \in Nat /\ b > 0
  OBVIOUS
<1>2. /\ DOMAIN u = 1 .. a + b /\ \A i \in 1 .. a : u[i] = out[i]
      /\ \A k \in 1 .. b : u[a + k].role = "result" /\ u[a + k].of = open[k]
  <2>1. Closes(out, open, u)
    BY <1>0, Closing
  <2>2. QED
    BY <2>1 DEF Closes
<1>3. /\ w \in Seq(Messages) /\ Len(w) = a + 1
      /\ w[a + 1] = m /\ \A i \in 1 .. a : w[i] = out[i]
  BY <1>0
<1>4. /\ DOMAIN v = 1 .. (a + 1) + (b - 1)
      /\ \A i \in 1 .. a + 1 : v[i] = w[i]
      /\ \A k \in 1 .. b - 1 : v[(a + 1) + k].role = "result" /\ v[(a + 1) + k].of = left[k]
  <2>1. /\ DOMAIN v = 1 .. Len(w) + Len(left)
        /\ \A i \in 1 .. Len(w) : v[i] = w[i]
        /\ \A k \in 1 .. Len(left) : /\ v[Len(w) + k].role = "result"
                                     /\ v[Len(w) + k].of = left[k]
    <3>1. w \in Seq(Messages) /\ v = w \o Unanswered(left)
      BY <1>0, <1>3
    <3>2. Closes(w, left, v)
      BY <3>1, Closing
    <3>3. QED
      BY <3>2 DEF Closes
  <2>2. Len(w) = a + 1 /\ Len(left) = b - 1
    BY <1>3
  <2> HIDE DEF a, b
  <2>3. QED
    BY <2>1, <2>2
<1>5. Whole(u)
  BY <1>0
<1> HIDE DEF a, b
<1>6. DOMAIN v = 1 .. a + b
  BY <1>1, <1>4
<1>7. ASSUME NEW i \in 1 .. a + b
      PROVE  /\ i <= a => v[i] = u[i]
             /\ i > a => /\ u[i].role = "result" /\ v[i].role = "result"
                         /\ u[i].of = v[i].of
  <2>1. CASE i <= a
    BY <1>1, <1>2, <1>3, <1>4, <2>1
  <2>2. CASE i = a + 1
    <3>1. 1 \in 1 .. b /\ a + 1 \in 1 .. a + 1 /\ ~(i <= a)
      BY <1>1, <2>2
    <3>2. u[a + 1].role = "result" /\ u[a + 1].of = open[1]
      BY <1>2, <3>1
    <3>3. v[a + 1] = m
      BY <1>3, <1>4, <3>1
    <3>4. QED
      BY <2>2, <3>1, <3>2, <3>3
  <2>3. CASE i > a + 1
    <3>1. PICK k \in 1 .. b - 1 : i = (a + 1) + k
      <4>1. i - (a + 1) \in 1 .. b - 1 /\ i = (a + 1) + (i - (a + 1))
        BY <1>1, <2>3
      <4>2. QED
        BY <4>1
    <3>2. k + 1 \in 1 .. b /\ i = a + (k + 1) /\ ~(i <= a)
      BY <1>1, <3>1
    <3>3. u[i].role = "result" /\ u[i].of = open[k + 1]
      BY <1>2, <3>2
    <3>4. v[i].role = "result" /\ v[i].of = left[k]
      BY <1>4, <3>1
    <3>5. left[k] = open[k + 1]
      BY <3>1 DEF b
    <3>6. QED
      BY <3>2, <3>3, <3>4, <3>5
  <2>4. QED
    BY <1>1, <2>1, <2>2, <2>3
<1>8. ASSUME NEW i \in DOMAIN v, v[i].role = "assistant"
      PROVE  Answered(v, i)
  <2>1. i \in DOMAIN u /\ v[i] = u[i] /\ Answered(u, i)
    BY <1>1, <1>2, <1>5, <1>6, <1>7, <1>8 DEF Whole
  <2>2. ASSUME NEW k \in DOMAIN v[i].calls
        PROVE  /\ i + k \in DOMAIN v
               /\ v[i + k].role = "result" /\ v[i + k].of = v[i].calls[k]
    <3>1. /\ i + k \in DOMAIN u
          /\ u[i + k].role = "result" /\ u[i + k].of = u[i].calls[k]
      BY <2>1, <2>2 DEF Answered
    <3>2. i + k \in 1 .. a + b
      BY <1>2, <3>1
    <3>3. v[i + k].role = "result" /\ v[i + k].of = u[i + k].of
      BY <1>1, <1>7, <3>1, <3>2
    <3>4. QED
      BY <1>6, <2>1, <3>1, <3>2, <3>3
  <2>3. QED
    BY <2>2 DEF Answered
<1>9. QED
  BY <1>0, <1>8 DEF Whole

\* Another message is shown with stand-ins for the results of its calls.
LEMMA MessageIsShown ==
  ASSUME NEW closed \in Seq(Messages), Whole(closed), NEW m \in Messages,
         m.calls \in Seq(Call)
  PROVE  Whole(Append(closed, m) \o Unanswered(m.calls))
<1>0. PICK v, w : v = w \o Unanswered(m.calls) /\ w = Append(closed, m)
  OBVIOUS
<1> DEFINE a == Len(closed)  b == Len(m.calls)
<1>1. a \in Nat /\ b \in Nat /\ DOMAIN closed = 1 .. a /\ DOMAIN m.calls = 1 .. b
  OBVIOUS
<1>2. /\ w \in Seq(Messages) /\ Len(w) = a + 1
      /\ w[a + 1] = m /\ \A i \in 1 .. a : w[i] = closed[i]
  BY <1>0
<1>3. /\ DOMAIN v = 1 .. (a + 1) + b
      /\ \A i \in 1 .. a + 1 : v[i] = w[i]
      /\ \A k \in 1 .. b : v[(a + 1) + k].role = "result" /\ v[(a + 1) + k].of = m.calls[k]
  <2>1. /\ DOMAIN v = 1 .. Len(w) + Len(m.calls)
        /\ \A i \in 1 .. Len(w) : v[i] = w[i]
        /\ \A k \in 1 .. Len(m.calls) : /\ v[Len(w) + k].role = "result"
                                        /\ v[Len(w) + k].of = m.calls[k]
    <3>1. w \in Seq(Messages) /\ v = w \o Unanswered(m.calls)
      BY <1>0, <1>2
    <3>2. Closes(w, m.calls, v)
      BY <3>1, Closing
    <3>3. QED
      BY <3>2 DEF Closes
  <2>2. Len(w) = a + 1 /\ Len(m.calls) = b
    BY <1>2
  <2> HIDE DEF a, b
  <2>3. QED
    BY <2>1, <2>2
<1> HIDE DEF a, b
<1>4. \A i \in 1 .. a : v[i] = closed[i] /\ i \in 1 .. (a + 1) + b
  BY <1>1, <1>2, <1>3
<1>5. ASSUME NEW i \in 1 .. a, v[i].role = "assistant"
      PROVE  Answered(v, i)
  <2>1. Answered(closed, i) /\ v[i] = closed[i]
    BY <1>1, <1>4, <1>5 DEF Whole
  <2>2. QED
    BY <1>1, <1>3, <1>4, <2>1 DEF Answered
<1>6. v[a + 1] = m
  BY <1>1, <1>2, <1>3
<1>7. Answered(v, a + 1)
  <2>1. \A k \in 1 .. b : (a + 1) + k \in 1 .. (a + 1) + b
    BY <1>1
  <2>2. QED
    BY <1>1, <1>3, <1>6, <2>1 DEF Answered
<1>8. \A i \in DOMAIN v : i \in 1 .. a \/ i = a + 1 \/ \E k \in 1 .. b : i = (a + 1) + k
  <2>1. TAKE i \in DOMAIN v
  <2>2. CASE i > a + 1
    <3>1. i - (a + 1) \in 1 .. b /\ i = (a + 1) + (i - (a + 1))
      BY <1>1, <1>3, <2>2
    <3>2. QED
      BY <3>1
  <2>3. QED
    BY <1>1, <1>3, <2>2
<1>9. \A k \in 1 .. b : v[(a + 1) + k].role # "assistant"
  BY <1>3
<1>10. QED
  BY <1>0, <1>5, <1>7, <1>8, <1>9 DEF Whole

-----------------------------------------------------------------------------
(* Message by message                                                      *)

\* open are the calls that the first n messages of t leave open, in order
LeftOpen(t, n, open) ==
  \/ n = 0 /\ open = <<>>
  \/ \E i \in 1 .. n :
       /\ t[i].role # "result" /\ \A j \in i + 1 .. n : t[j].role = "result"
       /\ Len(open) = Len(t[i].calls) - (n - i)
       /\ \A k \in 1 .. Len(open) : open[k] = t[i].calls[(n - i) + k]

\* The calls of a message are a sequence without repetition.
LEMMA CallsOf ==
  ASSUME NEW t \in Seq(Messages), NEW i \in DOMAIN t
  PROVE  /\ t[i] \in Messages /\ t[i].calls \in Seq(Call) /\ IsInjective(t[i].calls)
         /\ Len(t[i].calls) \in Nat /\ DOMAIN t[i].calls = 1 .. Len(t[i].calls)
<1>1. t[i] \in Messages
  BY ElementOfSeq, LenProperties
<1>2. QED
  BY <1>1, LoopAssumption DEF Messages

\* The next result answers the first of them.
LEMMA ResultIsNext ==
  ASSUME NEW t \in Seq(Messages), Attached(t), NEW n \in Nat, n + 1 \in DOMAIN t,
         t[n + 1].role = "result", NEW open \in Seq(Call), LeftOpen(t, n, open)
  PROVE  /\ Len(open) > 0 /\ IsInjective(open) /\ t[n + 1].of = open[1]
         /\ \A left \in Seq(Call) :
              /\ Len(left) = Len(open) - 1
              /\ \A k \in 1 .. Len(open) - 1 : left[k] = open[k + 1]
              => LeftOpen(t, n + 1, left)
<1> DEFINE N == Len(t)
<1>1. N \in Nat /\ DOMAIN t = 1 .. N /\ n + 1 \in 1 .. N
  OBVIOUS
<1> HIDE DEF N
<1>2. PICK o \in 1 .. N : /\ t[o].role = "assistant" /\ Answered(t, o)
                          /\ \E k \in DOMAIN t[o].calls : n + 1 = o + k
  BY <1>1 DEF Attached, HasOwner
<1>3. PICK l \in DOMAIN t[o].calls : n + 1 = o + l
  BY <1>2
<1>4. DOMAIN t[o].calls = 1 .. Len(t[o].calls) /\ Len(t[o].calls) \in Nat
  BY <1>1, CallsOf
<1>5. o \in 1 .. n
  BY <1>1, <1>3, <1>4
<1>6. PICK i \in 1 .. n :
        /\ t[i].role # "result" /\ \A j \in i + 1 .. n : t[j].role = "result"
        /\ Len(open) = Len(t[i].calls) - (n - i)
        /\ \A k \in 1 .. Len(open) : open[k] = t[i].calls[(n - i) + k]
  BY <1>5 DEF LeftOpen
<1>7. o = i
  <2>1. ~(o > i)
    <3>1. o > i => o \in i + 1 .. n
      BY <1>5
    <3>2. QED
      BY <1>2, <1>6, <3>1
  <2>2. ~(o < i)
    <3>1. ASSUME o < i
          PROVE  FALSE
      <4>1. i - o \in 1 .. Len(t[o].calls) /\ o + (i - o) = i
        BY <1>3, <1>4, <1>5, <3>1
      <4>2. t[o + (i - o)].role = "result"
        BY <1>2, <1>4, <4>1 DEF Answered
      <4>3. QED
        BY <1>6, <4>1, <4>2
    <3>2. QED
      BY <3>1
  <2>3. QED
    BY <1>5, <2>1, <2>2
<1>8. l = (n - i) + 1 /\ l <= Len(t[i].calls) /\ Len(t[i].calls) \in Nat
  BY <1>3, <1>4, <1>5, <1>7
<1>9. Len(open) > 0 /\ Len(open) \in Nat /\ DOMAIN open = 1 .. Len(open)
  BY <1>6, <1>8
<1>10. t[n + 1].of = open[1]
  <2>1. t[n + 1].of = t[i].calls[l]
    BY <1>2, <1>3, <1>7 DEF Answered
  <2>2. 1 \in 1 .. Len(open)
    BY <1>9
  <2>3. open[1] = t[i].calls[(n - i) + 1]
    BY <1>6, <2>2
  <2>4. QED
    BY <1>8, <2>1, <2>3
<1>11. IsInjective(open)
  <2>1. IsInjective(t[i].calls) /\ DOMAIN t[i].calls = 1 .. Len(t[i].calls)
    BY <1>2, <1>7, CallsOf, <1>1
  <2>2. SUFFICES ASSUME NEW x \in 1 .. Len(open), NEW y \in 1 .. Len(open),
                        open[x] = open[y]
                 PROVE  x = y
    BY <1>9 DEF IsInjective
  <2>3. (n - i) + x \in 1 .. Len(t[i].calls) /\ (n - i) + y \in 1 .. Len(t[i].calls)
    <3>1. PICK c \in Nat, d \in Nat : c = Len(t[i].calls) /\ d = n - i
      BY <1>8
    <3>2. Len(open) = c - d
      BY <1>6, <3>1
    <3>3. QED
      BY <3>1, <3>2
  <2>6. open[x] = t[i].calls[(n - i) + x] /\ open[y] = t[i].calls[(n - i) + y]
    BY <1>6
  <2>4. (n - i) + x = (n - i) + y
    BY <2>1, <2>2, <2>3, <2>6 DEF IsInjective
  <2>5. QED
    BY <2>4
<1>12. ASSUME NEW left \in Seq(Call), Len(left) = Len(open) - 1,
              \A k \in 1 .. Len(open) - 1 : left[k] = open[k + 1]
       PROVE  LeftOpen(t, n + 1, left)
  <2>1. \A j \in i + 1 .. n + 1 : t[j].role = "result"
    <3>1. \A j \in i + 1 .. n + 1 : j \in i + 1 .. n \/ j = n + 1
      OBVIOUS
    <3>2. QED
      BY <1>6, <3>1
  <2>2. Len(left) = Len(t[i].calls) - ((n + 1) - i)
    BY <1>6, <1>8, <1>12
  <2>3. ASSUME NEW k \in 1 .. Len(left)
        PROVE  left[k] = t[i].calls[((n + 1) - i) + k]
    <3>1. k \in 1 .. Len(open) - 1 /\ k + 1 \in 1 .. Len(open)
      BY <1>9, <1>12, <2>3
    <3>2. left[k] = open[k + 1] /\ open[k + 1] = t[i].calls[(n - i) + (k + 1)]
      BY <1>6, <1>12, <3>1
    <3>3. (n - i) + (k + 1) = ((n + 1) - i) + k
      BY <3>1
    <3>4. QED
      BY <3>2, <3>3
  <2>4. i \in 1 .. n + 1
    OBVIOUS
  <2>5. QED
    BY <1>6, <2>1, <2>2, <2>3, <2>4 DEF LeftOpen
<1>13. QED
  BY <1>9, <1>10, <1>11, <1>12

\* Stand-ins are no results.
LEMMA ClosingFindsNothing ==
  ASSUME NEW out \in Seq(Messages), NEW open \in Seq(Call), NEW u,
         u = out \o Unanswered(open)
  PROVE  u \in Seq(Messages) /\ ResultsIn(u) = ResultsIn(out)
<1>1. Closes(out, open, u)
  BY Closing
<1>2. PICK a \in Nat, b \in Nat : a = Len(out) /\ b = Len(open)
  OBVIOUS
<1>3. /\ u \in Seq(Messages) /\ Len(u) = a + b
      /\ \A i \in 1 .. a : u[i] = out[i]
      /\ \A k \in 1 .. b : ~IsResult(u[a + k])
  BY <1>1, <1>2 DEF Closes
<1>4. ASSUME NEW i \in 1 .. a + b, i > a
      PROVE  ~IsResult(u[i])
  <2>1. i - a \in 1 .. b /\ a + (i - a) = i
    BY <1>4
  <2>2. ~IsResult(u[a + (i - a)])
    BY <1>3, <2>1
  <2>3. QED
    BY <2>1, <2>2
<1>5. Len(out) <= Len(u) /\ \A i \in 1 .. Len(out) : u[i] = out[i]
  BY <1>2, <1>3
<1>6. \A i \in 1 .. Len(u) : i > Len(out) => ~IsResult(u[i])
  BY <1>2, <1>3, <1>4
<1>7. QED
  BY <1>3, <1>5, <1>6, FindsNoMore

\* What is shown of the first n messages of t, and the results among them
Shown(t, n, acc, found) ==
  /\ acc.out \in Seq(Messages) /\ acc.open \in Seq(Call)
  /\ Whole(acc.out \o Unanswered(acc.open)) /\ LeftOpen(t, n, acc.open)
  /\ ResultsIn(acc.out) = found

\* Nothing is shown of no messages.
LEMMA NothingIsShown ==
  ASSUME NEW t
  PROVE  Shown(t, 0, NothingShown, <<>>)
<1>1. NothingShown.out = <<>> /\ NothingShown.open = <<>>
  BY DEF NothingShown
<1>2. Unanswered(<<>>) = <<>> /\ <<>> \o <<>> = <<>>
  BY DEF Unanswered
<1>3. Whole(<<>>)
  BY DEF Whole
<1>4. <<>> \in Seq(Messages) /\ <<>> \in Seq(Call)
  OBVIOUS
<1>5. QED
  BY <1>1, <1>2, <1>3, <1>4, FindsNothing DEF Shown, LeftOpen

\* A result answers the first call that is open.
LEMMA ResultGoesOn ==
  ASSUME NEW t \in Seq(Messages), Attached(t), NEW n \in Nat, n + 1 \in DOMAIN t,
         NEW acc, NEW found, Shown(t, n, acc, found), t[n + 1].role = "result"
  PROVE  Shown(t, n + 1, Shows(acc, t[n + 1]), Finds(found, t[n + 1]))
<1>1. PICK m, out, open : m = t[n + 1] /\ out = acc.out /\ open = acc.open
  OBVIOUS
<1>2. /\ out \in Seq(Messages) /\ open \in Seq(Call) /\ Whole(out \o Unanswered(open))
      /\ LeftOpen(t, n, open) /\ ResultsIn(out) = found
  BY <1>1 DEF Shown
<1>3. m \in Messages /\ m.role = "result"
  BY <1>1, CallsOf
<1>4. /\ Len(open) > 0 /\ IsInjective(open) /\ m.of = open[1]
      /\ \A left \in Seq(Call) :
           /\ Len(left) = Len(open) - 1
           /\ \A k \in 1 .. Len(open) - 1 : left[k] = open[k + 1]
           => LeftOpen(t, n + 1, left)
  BY <1>1, <1>2, ResultIsNext
<1>5. PICK left : left = Without(open, m.of)
  OBVIOUS
<1>6. /\ left \in Seq(Call) /\ Len(left) = Len(open) - 1 /\ m.of \in Range(open)
      /\ \A k \in 1 .. Len(open) - 1 : left[k] = open[k + 1]
  BY <1>2, <1>4, <1>5, FirstIsTaken
<1>7. Shows(acc, m) = [out |-> Append(out, m), open |-> left]
  BY <1>1, <1>3, <1>5, <1>6 DEF Shows
<1>8. Whole(Append(out, m) \o Unanswered(left))
  BY <1>2, <1>3, <1>4, <1>6, ResultIsShown
<1>9. LeftOpen(t, n + 1, left)
  BY <1>4, <1>6
<1>10. ResultsIn(Append(out, m)) = Finds(found, m) /\ Append(out, m) \in Seq(Messages)
  BY <1>2, <1>3, FindsOneMore
<1>11. Shown(t, n + 1, Shows(acc, m), Finds(found, m))
  BY <1>6, <1>7, <1>8, <1>9, <1>10 DEF Shown
<1>12. QED
  BY <1>1, <1>11

\* Any other message closes what is open and opens its own calls.
LEMMA MessageGoesOn ==
  ASSUME NEW t \in Seq(Messages), Attached(t), NEW n \in Nat, n + 1 \in DOMAIN t,
         NEW acc, NEW found, Shown(t, n, acc, found), t[n + 1].role # "result"
  PROVE  Shown(t, n + 1, Shows(acc, t[n + 1]), Finds(found, t[n + 1]))
<1>1. PICK m, out, open, closed :
        /\ m = t[n + 1] /\ out = acc.out /\ open = acc.open
        /\ closed = out \o Unanswered(open)
  OBVIOUS
<1>2. /\ out \in Seq(Messages) /\ open \in Seq(Call) /\ Whole(closed)
      /\ ResultsIn(out) = found
  BY <1>1 DEF Shown
<1>3. /\ m \in Messages /\ m.role # "result" /\ m.calls \in Seq(Call)
      /\ Len(m.calls) \in Nat /\ Proper(m)
  BY <1>1, CallsOf DEF Attached
<1>4. Finds(found, m) = found /\ ~IsResult(m)
  BY <1>3 DEF Finds, IsResult
<1>5. closed \in Seq(Messages) /\ ResultsIn(closed) = found
  BY <1>1, <1>2, ClosingFindsNothing
<1>6. CASE m.stop \in Broken /\ m.of = 0
  <2>1. Shows(acc, m) = [out |-> closed, open |-> <<>>]
    BY <1>1, <1>3, <1>6 DEF Shows
  <2>2. Unanswered(<<>>) = <<>>
    BY DEF Unanswered
  <2>3. Whole(closed \o Unanswered(<<>>))
    <3>1. closed \o <<>> = closed
      BY <1>5
    <3>2. QED
      BY <1>2, <2>2, <3>1
  <2>4. m.calls = <<>>
    BY <1>3, <1>6 DEF Proper
  <2>5. LeftOpen(t, n + 1, <<>>)
    BY <1>1, <1>3, <2>4 DEF LeftOpen
  <2>6. Shown(t, n + 1, Shows(acc, m), Finds(found, m))
    BY <1>4, <1>5, <2>1, <2>3, <2>5 DEF Shown
  <2>7. QED
    BY <1>1, <2>6
<1>7. CASE ~(m.stop \in Broken /\ m.of = 0)
  <2>1. Shows(acc, m) = [out |-> Append(closed, m), open |-> m.calls]
    BY <1>1, <1>3, <1>7 DEF Shows, Expects
  <2>2. Whole(Append(closed, m) \o Unanswered(m.calls))
    BY <1>2, <1>3, <1>5, MessageIsShown
  <2>3. LeftOpen(t, n + 1, m.calls)
    <3>1. PICK e \in Nat : e = n + 1
      OBVIOUS
    <3>2. Len(m.calls) - (e - e) = Len(m.calls) /\ e \in 1 .. e /\ e + 1 .. e = {}
      BY <1>3, <3>1
    <3>3. \A k \in 1 .. Len(m.calls) : (e - e) + k = k
      BY <3>1
    <3>4. LeftOpen(t, e, m.calls)
      BY <1>1, <1>3, <3>1, <3>2, <3>3 DEF LeftOpen
    <3>5. QED
      BY <3>1, <3>4
  <2>4. ResultsIn(Append(closed, m)) = found /\ Append(closed, m) \in Seq(Messages)
    <3>1. ResultsIn(Append(closed, m)) = Finds(found, m)
      BY <1>3, <1>5, FindsOneMore
    <3>2. QED
      BY <1>3, <1>4, <1>5, <3>1
  <2>5. Shown(t, n + 1, Shows(acc, m), Finds(found, m))
    BY <1>3, <1>4, <2>1, <2>2, <2>3, <2>4 DEF Shown
  <2>6. QED
    BY <1>1, <2>5
<1>8. QED
  BY <1>6, <1>7

\* A transcript in which no result stands on its own is shown whole.
LEMMA ShownWhole ==
  ASSUME NEW t \in Seq(Messages), Attached(t)
  PROVE  Whole(Repaired(t)) /\ ResultsIn(Repaired(t)) = ResultsIn(t)
<1>1. PICK N \in Nat : N = Len(t) /\ DOMAIN t = 1 .. N
  OBVIOUS
<1>2. PICK f : /\ IsShowing(f, t, N)
               /\ Repaired(t) = f[N].out \o Unanswered(f[N].open)
  BY <1>1, RepairedIs
<1>3. PICK g : IsFinding(g, t, N) /\ ResultsIn(t) = g[N]
  BY <1>1, ResultsInIs
<1> DEFINE S == {n \in Nat : n <= N => Shown(t, n, f[n], g[n])}
<1>4. 0 \in S
  BY <1>2, <1>3, ShowingSteps, FindingSteps, NothingIsShown
<1>5. \A n \in Nat : n \in S => n + 1 \in S
  <2>1. SUFFICES ASSUME NEW n \in Nat, Shown(t, n, f[n], g[n]), n + 1 <= N
                 PROVE  Shown(t, n + 1, f[n + 1], g[n + 1])
    OBVIOUS
  <2>2. n + 1 \in 1 .. N /\ n + 1 - 1 = n
    BY <2>1
  <2>3. f[n + 1] = Shows(f[n], t[n + 1]) /\ g[n + 1] = Finds(g[n], t[n + 1])
    <3>1. f[n + 1] = Shows(f[n + 1 - 1], t[n + 1])
      BY <1>2, <2>2, ShowingSteps
    <3>2. g[n + 1] = Finds(g[n + 1 - 1], t[n + 1])
      BY <1>3, <2>2, FindingSteps
    <3>3. QED
      BY <2>2, <3>1, <3>2
  <2>4. n + 1 \in DOMAIN t
    BY <1>1, <2>2
  <2>5. Shown(t, n + 1, Shows(f[n], t[n + 1]), Finds(g[n], t[n + 1]))
    BY <2>1, <2>4, ResultGoesOn, MessageGoesOn
  <2>6. QED
    BY <2>3, <2>5
<1> HIDE DEF S
<1>6. N \in S
  BY <1>4, <1>5, Induction
<1>7. Shown(t, N, f[N], g[N])
  BY <1>6 DEF S
<1>8. PICK out, open : out = f[N].out /\ open = f[N].open
  OBVIOUS
<1>9. /\ out \in Seq(Messages) /\ open \in Seq(Call)
      /\ Repaired(t) = out \o Unanswered(open) /\ ResultsIn(out) = ResultsIn(t)
      /\ Whole(Repaired(t))
  BY <1>2, <1>3, <1>7, <1>8 DEF Shown
<1>10. ResultsIn(Repaired(t)) = ResultsIn(out)
  BY <1>9, ClosingFindsNothing
<1>11. QED
  BY <1>9, <1>10

\* However the calls of a reply end, and wherever a run was stopped, a request
\* shows every call with its one result behind it and every result there is
\* (_execute_tool_calls_parallel, _process_events, repair_incomplete_tool_calls).
THEOREM CallsAreAlwaysAnswered == Spec => []CallsAreAnswered
<1>1. IInv => RequestsAreWhole
  <2>1. SUFFICES ASSUME IInv, run.at \in {"asking", "closing"}
                 PROVE  /\ \A i \in DOMAIN Repaired(context) :
                             Repaired(context)[i].role = "assistant" =>
                               Answered(Repaired(context), i)
                        /\ ResultsIn(Repaired(context)) = ResultsIn(context)
    BY DEF RequestsAreWhole
  <2>2. context \in Seq(Messages) /\ Attached(context)
    BY <2>1 DEF IInv, TypeOK, TranscriptFits, ResultsFollow
  <2>3. QED
    BY <2>2, ShownWhole DEF Whole
<1>2. IInv => ResultsFollowCalls /\ ContextIsTranscript
  BY DEF IInv, TranscriptFits, ResultsFollow, AnswersFollow, ResultsFollowCalls,
     ContextIsTranscript
<1>3. IInv => CallsAreAnswered
  BY <1>1, <1>2 DEF CallsAreAnswered
<1>4. QED
  BY <1>3, Invariance, PTL

-----------------------------------------------------------------------------
(* Input reaches its run                                                   *)

\* A member that none exceeds is the greatest.
LEMMA Maximum ==
  ASSUME NEW S \in SUBSET Nat, NEW p \in S, \A i \in S : ~(i > p)
  PROVE  Max(S) = p
<1>1. \A y \in S : p >= y
  OBVIOUS
<1>2. \A x \in S : x >= p => x = p
  OBVIOUS
<1>3. QED
  BY <1>1, <1>2 DEF Max

\* The last prompt and the last reply are what the properties call them.
LEMMA LastPrompt ==
  ASSUME NEW t \in Seq(Messages), NEW p, IsPrompt(t, p)
  PROVE  Inputs(t) = Users(t, p)
<1>1. PICK S : S = {i \in DOMAIN t : t[i] = User(0)}
  OBVIOUS
<1>2. S \subseteq Nat /\ p \in S /\ \A i \in S : ~(i > p)
  BY <1>1 DEF IsPrompt
<1>3. Max(S) = p
  BY <1>2, Maximum
<1>4. QED
  BY <1>1, <1>3 DEF Inputs, Users

\* The status of a run speaks of the last reply.
LEMMA LastReplyStops ==
  ASSUME IInv, NEW stop, LastStops(transcript, stop)
  PROVE  LastReply.stop = stop
<1>1. PICK r \in DOMAIN transcript : IsLast(transcript, r) /\ transcript[r].stop = stop
  BY DEF LastStops
<1>2. PICK S : S = {i \in DOMAIN transcript : transcript[i].role = "assistant"}
  OBVIOUS
<1>3. S \subseteq Nat /\ r \in S /\ \A i \in S : ~(i > r)
  <2>1. transcript \in Seq(Messages)
    BY DEF IInv, TypeOK
  <2>2. DOMAIN transcript \subseteq Nat
    BY <2>1
  <2>3. QED
    BY <1>1, <1>2, <2>2 DEF IsLast
<1>4. Max(S) = r
  BY <1>3, Maximum
<1>5. QED
  BY <1>1, <1>2, <1>4 DEF LastReply

\* As many messages as numbers, since each number is heard once.
LEMMA OneMessageEach ==
  ASSUME NEW t \in Seq(Messages), NEW p, HeardOnce(t, p)
  PROVE  Cardinality(Users(t, p)) = Cardinality(Heard(t, p))
<1> DEFINE f == [i \in Users(t, p) |-> t[i].of]
<1>1. IsFiniteSet(Users(t, p))
  <2>1. Users(t, p) \subseteq 1 .. Len(t) /\ Len(t) \in Nat
    BY DEF Users
  <2>2. IsFiniteSet(1 .. Len(t))
    BY <2>1, FS_Interval
  <2>3. QED
    BY <2>1, <2>2, FS_Subset
<1>2. f \in Bijection(Users(t, p), Heard(t, p))
  BY DEF Heard, HeardOnce, Bijection, Injection, Surjection, IsInjective
<1>3. QED
  BY <1>1, <1>2, FS_Bijection DEF ExistsBijection

\* Input that a run accepted and was not stopped from using has reached the
\* model once, and none reaches another run (PendingMessageQueue, _finish_run).
THEOREM InputAlwaysReachesItsRun == Spec => []InputReachesItsRun
<1>1. ASSUME IInv
      PROVE  InputReachesItsRun
  <2>1. run.at = "idle" => steering = <<>> /\ followUp = <<>>
    BY <1>1 DEF IInv, InputsFit
  <2>2. ASSUME run.at \in {"asking", "ending"}
        PROVE  LET at == Inputs(transcript) IN
               /\ \A i, j \in at : transcript[i].of = transcript[j].of => i = j
               /\ \A i \in at : transcript[i].of > run.first
               /\ run.how = "done" => Cardinality(at) = inputs - run.first
    <3>1. PICK p : InputFits(p)
      BY <1>1, <2>2 DEF IInv, InputsFit
    <3>2. /\ transcript \in Seq(Messages) /\ inputs \in Nat /\ run.first \in Nat
          /\ run.first <= inputs
      BY <1>1 DEF IInv, TypeOK, Runs, InputsFit
    <3>3. Inputs(transcript) = Users(transcript, p)
      BY <3>1, <3>2, LastPrompt DEF InputFits
    <3>4. \A i, j \in Users(transcript, p) : transcript[i].of = transcript[j].of => i = j
      BY <3>1 DEF InputFits, HeardOnce
    <3>5. ASSUME NEW i \in Users(transcript, p)
          PROVE  transcript[i].of > run.first
      <4>1. transcript[i].of \in Heard(transcript, p)
        BY DEF Heard
      <4>2. transcript[i].of \in run.first + 1 .. inputs
        BY <3>1, <4>1 DEF InputFits
      <4>3. QED
        BY <3>2, <4>2
    <3>6. ASSUME run.how = "done"
          PROVE  Cardinality(Users(transcript, p)) = inputs - run.first
      <4>1. steering = <<>> /\ followUp = <<>>
        BY <1>1, <2>2, <3>6, LoopAssumption DEF IInv, InputsFit
      <4>2. Queued = {}
        BY <4>1 DEF Queued, Range
      <4>3. Heard(transcript, p) = run.first + 1 .. inputs
        BY <3>1, <4>2 DEF InputFits
      <4>4. Cardinality(run.first + 1 .. inputs) = inputs - run.first
        <5>1. run.first + 1 \in Int /\ inputs \in Int
          BY <3>2
        <5>2. Cardinality(run.first + 1 .. inputs) =
                IF run.first + 1 > inputs THEN 0 ELSE inputs - (run.first + 1) + 1
          BY <5>1, FS_Interval
        <5>3. QED
          BY <3>2, <5>2
      <4>5. Cardinality(Users(transcript, p)) = Cardinality(Heard(transcript, p))
        BY <3>1, <3>2, OneMessageEach DEF InputFits
      <4>6. QED
        BY <4>3, <4>4, <4>5
    <3>7. QED
      BY <3>3, <3>4, <3>5, <3>6
  <2>3. QED
    BY <2>1, <2>2 DEF InputReachesItsRun
<1>2. QED
  BY <1>1, Invariance, PTL

\* A run that ended runs nothing any more, and its status says how its last
\* reply ended (_stream_assistant_response, _run_with_lifecycle).
THEOREM RunsAlwaysEndWholly == Spec => []RunsEndWholly
<1>1. ASSUME IInv
      PROVE  RunsEndWholly
  <2>1. ASSUME run.at \in {"idle", "ending"}
        PROVE  stream.at = "off" /\ Running = {}
    BY <1>1, <2>1 DEF IInv, StreamFits, CallsFit, Running, NoCalls, NoCall
  <2>2. ASSUME run.at \in {"idle", "ending"}
        PROVE  /\ run.status = "completed" => LastReply.stop = "stop"
               /\ run.status = "failed" => LastReply.stop = "error"
    BY <1>1, <2>2, LastReplyStops DEF IInv, LastFits
  <2>3. QED
    BY <2>1, <2>2 DEF RunsEndWholly
<1>2. QED
  BY <1>1, Invariance, PTL

-----------------------------------------------------------------------------
(* Work starts only if it is wanted                                        *)

Wanted ==
  /\ stream'.attempt > stream.attempt => ~run.signal /\ stream.seen = {}
  /\ Running' \subseteq Running \/ ~run.signal

\* No attempt is made and no call begins to run.
Calm ==
  /\ stream' = stream \/ stream' \in {NoStream, Opens}
       \/ stream'.attempt = stream.attempt
  /\ call' = call \/ \A c \in Call : call'[c].at = "running" => call[c].at = "running"

\* A step that starts no attempt and no tool starts none that is unwanted.
LEMMA CalmIsWanted ==
  ASSUME IInv, Calm
  PROVE  Wanted
<1>1. stream.attempt \in Nat
  BY DEF IInv, TypeOK, Streams
<1>2. ~(stream'.attempt > stream.attempt)
  BY <1>1 DEF Calm, NoStream, Opens
<1>3. Running' \subseteq Running
  BY DEF Calm, Running
<1>4. QED
  BY <1>2, <1>3 DEF Wanted

\* A tool starts only in a run that was not stopped.
LEMMA CallsWanted ==
  ASSUME IInv, NEW c \in Call,
         \/ Refuses(c) \/ AsksHook(c) \/ Starts(c)
         \/ \E allowed \in BOOLEAN : HookAnswers(c, allowed)
         \/ \E outcome \in Outcomes : ToolEnds(c, outcome)
  PROVE  Wanted
<1>1. call \in [Call -> Calls]
  BY DEF IInv, TypeOK
<1>2. PICK at \in {"asked", "ready", "running", "done"}, outcome \in Outcomes \cup {None} :
        CallBecomes(c, at, outcome) /\ (at = "running" => ~run.signal)
  <2>1. CASE Refuses(c)
    BY <2>1 DEF Refuses, Outcomes
  <2>2. CASE AsksHook(c)
    BY <2>2 DEF AsksHook
  <2>3. CASE Starts(c)
    BY <2>3 DEF Starts, Outcomes
  <2>4. ASSUME NEW allowed \in BOOLEAN, HookAnswers(c, allowed)
        PROVE  \E at \in {"asked", "ready", "running", "done"}, outcome \in Outcomes \cup {None} :
                 CallBecomes(c, at, outcome) /\ (at = "running" => ~run.signal)
    BY <2>4 DEF HookAnswers, Outcomes
  <2>5. ASSUME NEW outcome \in Outcomes, ToolEnds(c, outcome)
        PROVE  CallBecomes(c, "done", outcome)
    BY <2>5 DEF ToolEnds
  <2>6. QED
    BY <2>1, <2>2, <2>3, <2>4, <2>5
<1>3. stream' = stream /\ call' = [call EXCEPT ![c] = [at |-> at, outcome |-> outcome]]
  BY <1>2 DEF CallBecomes
<1>4. CASE at = "running"
  <2>1. stream.attempt \in Nat
    BY DEF IInv, TypeOK, Streams
  <2>2. QED
    BY <1>2, <1>3, <1>4, <2>1 DEF Wanted
<1>5. CASE at # "running"
  BY <1>1, <1>3, <1>5, CalmIsWanted DEF Calm
<1>6. QED
  BY <1>4, <1>5

\* An attempt follows a delay only if nothing was seen of the one before.
LEMMA StreamWanted ==
  ASSUME IInv, BackoffEnds
  PROVE  Wanted
<1>1. stream.seen = {} /\ call' = call
  BY DEF IInv, StreamFits, BackoffEnds
<1>2. CASE run.signal
  <2>1. stream' = [stream EXCEPT !.at = "ended"]
    BY <1>2 DEF BackoffEnds
  <2>2. stream'.attempt = stream.attempt
    BY <2>1 DEF IInv, TypeOK, Streams
  <2>3. QED
    BY <1>1, <2>2, CalmIsWanted DEF Calm
<1>3. CASE ~run.signal
  BY <1>1, <1>3 DEF Wanted
<1>4. QED
  BY <1>2, <1>3

\* How a turn ends is calm.
LEMMA TurnsAreCalm ==
  ASSUME NEW ms, NEW more \in BOOLEAN, NEW how, NEW status,
         \/ Dies
         \/ Ends(how, ms, status) /\ (call' = call \/ call' = NoCalls)
         \/ GoesOn(ms, more) /\ (call' = call \/ call' = NoCalls)
  PROVE  Calm
<1>1. stream' \in {NoStream, Opens}
  BY DEF Dies, Ends, GoesOn, Asks
<1>2. call' = call \/ call' = NoCalls
  BY DEF Dies
<1>3. QED
  BY <1>1, <1>2 DEF Calm, NoCalls, NoCall

\* Once a run was stopped it starts no attempt and no tool, not even one that
\* is approved late; and another attempt is made only if nothing of the last
\* one was seen (retrying_stream, _prepare_tool_call).
THEOREM WorkAlwaysStartsOnlyIfWanted == Spec => WorkStartsOnlyIfWanted
<1>1. ASSUME IInv, Next
      PROVE  Wanted
  <2>1. CASE Prompt \/ Steer \/ FollowUp \/ Abort \/ RunEnds \/ RequestFails \/ StopsListening
    BY <1>1, <2>1, CalmIsWanted
       DEF Calm, Prompt, Steer, FollowUp, Abort, RunEnds, RequestFails, StopsListening
  <2>2. CASE Cancel
    <3>1. CASE Dies
      BY <1>1, <3>1, TurnsAreCalm, CalmIsWanted
    <3>2. CASE ~Dies
      BY <1>1, <2>2, <3>2, CalmIsWanted DEF Calm, Cancel
    <3>3. QED
      BY <3>1, <3>2
  <2>3. CASE Speaks
    BY <1>1, <2>3, CalmIsWanted DEF Calm, Speaks, IInv, TypeOK, Streams
  <2>4. ASSUME NEW final \in Finals, NEW transient \in BOOLEAN, AttemptEnds(final, transient)
        PROVE  Wanted
    <3>1. stream'.attempt = stream.attempt /\ call' = call
      BY <1>1, <2>4 DEF AttemptEnds, IInv, TypeOK, Streams
    <3>2. QED
      BY <1>1, <3>1, CalmIsWanted DEF Calm
  <2>5. CASE BackoffEnds
    BY <1>1, <2>5, StreamWanted
  <2>6. CASE TakesReply
    <3>1. CASE stream' = NoStream /\ call' = Waiting(stream.final.calls)
      <4>1. \A c \in Call : call'[c].at # "running"
        BY <3>1 DEF Waiting, NoCall
      <4>2. QED
        BY <1>1, <3>1, <4>1, CalmIsWanted DEF Calm
    <3>2. ASSUME NEW how, NEW status, Ends(how, <<stream.final>>, status), call' = call
          PROVE  Wanted
      BY <1>1, <3>2, TurnsAreCalm, CalmIsWanted
    <3>3. CASE GoesOn(<<stream.final>>, FALSE) /\ call' = call
      BY <1>1, <3>3, TurnsAreCalm, CalmIsWanted
    <3>4. QED
      BY <2>6, <3>1, <3>2, <3>3 DEF TakesReply
  <2>7. CASE BatchEnds
    <3>1. CASE Dies
      BY <1>1, <3>1, TurnsAreCalm, CalmIsWanted
    <3>2. ASSUME NEW how, Ends(how, Results, run.status), call' = NoCalls
          PROVE  Wanted
      BY <1>1, <3>2, TurnsAreCalm, CalmIsWanted
    <3>3. CASE GoesOn(Results, TRUE) /\ call' = NoCalls
      BY <1>1, <3>3, TurnsAreCalm, CalmIsWanted
    <3>4. QED
      BY <2>7, <3>1, <3>2, <3>3 DEF BatchEnds
  <2>8. ASSUME NEW calls \in Batches, StreamCloses(calls)
        PROVE  Wanted
    <3>1. CASE Dies
      BY <1>1, <3>1, TurnsAreCalm, CalmIsWanted
    <3>2. CASE /\ Ends("aborted", <<ReplyOf(Visible, calls, "aborted")>>, "cancelled")
               /\ call' = call
      BY <1>1, <3>2, TurnsAreCalm, CalmIsWanted
    <3>3. QED
      BY <2>8, <3>1, <3>2 DEF StreamCloses
  <2>9. ASSUME NEW c \in Call,
               \/ Refuses(c) \/ AsksHook(c) \/ Starts(c)
               \/ \E allowed \in BOOLEAN : HookAnswers(c, allowed)
               \/ \E outcome \in Outcomes : ToolEnds(c, outcome)
        PROVE  Wanted
    BY <1>1, <2>9, CallsWanted
  <2>10. QED
    BY <1>1, <2>1, <2>2, <2>3, <2>4, <2>5, <2>6, <2>7, <2>8, <2>9
       DEF Next, ByUser, Provider, Loop, Tools
<1>2. IInv /\ [Next]_vars =>
        [/\ stream'.attempt > stream.attempt => ~run.signal /\ stream.seen = {}
         /\ Running' \subseteq Running \/ ~run.signal]_vars
  BY <1>1 DEF Wanted
<1>3. QED
  BY <1>2, Invariance, PTL DEF Spec, WorkStartsOnlyIfWanted

=============================================================================
