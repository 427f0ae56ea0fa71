------------------------ MODULE CarlineStore_proofs ------------------------
(***************************************************************************)
(* Proofs about the interview trainer's store, for any number of requests  *)
(* in flight, of answers and of ticks of the clock: what a user reads      *)
(* agrees with what the user was told, and recommendations leave no        *)
(* question out while there is room.                                       *)
(***************************************************************************)
EXTENDS CarlineStore, FiniteSetTheorems, SequenceTheorems, TLAPS

-----------------------------------------------------------------------------
(* The inductive invariant *)

Scores == {Evaluate(s) : s \in Submissions} \cup {0}
Answers == [id : Nat, user : Users, question : Questions, score : Scores,
            status : {"scored"}, at : Nat]
Replies == Seq(Answers) \cup Seq(Nat) \cup Seq({"scored", "todo"})
               \cup {Recommend(t, answers) : t \in Seeds, answers \in Seq(Answers)}
Ops == {"none", "submit", "answers", "status", "recommend"}
Requests == [op : Ops, done : BOOLEAN, user : {0, 1, 2}, question : {0} \cup Questions,
             score : Scores, known : SUBSET Nat, reply : Replies]

(* an answer is numbered by its place *)
Numbered ==
    /\ userAnswers \in Seq(Answers)
    /\ \A i \in 1 .. Len(userAnswers) : userAnswers[i].id = i

Saved == 1 .. Len(userAnswers)

RequestsTyped == req \in [Clients -> Requests] /\ now \in Nat /\ tags \in Seeds

(* what has been acknowledged has been saved                               *)
Promised == acked \subseteq Saved /\ \A c \in Clients : req[c].known \subseteq Saved

(* what the store is asked for, and what the answer to a submission names  *)
Submitting(r) ==
    r.op = "submit" => /\ r.user \in Users /\ r.question \in Questions
                       /\ r.done => \E id \in Saved : r.reply = <<id>>

(* a list of answers is complete, free of repetitions and sorted           *)
ListRead(r) ==
    /\ r.op = "answers" => r.user = 1
    /\ r.op = "answers" /\ r.done =>
           /\ r.known \subseteq {r.reply[i].id : i \in DOMAIN r.reply}
           /\ \A i, j \in DOMAIN r.reply :
                 i < j => r.reply[i].id # r.reply[j].id /\ r.reply[i].at >= r.reply[j].at

(* the answers of a user to a question *)
Own(r) == {i \in Saved : userAnswers[i].user = r.user /\ userAnswers[i].question = r.question}

StatusRead(r) ==
    r.op = "status" /\ r.done =>
        /\ Own(r) \cap r.known # {} => r.reply = <<"scored">>
        /\ Own(r) = {} => r.reply = <<"todo">>

Told == \A c \in Clients : Submitting(req[c]) /\ ListRead(req[c]) /\ StatusRead(req[c])

Inv == Numbered /\ RequestsTyped /\ Promised /\ Told

-----------------------------------------------------------------------------
(* What the invariant says of the property *)

(* Answers are numbered by their places. *)
LEMMA SavedAre ==
    ASSUME Numbered
    PROVE  /\ Len(userAnswers) \in Nat /\ DOMAIN userAnswers = Saved
           /\ \A i \in Saved : userAnswers[i] \in Answers /\ userAnswers[i].id = i
           /\ ToSet(userAnswers) = {userAnswers[i] : i \in Saved}
<1>1. Len(userAnswers) \in Nat /\ DOMAIN userAnswers = Saved
  BY DEF Numbered, Saved
<1>2. \A i \in Saved : userAnswers[i] \in Answers /\ userAnswers[i].id = i
  BY <1>1 DEF Numbered, Saved
<1>. QED
  BY <1>1, <1>2 DEF ToSet

(* The invariant contains the property. *)
LEMMA InvIsEnough == Inv => ReadsSeeAcknowledged
<1>. SUFFICES ASSUME Inv PROVE ReadsSeeAcknowledged
  OBVIOUS
<1>1. ASSUME NEW r \in Replied("answers")
      PROVE  /\ r.known \subseteq {r.reply[i].id : i \in DOMAIN r.reply}
             /\ \A i, j \in DOMAIN r.reply :
                   i < j => r.reply[i].id # r.reply[j].id /\ r.reply[i].at >= r.reply[j].at
  BY <1>1 DEF Replied, Inv, Told, ListRead
<1>2. ASSUME NEW r \in Replied("status")
      PROVE  LET own == {a \in ToSet(userAnswers) : a.user = r.user /\ a.question = r.question}
             IN  /\ (\E a \in own : a.id \in r.known) => r.reply = <<"scored">>
                 /\ own = {} => r.reply = <<"todo">>
  <2>. DEFINE own == {a \in ToSet(userAnswers) : a.user = r.user /\ a.question = r.question}
  <2>1. StatusRead(r) /\ r.op = "status" /\ r.done
    BY <1>2 DEF Replied, Inv, Told
  <2>2. ToSet(userAnswers) = {userAnswers[i] : i \in Saved}
        /\ \A i \in Saved : userAnswers[i].id = i
    BY SavedAre DEF Inv
  <2>3. (\E a \in own : a.id \in r.known) => Own(r) \cap r.known # {}
    BY <2>2 DEF Own
  <2>4. own = {} => Own(r) = {}
    BY <2>2 DEF Own
  <2>. QED
    BY <2>1, <2>3, <2>4 DEF StatusRead
<1>. QED
  BY <1>1, <1>2 DEF ReadsSeeAcknowledged

-----------------------------------------------------------------------------
(* Reading *)

(* a nonempty set of numbers has a least one *)
LEMMA LeastNumber ==
    ASSUME NEW I \in SUBSET Nat, I # {}
    PROVE  Min(I) \in I /\ \A j \in I : Min(I) <= j
<1>. DEFINE R == {ss \in Nat \X Nat : ss[1] < ss[2]}
<1>1. IsWellFoundedOn(R, Nat)
  BY NatLessThanWellFounded DEF OpToRel
<1>2. \A x, y \in Nat : ~(<<y, x>> \in R) => x <= y
  <2>1. \A x, y \in Nat : <<y, x>> \in Nat \X Nat /\ <<y, x>>[1] = y /\ <<y, x>>[2] = x
    OBVIOUS
  <2>2. \A x, y \in Nat : y < x => <<y, x>> \in R
    BY <2>1
  <2>. QED
    BY <2>2
<1>. HIDE DEF R
<1>3. \E x \in I : \A y \in I : ~(<<y, x>> \in R)
  BY <1>1, WFMin
<1>4. \E x \in I : \A y \in I : x <= y
  BY <1>2, <1>3
<1>. QED
  BY <1>4 DEF Min

(* an ordering of a finite set names each of its elements once *)
LEMMA OrderingIsComplete ==
    ASSUME NEW S, IsFiniteSet(S), NEW s \in SetToSeqs(S)
    PROVE  /\ s \in Seq(S) /\ DOMAIN s = 1 .. Len(s)
           /\ \A i, j \in 1 .. Len(s) : i # j => s[i] # s[j]
           /\ \A x \in S : \E i \in 1 .. Len(s) : s[i] = x
<1>. DEFINE n == Cardinality(S)
<1>1. n \in Nat
  BY FS_CardinalityType
<1>2. s \in [1 .. n -> S] /\ \A i, j \in 1 .. n : i # j => s[i] # s[j]
  BY DEF SetToSeqs
<1>. HIDE DEF n
<1>3. s \in Seq(S) /\ Len(s) = n /\ DOMAIN s = 1 .. n
  BY <1>1, <1>2
<1>4. s \in Injection(1 .. n, S)
  BY <1>2 DEF Injection, IsInjective
<1>5. Cardinality(1 .. n) = n
  BY <1>1, FS_Interval
<1>6. s \in Surjection(1 .. n, S)
  BY <1>4, <1>5, FS_Injection DEF n
<1>7. \A x \in S : \E i \in 1 .. n : s[i] = x
  BY <1>6 DEF Surjection
<1>. QED
  BY <1>2, <1>3, <1>7

(* what a user's list is read from *)
LEMMA NewestIs ==
    ASSUME Numbered, NEW user, NEW answers \in Newest(user)
    PROVE  /\ answers \in Seq(Answers) /\ DOMAIN answers = 1 .. Len(answers)
           /\ \A i \in 1 .. Len(answers) :
                 \E k \in Saved : userAnswers[k].user = user /\ answers[i] = userAnswers[k]
           /\ \A k \in Saved : userAnswers[k].user = user =>
                 \E i \in 1 .. Len(answers) : answers[i] = userAnswers[k]
           /\ \A i, j \in 1 .. Len(answers) : i < j =>
                 answers[i].id # answers[j].id /\ answers[i].at >= answers[j].at
<1>. DEFINE own == {a \in ToSet(userAnswers) : a.user = user}
<1>1. /\ Len(userAnswers) \in Nat /\ DOMAIN userAnswers = Saved
      /\ \A i \in Saved : userAnswers[i] \in Answers /\ userAnswers[i].id = i
      /\ ToSet(userAnswers) = {userAnswers[i] : i \in Saved}
  BY SavedAre
<1>2. IsFiniteSet(ToSet(userAnswers))
  <2>1. IsFiniteSet(Saved)
    BY <1>1, FS_Interval DEF Saved
  <2>2. userAnswers \in Surjection(Saved, ToSet(userAnswers))
    <3>1. userAnswers \in [Saved -> ToSet(userAnswers)]
      BY <1>1 DEF Numbered
    <3>. QED
      BY <1>1, <3>1 DEF Surjection
  <2>. QED
    BY <2>1, <2>2, FS_Surjection
<1>3. IsFiniteSet(own)
  BY <1>2, FS_Subset
<1>4. /\ answers \in SetToSeqs(own)
      /\ \A i, j \in 1 .. Len(answers) : i < j => answers[i].at >= answers[j].at
  BY DEF Newest
<1>5. \A a \in own : \E k \in Saved : userAnswers[k].user = user /\ a = userAnswers[k]
  BY <1>1
<1>6. \A k \in Saved : userAnswers[k].user = user => userAnswers[k] \in own
  BY <1>1
<1>7. \A a \in own : a \in Answers /\ userAnswers[a.id] = a
  BY <1>1
<1>. HIDE DEF own
<1>8. /\ answers \in Seq(own) /\ DOMAIN answers = 1 .. Len(answers)
      /\ \A i, j \in 1 .. Len(answers) : i # j => answers[i] # answers[j]
      /\ \A x \in own : \E i \in 1 .. Len(answers) : answers[i] = x
  BY <1>3, <1>4, OrderingIsComplete
<1>9. \A i \in 1 .. Len(answers) : answers[i] \in own
  BY <1>8
<1>10. Len(answers) \in Nat
  BY <1>8
<1>11. answers \in Seq(Answers)
  <2>1. answers \in [1 .. Len(answers) -> Answers]
    BY <1>7, <1>8, <1>9
  <2>. QED
    BY <1>10, <2>1
<1>12. \A i, j \in 1 .. Len(answers) : i < j => answers[i].id # answers[j].id
  BY <1>7, <1>8, <1>9, <1>10
<1>. QED
  BY <1>4, <1>5, <1>6, <1>8, <1>9, <1>11, <1>12

(* the status is that of an answer to the question, if there is one *)
LEMMA StatusIs ==
    ASSUME NEW answers \in Seq(Answers), NEW question
    PROVE  /\ StatusOf(answers, question) \in {"scored", "todo"}
           /\ StatusOf(answers, question) = "todo"
                 <=> ~\E i \in 1 .. Len(answers) : answers[i].question = question
<1>. DEFINE own == {i \in 1 .. Len(answers) : answers[i].question = question}
<1>1. \A i \in 1 .. Len(answers) : answers[i] \in Answers
  OBVIOUS
<1>2. own \in SUBSET Nat /\ Len(answers) \in Nat
  OBVIOUS
<1>3. StatusOf(answers, question) = IF own = {} THEN "todo" ELSE answers[Min(own)].status
  BY DEF StatusOf
<1>4. own # {} => answers[Min(own)].status = "scored"
  <2>1. own # {} => Min(own) \in own
    BY <1>2, LeastNumber
  <2>. QED
    BY <1>1, <2>1 DEF Answers
<1>. QED
  BY <1>3, <1>4

-----------------------------------------------------------------------------
(* The steps *)

(* A client without a request. *)
LEMMA NoReqTyped ==
    NoReq \in Requests /\ Submitting(NoReq) /\ ListRead(NoReq) /\ StatusRead(NoReq)
<1>1. <<>> \in Replies
  BY DEF Replies
<1>2. NoReq \in Requests
  BY <1>1 DEF NoReq, Requests, Ops, Scores
<1>3. NoReq.op = "none"
  BY DEF NoReq
<1>. QED
  BY <1>2, <1>3 DEF Submitting, ListRead, StatusRead

(* The invariant holds at first. *)
LEMMA InitHolds == Init => Inv
<1>. SUFFICES ASSUME Init PROVE Inv
  OBVIOUS
<1>1. userAnswers = <<>> /\ acked = {} /\ now = 0 /\ \A c \in Clients : req[c] = NoReq
  BY DEF Init
<1>2. Numbered
  BY <1>1 DEF Numbered
<1>3. RequestsTyped
  BY NoReqTyped DEF Init, RequestsTyped
<1>4. Promised
  <2>1. NoReq.known = {}
    BY DEF NoReq
  <2>. QED
    BY <1>1, <2>1 DEF Promised
<1>5. Told
  BY <1>1, NoReqTyped DEF Told
<1>. QED
  BY <1>2, <1>3, <1>4, <1>5 DEF Inv

(* a step that leaves the answers alone and changes one request *)
LEMMA RequestChanges ==
    ASSUME Inv, NEW c \in Clients, NEW r \in Requests, req' = [req EXCEPT ![c] = r],
           UNCHANGED <<userAnswers, now, tags>>, acked' \subseteq Saved, r.known \subseteq Saved,
           Submitting(r), ListRead(r), StatusRead(r)
    PROVE  Inv'
<1>1. Numbered'
  BY DEF Inv, Numbered
<1>2. req \in [Clients -> Requests] /\ now' \in Nat /\ tags' \in Seeds
  BY DEF Inv, RequestsTyped
<1>3. \A d \in Clients : req'[d] = IF d = c THEN r ELSE req[d]
  BY <1>2
<1>4. RequestsTyped'
  <2>1. req' \in [Clients -> Requests]
    BY <1>2
  <2>. QED
    BY <1>2, <2>1 DEF RequestsTyped
<1>5. Promised'
  BY <1>3 DEF Inv, Promised, Saved
<1>6. \A d \in Clients :
          Submitting(req'[d]) /\ ListRead(req'[d]) /\ StatusRead(req'[d])
  BY <1>3 DEF Inv, Told
<1>7. Told'
  <2>1. Saved' = Saved /\ \A q : Own(q)' = Own(q)
    BY DEF Saved, Own
  <2>. QED
    BY <1>6, <2>1 DEF Told, Submitting, ListRead, StatusRead
<1>. QED
  BY <1>1, <1>4, <1>5, <1>7 DEF Inv

(* A submission arrives. *)
LEMMA SubmitKeeps == ASSUME Inv, NEW c \in Clients, Submit(c) PROVE Inv'
<1>1. PICK s \in Submissions :
          /\ s.user \in Users /\ s.question \in Questions
          /\ Ask(c, [NoReq EXCEPT !.op = "submit", !.user = s.user, !.question = s.question,
                                  !.score = Evaluate(s)])
  BY DEF Submit
<1>. DEFINE r == [NoReq EXCEPT !.op = "submit", !.user = s.user, !.question = s.question,
                               !.score = Evaluate(s)]
<1>2. Evaluate(s) \in Scores /\ s.user \in {0, 1, 2}
  BY <1>1 DEF Scores, Users
<1>3. /\ r \in Requests /\ r.op = "submit" /\ r.user = s.user /\ r.question = s.question
      /\ ~r.done /\ r.known = {}
  BY <1>1, <1>2, NoReqTyped DEF NoReq, Requests, Ops
<1>4. req' = [req EXCEPT ![c] = r] /\ UNCHANGED <<userAnswers, now, tags, acked>>
  BY <1>1 DEF Ask, Submit
<1>. HIDE DEF r
<1>5. Submitting(r) /\ ListRead(r) /\ StatusRead(r)
  BY <1>1, <1>3 DEF Submitting, ListRead, StatusRead
<1>6. acked' \subseteq Saved /\ r.known \subseteq Saved
  BY <1>3, <1>4 DEF Inv, Promised
<1>. QED
  BY <1>3, <1>4, <1>5, <1>6, RequestChanges

(* a reading request remembers what had been acknowledged when it came *)
LEMMA AskKeeps ==
    ASSUME Inv, NEW c \in Clients, NEW r \in Requests, Ask(c, r),
           UNCHANGED <<userAnswers, now, tags, acked>>, r.op \in {"answers", "status", "recommend"},
           ~r.done, r.known = acked, r.op = "answers" => r.user = 1
    PROVE  Inv'
<1>1. req' = [req EXCEPT ![c] = r]
  BY DEF Ask
<1>2. acked' \subseteq Saved /\ r.known \subseteq Saved
  BY DEF Inv, Promised
<1>3. Submitting(r) /\ ListRead(r) /\ StatusRead(r)
  BY DEF Submitting, ListRead, StatusRead
<1>. QED
  BY <1>1, <1>2, <1>3, RequestChanges

(* A read arrives: what it must see is what has been acknowledged by now. *)
LEMMA QueryKeeps == ASSUME Inv, NEW c \in Clients, Query(c) PROVE Inv'
<1>1. acked \in SUBSET Nat /\ UNCHANGED <<userAnswers, now, tags, acked>>
  BY DEF Inv, Promised, Saved, Numbered, Query
<1>2. NoReq \in Requests /\ ~NoReq.done
  BY NoReqTyped DEF NoReq
<1>3. CASE Ask(c, [NoReq EXCEPT !.op = "answers", !.user = 1, !.known = acked])
  <2>. DEFINE r == [NoReq EXCEPT !.op = "answers", !.user = 1, !.known = acked]
  <2>1. r \in Requests /\ r.op = "answers" /\ r.user = 1 /\ ~r.done /\ r.known = acked
    BY <1>1, <1>2 DEF Requests, Ops
  <2>. HIDE DEF r
  <2>2. Ask(c, r)
    BY <1>3 DEF r
  <2>. QED
    BY <1>1, <2>1, <2>2, AskKeeps
<1>4. ASSUME NEW user \in {1, 2}, NEW op \in {"status", "recommend"},
             Ask(c, [NoReq EXCEPT !.op = op, !.user = user, !.question = 1, !.known = acked])
      PROVE  Inv'
  <2>. DEFINE r == [NoReq EXCEPT !.op = op, !.user = user, !.question = 1, !.known = acked]
  <2>1. r \in Requests /\ r.op = op /\ ~r.done /\ r.known = acked
    <3>1. op \in Ops /\ user \in {0, 1, 2} /\ 1 \in {0} \cup Questions
      BY DEF Ops, Questions
    <3>. QED
      BY <1>1, <1>2, <3>1 DEF Requests
  <2>. HIDE DEF r
  <2>2. Ask(c, r)
    BY <1>4 DEF r
  <2>. QED
    BY <1>1, <2>1, <2>2, AskKeeps
<1>. QED
  BY <1>3, <1>4 DEF Query

(* A reply is received; that of a submission acknowledges an answer that   *)
(* is stored.                                                              *)
LEMMA ReceiveKeeps == ASSUME Inv, NEW c \in Clients, Receive(c) PROVE Inv'
<1>1. req' = [req EXCEPT ![c] = NoReq] /\ UNCHANGED <<userAnswers, now, tags>>
  BY DEF Receive
<1>2. acked' \subseteq Saved
  <2>1. CASE req[c].op = "submit"
    <3>1. PICK id \in Saved : req[c].reply = <<id>>
      BY <2>1 DEF Receive, Inv, Told, Submitting
    <3>2. ToSet(<<id>>) = {id}
      BY DEF ToSet
    <3>. QED
      BY <2>1, <3>1, <3>2 DEF Receive, Inv, Promised
  <2>2. CASE req[c].op # "submit"
    BY <2>2 DEF Receive, Inv, Promised
  <2>. QED
    BY <2>1, <2>2
<1>3. NoReq.known \subseteq Saved
  BY DEF NoReq
<1>. QED
  BY <1>1, <1>2, <1>3, NoReqTyped, RequestChanges

(* a request is answered from the state at that moment *)
LEMMA ReplyIs ==
    ASSUME RequestsTyped, NEW c \in Clients, NEW reply \in Replies, Reply(c, reply)
    PROVE  \E r \in Requests :
               /\ req' = [req EXCEPT ![c] = r] /\ r.done /\ r.reply = reply
               /\ r.op = req[c].op /\ r.user = req[c].user /\ r.question = req[c].question
               /\ r.known = req[c].known
<1>. DEFINE q == req[c]
            r == [q EXCEPT !.done = TRUE, !.reply = reply]
<1>1. q \in Requests
  BY DEF RequestsTyped
<1>. HIDE DEF q
<1>2. /\ r \in Requests /\ r.done /\ r.reply = reply /\ r.op = q.op /\ r.user = q.user
      /\ r.question = q.question /\ r.known = q.known
  BY <1>1 DEF Requests
<1>3. req' = [req EXCEPT ![c] = r]
  BY DEF Reply, q, RequestsTyped
<1>. QED
  BY <1>2, <1>3 DEF q

(* A read is answered under the lock. *)
LEMMA AnswerKeeps == ASSUME Inv, NEW c \in Clients, Answer(c) PROVE Inv'
<1>1. PICK answers \in Newest(req[c].user) :
          \/ Asked(c, "answers")   /\ Reply(c, answers)
          \/ Asked(c, "status")    /\ Reply(c, <<StatusOf(answers, req[c].question)>>)
          \/ Asked(c, "recommend") /\ Reply(c, Recommend(tags, answers))
  BY DEF Answer
<1>. DEFINE user == req[c].user
            question == req[c].question
<1>2. /\ answers \in Seq(Answers) /\ DOMAIN answers = 1 .. Len(answers)
      /\ \A i \in 1 .. Len(answers) :
            \E k \in Saved : userAnswers[k].user = user /\ answers[i] = userAnswers[k]
      /\ \A k \in Saved : userAnswers[k].user = user =>
            \E i \in 1 .. Len(answers) : answers[i] = userAnswers[k]
      /\ \A i, j \in 1 .. Len(answers) : i < j =>
            answers[i].id # answers[j].id /\ answers[i].at >= answers[j].at
  BY NewestIs DEF Inv
<1>3. Numbered /\ RequestsTyped /\ req[c] \in Requests /\ req[c].known \subseteq Saved
      /\ acked \subseteq Saved /\ ListRead(req[c])
  BY DEF Inv, RequestsTyped, Promised, Told
<1>4. /\ \A i \in Saved : userAnswers[i] \in Answers /\ userAnswers[i].id = i
  BY <1>3, SavedAre
<1>5. UNCHANGED <<userAnswers, now, tags, acked>>
  BY DEF Answer
<1>6. CASE Asked(c, "answers") /\ Reply(c, answers)
  <2>1. answers \in Replies
    BY <1>2 DEF Replies
  <2>2. PICK r \in Requests :
            /\ req' = [req EXCEPT ![c] = r] /\ r.done /\ r.reply = answers
            /\ r.op = req[c].op /\ r.user = req[c].user /\ r.question = req[c].question
            /\ r.known = req[c].known
    BY <1>3, <1>6, <2>1, ReplyIs
  <2>3. r.op = "answers" /\ r.user = 1
    BY <1>3, <1>6, <2>2 DEF Asked, ListRead
  <2>4. \A k \in Saved : userAnswers[k].user = user
    BY <1>4, <2>2, <2>3 DEF Answers, Users
  <2>5. r.known \subseteq {r.reply[i].id : i \in DOMAIN r.reply}
    <3>1. ASSUME NEW k \in r.known
          PROVE  \E i \in DOMAIN answers : answers[i].id = k
      <4>1. k \in Saved
        BY <1>3, <2>2
      <4>2. PICK i \in 1 .. Len(answers) : answers[i] = userAnswers[k]
        BY <1>2, <2>4, <4>1
      <4>. QED
        BY <1>2, <1>4, <4>1, <4>2
    <3>. QED
      BY <2>2, <3>1
  <2>6. Submitting(r) /\ ListRead(r) /\ StatusRead(r)
    BY <1>2, <2>2, <2>3, <2>5 DEF Submitting, ListRead, StatusRead
  <2>. QED
    BY <1>3, <1>5, <2>2, <2>6, RequestChanges
<1>7. CASE Asked(c, "status") /\ Reply(c, <<StatusOf(answers, question)>>)
  <2>1. /\ StatusOf(answers, question) \in {"scored", "todo"}
        /\ StatusOf(answers, question) = "todo"
              <=> ~\E i \in 1 .. Len(answers) : answers[i].question = question
    BY <1>2, StatusIs
  <2>2. <<StatusOf(answers, question)>> \in Replies
    BY <2>1 DEF Replies
  <2>3. PICK r \in Requests :
            /\ req' = [req EXCEPT ![c] = r] /\ r.done
            /\ r.reply = <<StatusOf(answers, question)>>
            /\ r.op = req[c].op /\ r.user = user /\ r.question = question
            /\ r.known = req[c].known
    BY <1>3, <1>7, <2>2, ReplyIs
  <2>4. (\E i \in 1 .. Len(answers) : answers[i].question = question) <=> Own(r) # {}
    BY <1>2, <2>3 DEF Own
  <2>5. StatusRead(r)
    BY <2>1, <2>3, <2>4 DEF StatusRead
  <2>6. Submitting(r) /\ ListRead(r)
    BY <1>7, <2>3 DEF Asked, Submitting, ListRead
  <2>. QED
    BY <1>3, <1>5, <2>3, <2>5, <2>6, RequestChanges
<1>8. CASE Asked(c, "recommend") /\ Reply(c, Recommend(tags, answers))
  <2>1. Recommend(tags, answers) \in Replies
    BY <1>2, <1>3 DEF Replies, RequestsTyped
  <2>2. PICK r \in Requests :
            /\ req' = [req EXCEPT ![c] = r] /\ r.done /\ r.reply = Recommend(tags, answers)
            /\ r.op = req[c].op /\ r.user = req[c].user /\ r.question = req[c].question
            /\ r.known = req[c].known
    BY <1>3, <1>8, <2>1, ReplyIs
  <2>3. Submitting(r) /\ ListRead(r) /\ StatusRead(r)
    BY <1>8, <2>2 DEF Asked, Submitting, ListRead, StatusRead
  <2>. QED
    BY <1>3, <1>5, <2>2, <2>3, RequestChanges
<1>. QED
  BY <1>1, <1>6, <1>7, <1>8

(* A new answer takes the next number: nothing that was promised, and      *)
(* nothing that a request has read, is touched.                            *)
LEMMA SaveUserAnswerKeeps ==
    ASSUME Inv, NEW c \in Clients, SaveUserAnswer(c)
    PROVE  Inv'
<1>. DEFINE id == Len(userAnswers) + 1
            new == [id |-> id, user |-> req[c].user, question |-> req[c].question,
                    score |-> req[c].score, status |-> "scored", at |-> now]
<1>1. /\ userAnswers' = Append(userAnswers, new) /\ Reply(c, <<id>>)
      /\ Asked(c, "submit") /\ UNCHANGED <<now, tags, acked>>
  BY DEF SaveUserAnswer
<1>2. /\ Numbered /\ RequestsTyped /\ req[c] \in Requests /\ now \in Nat
      /\ Submitting(req[c]) /\ req[c].op = "submit"
  BY <1>1 DEF Inv, RequestsTyped, Told, Asked
<1>3. Len(userAnswers) \in Nat /\ userAnswers \in Seq(Answers)
  BY <1>2 DEF Numbered
<1>4. new \in Answers
  BY <1>2, <1>3 DEF Submitting, Requests, Answers
<1>5. new.id = id
  OBVIOUS
<1>6. id \in Nat /\ <<id>> \in Replies
  BY <1>3 DEF Replies
<1>. HIDE DEF new
<1>7. /\ userAnswers' \in Seq(Answers) /\ Len(userAnswers') = id
      /\ userAnswers'[id] = new
      /\ \A i \in 1 .. Len(userAnswers) : userAnswers'[i] = userAnswers[i]
  BY <1>1, <1>3, <1>4
<1>8. Saved' = Saved \cup {id} /\ id \notin Saved
  BY <1>3, <1>7 DEF Saved
<1>9. PICK r \in Requests :
          /\ req' = [req EXCEPT ![c] = r] /\ r.done /\ r.reply = <<id>>
          /\ r.op = req[c].op /\ r.user = req[c].user /\ r.question = req[c].question
          /\ r.known = req[c].known
  BY <1>1, <1>2, <1>6, ReplyIs
<1>. HIDE DEF id
<1>10. req \in [Clients -> Requests] /\ \A d \in Clients : req'[d] = IF d = c THEN r ELSE req[d]
  BY <1>2, <1>9 DEF RequestsTyped
<1>11. Numbered'
  <2>1. \A i \in 1 .. Len(userAnswers') : i \in 1 .. Len(userAnswers) \/ i = id
    BY <1>3, <1>7 DEF id
  <2>. QED
    BY <1>2, <1>5, <1>7, <2>1 DEF Numbered
<1>12. RequestsTyped'
  <2>1. req' \in [Clients -> Requests]
    BY <1>9, <1>10
  <2>. QED
    BY <1>1, <1>2, <2>1 DEF RequestsTyped
<1>13. Promised'
  BY <1>1, <1>8, <1>9, <1>10 DEF Inv, Promised
<1>14. Told'
  <2>1. ASSUME NEW d \in Clients PROVE Submitting(req[d])'
    <3>1. CASE d = c
      BY <1>2, <1>8, <1>9, <1>10, <3>1 DEF Submitting
    <3>2. CASE d # c
      BY <1>8, <1>10, <3>2 DEF Inv, Told, Submitting
    <3>. QED
      BY <3>1, <3>2
  <2>2. ASSUME NEW d \in Clients PROVE ListRead(req[d])'
    <3>1. CASE d = c
      BY <1>2, <1>9, <1>10, <3>1 DEF ListRead
    <3>2. CASE d # c
      BY <1>10, <3>2 DEF Inv, Told, ListRead
    <3>. QED
      BY <3>1, <3>2
  <2>3. ASSUME NEW d \in Clients PROVE StatusRead(req[d])'
    <3>1. CASE d = c
      BY <1>2, <1>9, <1>10, <3>1 DEF StatusRead
    <3>2. CASE d # c
      <4>1. req'[d] = req[d] /\ StatusRead(req[d]) /\ req[d].known \subseteq Saved
        BY <1>10, <3>2 DEF Inv, Told, Promised
      <4>2. \A i \in Saved : userAnswers'[i] = userAnswers[i]
        BY <1>7 DEF Saved
      <4>3. \A q : Own(q) \subseteq Own(q)' /\ Own(q)' \cap Saved = Own(q)
        BY <1>8, <4>2 DEF Own
      <4>. QED
        BY <4>1, <4>3 DEF StatusRead
    <3>. QED
      BY <3>1, <3>2
  <2>. QED
    BY <2>1, <2>2, <2>3 DEF Told
<1>. QED
  BY <1>11, <1>12, <1>13, <1>14 DEF Inv

(* nothing a request can read changes *)
LEMMA OthersKeep ==
    ASSUME Inv, UNCHANGED <<tags, userAnswers, acked, req>>, now' \in Nat
    PROVE  Inv'
<1>1. Numbered' /\ Promised'
  BY DEF Inv, Numbered, Promised, Saved
<1>2. RequestsTyped'
  BY DEF Inv, RequestsTyped
<1>3. Told'
  BY DEF Inv, Told, Submitting, ListRead, StatusRead, Own, Saved
<1>. QED
  BY <1>1, <1>2, <1>3 DEF Inv

(* The invariant. *)
LEMMA InvHolds == Spec => []Inv
<1>1. Inv /\ [Next]_vars => Inv'
  <2>. SUFFICES ASSUME Inv, [Next]_vars PROVE Inv'
    OBVIOUS
  <2>1. now \in Nat
    BY DEF Inv, RequestsTyped
  <2>2. CASE Tick
    BY <2>1, <2>2, OthersKeep DEF Tick
  <2>3. ASSUME NEW c \in Clients, Submit(c) \/ Query(c) \/ Answer(c) \/ Receive(c)
        PROVE  Inv'
    BY <2>3, SubmitKeeps, QueryKeeps, AnswerKeeps, ReceiveKeeps
  <2>4. ASSUME NEW c \in Clients, SaveUserAnswer(c)
        PROVE  Inv'
    BY <2>4, SaveUserAnswerKeeps
  <2>5. ASSUME NEW c \in Clients, UpdateStatus(c)
        PROVE  Inv'
    BY <2>1, <2>5, OthersKeep DEF UpdateStatus
  <2>6. CASE UNCHANGED vars
    BY <2>1, <2>6, OthersKeep DEF vars
  <2>. QED
    BY <2>2, <2>3, <2>4, <2>5, <2>6 DEF Next
<1>. QED
  BY <1>1, InitHolds, PTL DEF Spec

-----------------------------------------------------------------------------
(* What is read *)

(* However many requests run at the same time and however their regions    *)
(* under the lock interleave: a list of answers holds every answer that    *)
(* had been acknowledged when it was asked for, once, newest first; a      *)
(* question such an answer is to shows as scored, one without an answer as *)
(* todo, and what UpdateStatus sets shows nowhere.                         *)
THEOREM ReadsAreCurrent == Spec => []ReadsSeeAcknowledged
BY InvHolds, InvIsEnough, PTL

-----------------------------------------------------------------------------
(* Folding a sequence from the left *)

(* a fold over the elements of S, as a function of the set that is folded  *)
FoldsOver(h, S, base, pick, g) ==
    \A u \in SUBSET S : h[u] = IF u = {} THEN base ELSE g[pick[u]][h[u \ {pick[u]}]]

Picks(pick, S) == \A u \in SUBSET S : u # {} => pick[u] \in u

(* A fold over a finite set exists: there is a function that takes an      *)
(* element out of a set by `pick` and goes on with the rest.               *)
LEMMA FoldExists ==
    ASSUME NEW S, IsFiniteSet(S), NEW V, NEW base \in V,
           NEW pick, Picks(pick, S),
           NEW g \in [S -> [V -> V]]
    PROVE  \E h \in [SUBSET S -> V] : FoldsOver(h, S, base, pick, g)
<1>. DEFINE Up(h, u) == IF u = {} THEN base ELSE g[pick[u]][h[u \ {pick[u]}]]
            FoldsTo(h, n) == \A u \in SUBSET S : Cardinality(u) <= n => h[u] = Up(h, u)
            bad == {n \in Nat : ~ \E h \in [SUBSET S -> V] : FoldsTo(h, n)}
<1>1. \A u \in SUBSET S : IsFiniteSet(u) /\ Cardinality(u) \in Nat /\ Cardinality(u) <= Cardinality(S)
  BY FS_Subset, FS_CardinalityType
<1>2. \A u \in SUBSET S : u # {} => /\ pick[u] \in S /\ u \ {pick[u]} \in SUBSET S
                                   /\ Cardinality(u \ {pick[u]}) = Cardinality(u) - 1
  BY <1>1, FS_RemoveElement DEF Picks
<1>3. \A h \in [SUBSET S -> V] : \A u \in SUBSET S : Up(h, u) \in V
  <2>1. ASSUME NEW h \in [SUBSET S -> V], NEW u \in SUBSET S, u # {}
        PROVE  g[pick[u]][h[u \ {pick[u]}]] \in V
    <3>1. pick[u] \in S /\ u \ {pick[u]} \in SUBSET S
      BY <1>2, <2>1
    <3>2. g[pick[u]] \in [V -> V] /\ h[u \ {pick[u]}] \in V
      BY <3>1
    <3>. QED
      BY <3>2
  <2>. QED
    BY <2>1
<1>4. \A u \in SUBSET S : Cardinality(u) <= 0 => u = {}
  BY <1>1, FS_EmptySet
<1>5. bad = {}
  <2>1. SUFFICES ASSUME bad # {} PROVE FALSE
    BY <2>1
  <2>2. PICK n \in bad : \A m \in bad : n <= m
    <3>1. bad \in SUBSET Nat
      OBVIOUS
    <3>. HIDE DEF bad
    <3>. QED
      BY <2>1, <3>1, LeastNumber
  <2>. HIDE DEF FoldsTo
  <2>5. n \in Nat /\ ~ \E h \in [SUBSET S -> V] : FoldsTo(h, n)
    BY <2>2
  <2>3. CASE n = 0
    <3>. DEFINE const == [u \in SUBSET S |-> base]
    <3>1. FoldsTo(const, n)
      BY <1>4, <2>3 DEF FoldsTo
    <3>2. const \in [SUBSET S -> V]
      OBVIOUS
    <3>. HIDE DEF const
    <3>. QED
      BY <2>5, <3>1, <3>2
  <2>4. CASE n # 0
    <3>1. n - 1 \in Nat /\ n - 1 \notin bad
      <4>. HIDE DEF bad
      <4>1. n - 1 \in bad => n <= n - 1
        BY <2>2
      <4>. QED
        BY <2>4, <2>5, <4>1
    <3>2. PICK h \in [SUBSET S -> V] : FoldsTo(h, n - 1)
      BY <3>1
    <3>. DEFINE next == [u \in SUBSET S |-> Up(h, u)]
    <3>3. next \in [SUBSET S -> V]
      BY <1>3
    <3>4. ASSUME NEW u \in SUBSET S, Cardinality(u) <= n PROVE next[u] = Up(next, u)
      <4>1. CASE u = {}
        BY <4>1
      <4>2. CASE u # {}
        <5>1. Cardinality(u \ {pick[u]}) <= n - 1
          BY <1>1, <1>2, <2>5, <3>4, <4>2
        <5>2. u \ {pick[u]} \in SUBSET S
          OBVIOUS
        <5>3. h[u \ {pick[u]}] = Up(h, u \ {pick[u]})
          BY <3>2, <5>1, <5>2 DEF FoldsTo
        <5>4. next[u \ {pick[u]}] = Up(h, u \ {pick[u]})
          BY <5>2
        <5>5. next[u] = g[pick[u]][h[u \ {pick[u]}]]
          BY <4>2
        <5>6. Up(next, u) = g[pick[u]][next[u \ {pick[u]}]]
          BY <4>2
        <5>. HIDE DEF next, Up
        <5>. QED
          BY <5>3, <5>4, <5>5, <5>6
      <4>. QED
        BY <4>1, <4>2
    <3>5. FoldsTo(next, n)
      BY <3>4 DEF FoldsTo
    <3>. HIDE DEF next
    <3>. QED
      BY <2>5, <3>3, <3>5
  <2>. QED
    BY <2>3, <2>4
<1>6. Cardinality(S) \in Nat
  BY FS_CardinalityType
<1>7. PICK h \in [SUBSET S -> V] : FoldsTo(h, Cardinality(S))
  BY <1>5, <1>6
<1>. QED
  BY <1>1, <1>7 DEF FoldsOver

(* the greatest element of a set of places *)
LEMMA GreatestPlace ==
    ASSUME NEW n \in Nat, NEW u \in SUBSET (1 .. n), u # {}
    PROVE  Max(u) \in u /\ \A i \in u : Max(u) >= i
<1>. DEFINE I == {n - i : i \in u}
<1>1. I \in SUBSET Nat /\ I # {}
  <2>1. \A i \in u : i \in Int /\ n - i \in Nat
    OBVIOUS
  <2>. QED
    BY <2>1
<1>2. PICK x \in I : \A y \in I : x <= y
  BY <1>1, LeastNumber
<1>3. PICK i \in u : x = n - i
  BY <1>2
<1>4. \A j \in u : n - i <= n - j
  BY <1>2, <1>3
<1>5. \A j \in u : i >= j
  BY <1>4
<1>. QED
  BY <1>5 DEF Max

(* what the steps of a fold over the places of a sequence come to *)
LEMMA FirstPlaces ==
    ASSUME NEW n \in Nat, NEW k \in 1 .. n
    PROVE  /\ 1 .. k \in SUBSET (1 .. n) /\ 1 .. k # {} /\ Max(1 .. k) = k
           /\ (1 .. k) \ {k} = 1 .. k - 1 /\ k - 1 \in 0 .. n
<1>1. k \in Nat /\ k >= 1 /\ k <= n /\ k \in 1 .. k
  OBVIOUS
<1>2. Max(1 .. k) = k
  <2>1. Max(1 .. k) \in 1 .. k /\ Max(1 .. k) >= k
    BY <1>1, GreatestPlace
  <2>. QED
    BY <2>1
<1>. QED
  BY <1>1, <1>2

(* what is kept of the first k members of a sequence *)
KeptOf(s, set, k, kept) ==
    /\ kept \in Seq(set)
    /\ \A i, j \in 1 .. Len(kept) : i # j => kept[i] # kept[j]
    /\ \A i \in 1 .. Len(kept) : \E j \in 1 .. k : kept[i] = s[j]
    /\ \A j \in 1 .. k : s[j] \in set => \E i \in 1 .. Len(kept) : kept[i] = s[j]

(* one member more *)
LEMMA KeepsOneMore ==
    ASSUME NEW s, NEW set, NEW n \in Nat, \A i, j \in 1 .. n : i # j => s[i] # s[j],
           NEW k \in 1 .. n, NEW kept, KeptOf(s, set, k - 1, kept)
    PROVE  KeptOf(s, set, k, IF s[k] \in set THEN Append(kept, s[k]) ELSE kept)
<1>. SUFFICES ASSUME NEW x, x = s[k], NEW m, m = Len(kept)
              PROVE  KeptOf(s, set, k, IF x \in set THEN Append(kept, x) ELSE kept)
  OBVIOUS
<1>1. /\ kept \in Seq(set) /\ m \in Nat /\ \A i \in 1 .. m : kept[i] \in set
      /\ \A i, j \in 1 .. m : i # j => kept[i] # kept[j]
      /\ \A i \in 1 .. m : \E j \in 1 .. k - 1 : kept[i] = s[j]
      /\ \A j \in 1 .. k - 1 : s[j] \in set => \E i \in 1 .. m : kept[i] = s[j]
  BY DEF KeptOf
<1>2. /\ \A j \in 1 .. k : j \in 1 .. k - 1 \/ j = k
      /\ \A j \in 1 .. k - 1 : j \in 1 .. k /\ j \in 1 .. n /\ j # k
      /\ k \in 1 .. k /\ k \in 1 .. n
  OBVIOUS
<1>3. CASE x \notin set
  <2>1. \A i \in 1 .. m : \E j \in 1 .. k : kept[i] = s[j]
    BY <1>1, <1>2
  <2>2. \A j \in 1 .. k : s[j] \in set => \E i \in 1 .. m : kept[i] = s[j]
    BY <1>1, <1>2, <1>3
  <2>3. KeptOf(s, set, k, kept)
    BY <1>1, <2>1, <2>2 DEF KeptOf
  <2>. QED
    BY <1>3, <2>3
<1>4. CASE x \in set
  <2>. DEFINE next == Append(kept, x)
  <2>1. /\ next \in Seq(set) /\ Len(next) = m + 1 /\ next[m + 1] = x
        /\ \A i \in 1 .. m : next[i] = kept[i]
    BY <1>1, <1>4
  <2>. HIDE DEF next
  <2>2. /\ \A i \in 1 .. m + 1 : i \in 1 .. m \/ i = m + 1
        /\ m + 1 \in 1 .. m + 1 /\ \A i \in 1 .. m : i \in 1 .. m + 1
    BY <1>1
  <2>3. \A i \in 1 .. m : next[i] # x
    BY <1>1, <1>2, <2>1
  <2>4. \A i, j \in 1 .. m + 1 : i # j => next[i] # next[j]
    BY <1>1, <2>1, <2>2, <2>3
  <2>5. \A i \in 1 .. m + 1 : \E j \in 1 .. k : next[i] = s[j]
    BY SMTT(60), <1>1, <1>2, <2>1, <2>2
  <2>6. \A j \in 1 .. k : s[j] \in set => \E i \in 1 .. m + 1 : next[i] = s[j]
    BY <1>1, <1>2, <2>1, <2>2
  <2>7. KeptOf(s, set, k, next)
    BY <2>1, <2>4, <2>5, <2>6 DEF KeptOf
  <2>. QED
    BY <1>4, <2>7 DEF next
<1>. QED
  BY <1>3, <1>4

(* What is kept of a sequence without repetitions are its members that are *)
(* in the set, each once.                                                  *)
LEMMA KeepIs ==
    ASSUME NEW S, NEW s \in Seq(S), NEW set, \A i, j \in 1 .. Len(s) : i # j => s[i] # s[j]
    PROVE  KeptOf(s, set, Len(s), Keep(s, set))
<1>. DEFINE D == DOMAIN s
            n == Len(s)
            V == Seq(set)
            pick == [u \in SUBSET D |-> Max(u)]
            g == [x \in D |-> [v \in V |-> IF s[x] \in set THEN Append(v, s[x]) ELSE v]]
            Folds(it) == it = [u \in SUBSET D |->
                IF u = {} THEN <<>>
                ELSE IF s[Max(u)] \in set THEN Append(it[u \ {Max(u)}], s[Max(u)])
                     ELSE it[u \ {Max(u)}]]
            iter == CHOOSE it : Folds(it)
<1>1. n \in Nat /\ D = 1 .. n /\ <<>> \in V
  OBVIOUS
<1>2. Keep(s, set) = iter[D]
  BY Zenon DEF Keep, FoldLeft, MapThenFoldSet
<1>3. \E it : Folds(it)
  <2>1. Picks(pick, D)
    BY <1>1, GreatestPlace DEF Picks
  <2>2. g \in [D -> [V -> V]]
    BY <1>1
  <2>3. IsFiniteSet(D)
    BY <1>1, FS_Interval
  <2>. HIDE DEF pick, g, D, V
  <2>4. PICK h \in [SUBSET D -> V] : FoldsOver(h, D, <<>>, pick, g)
    BY <1>1, <2>1, <2>2, <2>3, FoldExists
  <2>5. ASSUME NEW u \in SUBSET D, u # {}
        PROVE  g[pick[u]][h[u \ {pick[u]}]] =
                  IF s[Max(u)] \in set THEN Append(h[u \ {Max(u)}], s[Max(u)]) ELSE h[u \ {Max(u)}]
    <3>1. pick[u] = Max(u) /\ Max(u) \in D /\ u \ {Max(u)} \in SUBSET D
      BY <2>1, <2>5 DEF Picks, pick
    <3>2. h[u \ {Max(u)}] \in V
      BY <3>1
    <3>. QED
      BY <3>1, <3>2 DEF g
  <2>6. \A u \in SUBSET D : h[u] =
            IF u = {} THEN <<>>
            ELSE IF s[Max(u)] \in set THEN Append(h[u \ {Max(u)}], s[Max(u)]) ELSE h[u \ {Max(u)}]
    <3>1. \A u \in SUBSET D : h[u] = IF u = {} THEN <<>> ELSE g[pick[u]][h[u \ {pick[u]}]]
      BY <2>4 DEF FoldsOver
    <3>. QED
      BY <2>5, <3>1
  <2>7. h = [u \in SUBSET D |-> h[u]]
    BY <2>4
  <2>8. Folds(h)
    BY <2>6, <2>7
  <2>. QED
    BY <2>8
<1>4. Folds(iter)
  BY <1>3
<1>. HIDE DEF iter
<1>5. /\ iter[{}] = <<>>
      /\ \A u \in SUBSET D : u # {} => iter[u] =
            IF s[Max(u)] \in set THEN Append(iter[u \ {Max(u)}], s[Max(u)]) ELSE iter[u \ {Max(u)}]
  BY <1>4
<1>. HIDE DEF Folds, n, D
<1>. DEFINE missed == {k \in 0 .. n : ~KeptOf(s, set, k, iter[1 .. k])}
<1>6. missed = {}
  <2>1. SUFFICES ASSUME missed # {} PROVE FALSE
    BY <2>1
  <2>2. PICK k \in missed : \A m \in missed : k <= m
    <3>1. missed \in SUBSET Nat
      BY <1>1
    <3>. HIDE DEF missed
    <3>. QED
      BY <2>1, <3>1, LeastNumber
  <2>3. CASE k = 0
    <3>1. iter[1 .. k] = <<>> /\ 1 .. k = {}
      BY <1>5, <2>3
    <3>2. <<>> \in Seq(set) /\ 1 .. Len(<<>>) = {}
      OBVIOUS
    <3>3. KeptOf(s, set, k, <<>>)
      BY <3>1, <3>2 DEF KeptOf
    <3>. QED
      BY <2>2, <3>1, <3>3
  <2>4. CASE k # 0
    <3>1. k - 1 \in 0 .. n /\ k - 1 \notin missed /\ k \in 1 .. n
      BY <1>1, <2>2, <2>4
    <3>2. KeptOf(s, set, k - 1, iter[1 .. k - 1])
      BY <3>1
    <3>3. 1 .. k \in SUBSET D /\ 1 .. k # {} /\ Max(1 .. k) = k /\ (1 .. k) \ {k} = 1 .. k - 1
      BY <1>1, <3>1, FirstPlaces
    <3>4. iter[1 .. k] = IF s[k] \in set THEN Append(iter[1 .. k - 1], s[k]) ELSE iter[1 .. k - 1]
      BY <1>5, <3>3
    <3>5. \A i, j \in 1 .. n : i # j => s[i] # s[j]
      BY DEF n
    <3>6. KeptOf(s, set, k, iter[1 .. k])
      <4>. HIDE DEF missed
      <4>. DEFINE prev == iter[1 .. k - 1]
      <4>1. KeptOf(s, set, k - 1, prev)
            /\ iter[1 .. k] = IF s[k] \in set THEN Append(prev, s[k]) ELSE prev
        BY <3>2, <3>4
      <4>. HIDE DEF prev
      <4>. QED
        BY <1>1, <3>1, <3>5, <4>1, KeepsOneMore
    <3>. QED
      BY <2>2, <3>6
  <2>. QED
    BY <2>3, <2>4
<1>7. n \in 0 .. n
  BY <1>1
<1>8. KeptOf(s, set, n, iter[1 .. n])
  BY <1>6, <1>7
<1>. QED
  BY <1>1, <1>2, <1>8 DEF n

-----------------------------------------------------------------------------
(* Recommendations *)

(* what is appended to the questions of the wrong answers is new each time *)
Continues(failed, out) ==
    /\ out \in Seq(Questions) /\ Len(failed) <= Len(out)
    /\ \A i \in 1 .. Len(failed) : out[i] = failed[i]
    /\ \A j \in Len(failed) + 1 .. Len(out) : \A i \in 1 .. j - 1 : out[i] # out[j]

(* appending the members of a sequence that are not there yet *)
LEMMA ContinuesMore ==
    ASSUME NEW failed \in Seq(Questions), NEW out, Continues(failed, out),
           NEW s \in Seq(Questions), \A i, j \in 1 .. Len(s) : i # j => s[i] # s[j],
           NEW set \in SUBSET (Questions \ ToSet(out))
    PROVE  Continues(failed, out \o Keep(s, set))
<1>. DEFINE more == Keep(s, set)
            all == out \o more
            f == Len(failed)
            m == Len(out)
            l == Len(more)
<1>1. /\ out \in Seq(Questions) /\ f \in Nat /\ m \in Nat /\ f <= m
      /\ \A i \in 1 .. f : out[i] = failed[i]
      /\ \A j \in f + 1 .. m : \A i \in 1 .. j - 1 : out[i] # out[j]
  BY DEF Continues
<1>2. KeptOf(s, set, Len(s), more)
  BY KeepIs
<1>. HIDE DEF more
<1>3. /\ more \in Seq(set) /\ l \in Nat /\ \A i \in 1 .. l : more[i] \in set
      /\ \A i, j \in 1 .. l : i # j => more[i] # more[j]
  BY <1>2 DEF KeptOf
<1>4. more \in Seq(Questions)
  <2>1. more \in [1 .. l -> Questions]
    BY <1>3
  <2>. QED
    BY <1>3, <2>1
<1>5. /\ all \in Seq(Questions) /\ Len(all) = m + l
      /\ \A i \in 1 .. m : all[i] = out[i]
      /\ \A i \in 1 .. l : all[m + i] = more[i]
  BY <1>1, <1>3, <1>4
<1>6. \A i \in 1 .. m : out[i] \in ToSet(out)
  BY <1>1 DEF ToSet
<1>. HIDE DEF f, m, l, all
<1>7. ASSUME NEW j \in f + 1 .. m + l, NEW i \in 1 .. j - 1 PROVE all[i] # all[j]
  <2>1. CASE j <= m
    <3>1. i \in 1 .. m /\ j \in 1 .. m /\ j \in f + 1 .. m
      BY <1>1, <1>3, <2>1
    <3>. QED
      BY <1>1, <1>5, <3>1
  <2>2. CASE j > m
    <3>1. j - m \in 1 .. l /\ j = m + (j - m)
      BY <1>1, <1>3, <2>2
    <3>2. all[j] = more[j - m] /\ all[j] \in set
      BY <1>3, <1>5, <3>1
    <3>3. CASE i <= m
      <4>1. i \in 1 .. m
        BY <1>1, <1>3, <3>3
      <4>. QED
        BY <1>5, <1>6, <3>2, <4>1
    <3>4. CASE i > m
      <4>1. i - m \in 1 .. l /\ i = m + (i - m) /\ i - m # j - m
        BY <1>1, <1>3, <3>4
      <4>2. all[i] = more[i - m]
        BY <1>5, <4>1
      <4>. QED
        BY <1>3, <3>1, <3>2, <4>1, <4>2
    <3>. QED
      BY <1>1, <3>3, <3>4
  <2>. QED
    BY <1>1, <1>3, <2>1, <2>2
<1>8. f <= m + l /\ \A i \in 1 .. f : all[i] = failed[i]
  <2>1. \A i \in 1 .. f : i \in 1 .. m
    BY <1>1
  <2>. QED
    BY <1>1, <1>3, <1>5, <2>1
<1>9. Continues(failed, all)
  BY <1>5, <1>7, <1>8 DEF Continues, f
<1>. QED
  BY <1>9 DEF all, more

(* the questions in the order of their numbers *)
LEMMA ListQuestionsAre ==
    ListQuestions \in Seq(Questions) /\ \A i, j \in 1 .. Len(ListQuestions) :
                                           i # j => ListQuestions[i] # ListQuestions[j]
BY DEF ListQuestions, Questions

(* The wrong answers' questions are followed by questions that are new     *)
(* each time.                                                              *)
LEMMA SimilarContinues ==
    ASSUME NEW tagged, NEW failed \in Seq(Questions)
    PROVE  Continues(failed, WithSimilar(tagged, failed))
<1>. DEFINE Like(q) == {p \in Questions \ {q} : tagged[p] \cap tagged[q] # {}}
            More(out, q) == out \o Keep(ListQuestions, Like(q) \ ToSet(out))
            D == DOMAIN failed
            n == Len(failed)
            V == {out \in Seq(Questions) : Continues(failed, out)}
            pick == [u \in SUBSET D |-> Max(u)]
            g == [x \in D |-> [v \in V |-> More(v, failed[x])]]
            Folds(it) == it = [u \in SUBSET D |->
                IF u = {} THEN failed ELSE More(it[u \ {Max(u)}], failed[Max(u)])]
            iter == CHOOSE it : Folds(it)
<1>1. n \in Nat /\ D = 1 .. n
  OBVIOUS
<1>2. WithSimilar(tagged, failed) = iter[D]
  BY Zenon DEF WithSimilar, FoldLeft, MapThenFoldSet
<1>3. failed \in V
  BY <1>1 DEF Continues
<1>4. \A v \in V : \A q : More(v, q) \in V
  <2>1. ASSUME NEW v \in V, NEW q PROVE Continues(failed, More(v, q))
    <3>. DEFINE set == Like(q) \ ToSet(v)
    <3>1. set \in SUBSET (Questions \ ToSet(v)) /\ Continues(failed, v)
      OBVIOUS
    <3>. HIDE DEF set
    <3>2. Continues(failed, v \o Keep(ListQuestions, set))
      BY <3>1, ListQuestionsAre, ContinuesMore
    <3>. QED
      BY <3>2 DEF set
  <2>. HIDE DEF More
  <2>. QED
    BY <2>1 DEF Continues
<1>. HIDE DEF More
<1>5. \E it : Folds(it)
  <2>1. Picks(pick, D)
    BY <1>1, GreatestPlace DEF Picks
  <2>2. g \in [D -> [V -> V]]
    BY <1>4
  <2>3. IsFiniteSet(D)
    BY <1>1, FS_Interval
  <2>. HIDE DEF pick, g, D, V
  <2>4. PICK h \in [SUBSET D -> V] : FoldsOver(h, D, failed, pick, g)
    BY <1>3, <2>1, <2>2, <2>3, FoldExists
  <2>5. ASSUME NEW u \in SUBSET D, u # {}
        PROVE  g[pick[u]][h[u \ {pick[u]}]] = More(h[u \ {Max(u)}], failed[Max(u)])
    <3>1. pick[u] = Max(u) /\ Max(u) \in D /\ u \ {Max(u)} \in SUBSET D
      BY <2>1, <2>5 DEF Picks, pick
    <3>2. h[u \ {Max(u)}] \in V
      BY <3>1
    <3>. QED
      BY <3>1, <3>2 DEF g
  <2>6. \A u \in SUBSET D : h[u] =
            IF u = {} THEN failed ELSE More(h[u \ {Max(u)}], failed[Max(u)])
    <3>1. \A u \in SUBSET D : h[u] = IF u = {} THEN failed ELSE g[pick[u]][h[u \ {pick[u]}]]
      BY <2>4 DEF FoldsOver
    <3>. QED
      BY <2>5, <3>1
  <2>7. h = [u \in SUBSET D |-> h[u]]
    BY <2>4
  <2>8. Folds(h)
    BY <2>6, <2>7
  <2>. QED
    BY <2>8
<1>6. Folds(iter)
  BY <1>5
<1>. HIDE DEF iter
<1>7. /\ iter[{}] = failed
      /\ \A u \in SUBSET D : u # {} => iter[u] = More(iter[u \ {Max(u)}], failed[Max(u)])
  BY <1>6
<1>. HIDE DEF Folds, n, D, V
<1>. DEFINE missed == {k \in 0 .. n : iter[1 .. k] \notin V}
<1>8. missed = {}
  <2>1. SUFFICES ASSUME missed # {} PROVE FALSE
    BY <2>1
  <2>2. PICK k \in missed : \A m \in missed : k <= m
    <3>1. missed \in SUBSET Nat
      BY <1>1
    <3>. HIDE DEF missed
    <3>. QED
      BY <2>1, <3>1, LeastNumber
  <2>3. CASE k = 0
    <3>1. iter[1 .. k] = failed
      BY <1>7, <2>3
    <3>. QED
      BY <1>3, <2>2, <3>1
  <2>4. CASE k # 0
    <3>1. k - 1 \in 0 .. n /\ k - 1 \notin missed /\ k \in 1 .. n
      BY <1>1, <2>2, <2>4
    <3>2. iter[1 .. k - 1] \in V
      BY <3>1
    <3>3. 1 .. k \in SUBSET D /\ 1 .. k # {} /\ Max(1 .. k) = k /\ (1 .. k) \ {k} = 1 .. k - 1
      BY <1>1, <3>1, FirstPlaces
    <3>4. iter[1 .. k] = More(iter[1 .. k - 1], failed[k])
      BY <1>7, <3>3
    <3>. QED
      BY <1>4, <2>2, <3>2, <3>4
  <2>. QED
    BY <2>3, <2>4
<1>9. iter[1 .. n] \in V
  <2>1. n \in 0 .. n
    BY <1>1
  <2>. QED
    BY <1>8, <2>1
<1>. QED
  BY <1>1, <1>2, <1>9 DEF V

(* the questions in the order of their weights: there is such an order     *)
LEMMA ByWeightIs ==
    /\ ByWeight \in Seq(Questions) /\ Len(ByWeight) = 4
    /\ \A i, j \in 1 .. Len(ByWeight) : i # j => ByWeight[i] # ByWeight[j]
    /\ \A q \in Questions : \E i \in 1 .. Len(ByWeight) : ByWeight[i] = q
<1>. DEFINE Sorted(s) == \A i, j \in DOMAIN s : i < j => Weight[s[i]] > Weight[s[j]]
            order == <<2, 1, 3, 4>>
<1>1. IsFiniteSet(Questions) /\ Cardinality(Questions) = 4
  <2>1. 1 \in Int /\ 4 \in Int /\ 1 <= 4 /\ 4 - 1 + 1 = 4
    OBVIOUS
  <2>2. IsFiniteSet(1 .. 4) /\ Cardinality(1 .. 4) = IF 1 > 4 THEN 0 ELSE 4 - 1 + 1
    BY <2>1, FS_Interval
  <2>. QED
    BY <2>1, <2>2 DEF Questions
<1>2. order \in SetToSeqs(Questions)
  <2>1. order \in [1 .. 4 -> Questions]
    BY DEF Questions
  <2>2. \A i, j \in 1 .. 4 : i # j => order[i] # order[j]
    OBVIOUS
  <2>. HIDE DEF order
  <2>. QED
    BY <1>1, <2>1, <2>2 DEF SetToSeqs
<1>3. Sorted(order)
  BY DEF Weight
<1>4. ByWeight \in SetToSeqs(Questions)
  <2>. HIDE DEF order, Sorted
  <2>1. \E s \in SetToSeqs(Questions) : Sorted(s)
    BY <1>2, <1>3
  <2>2. ByWeight = CHOOSE s \in SetToSeqs(Questions) : Sorted(s)
    BY DEF ByWeight, Sorted
  <2>. QED
    BY <2>1, <2>2
<1>5. Len(ByWeight) = 4
  <2>1. DOMAIN ByWeight = 1 .. 4
    BY <1>1, <1>4 DEF SetToSeqs
  <2>2. ByWeight \in Seq(Questions)
    BY <1>1, <1>4, OrderingIsComplete
  <2>. QED
    BY <2>1, <2>2
<1>6. /\ ByWeight \in Seq(Questions)
      /\ \A i, j \in 1 .. Len(ByWeight) : i # j => ByWeight[i] # ByWeight[j]
      /\ \A q \in Questions : \E i \in 1 .. Len(ByWeight) : ByWeight[i] = q
  BY <1>1, <1>4, OrderingIsComplete
<1>. QED
  BY <1>5, <1>6

(* the first six are all of the four *)
LEMMA FrequentAre ==
    LET s == HighFrequencyQuestions(6) IN
    /\ s \in Seq(Questions)
    /\ \A i, j \in 1 .. Len(s) : i # j => s[i] # s[j]
    /\ \A q \in Questions : \E i \in 1 .. Len(s) : s[i] = q
<1>1. Min({6, 4}) = 4
  <2>1. {6, 4} \in SUBSET Nat /\ {6, 4} # {}
    OBVIOUS
  <2>2. Min({6, 4}) \in {6, 4} /\ \A j \in {6, 4} : Min({6, 4}) <= j
    BY <2>1, LeastNumber
  <2>. QED
    BY <2>2
<1>2. ByWeight \in Seq(Questions) /\ Len(ByWeight) = 4
  BY ByWeightIs
<1>3. HighFrequencyQuestions(6) = SubSeq(ByWeight, 1, Len(ByWeight))
  BY <1>1, <1>2 DEF HighFrequencyQuestions
<1>4. HighFrequencyQuestions(6) = ByWeight
  BY <1>2, <1>3, SubSeqFull
<1>. QED
  BY <1>4, ByWeightIs

(* where the low scored answers of a user to a question are stored *)
WrongAt(user, q) == {k \in Saved : /\ userAnswers[k].user = user /\ userAnswers[k].question = q
                                   /\ userAnswers[k].score < 70}

(* Each question of the wrong answers is there for an answer of its own.   *)
LEMMA FailedAre ==
    ASSUME Numbered, NEW user, NEW answers \in Newest(user)
    PROVE  /\ Failed(answers) \in Seq(Questions)
           /\ \E at \in [1 .. Len(Failed(answers)) -> Saved] :
                 /\ \A i \in 1 .. Len(Failed(answers)) : at[i] \in WrongAt(user, Failed(answers)[i])
                 /\ \A i, j \in 1 .. Len(Failed(answers)) : i # j => at[i] # at[j]
<1>. DEFINE low == {a \in ToSet(answers) : a.score < 70}
            wrong == Keep(answers, low)
            failed == Failed(answers)
            n == Len(wrong)
            at == [i \in 1 .. n |-> wrong[i].id]
<1>1. /\ answers \in Seq(Answers) /\ DOMAIN answers = 1 .. Len(answers)
      /\ \A i \in 1 .. Len(answers) :
            \E k \in Saved : userAnswers[k].user = user /\ answers[i] = userAnswers[k]
      /\ \A i, j \in 1 .. Len(answers) : i < j => answers[i].id # answers[j].id
  BY NewestIs
<1>2. \A i, j \in 1 .. Len(answers) : i # j => answers[i] # answers[j]
  <2>1. \A i, j \in 1 .. Len(answers) : i # j => i < j \/ j < i
    BY <1>1
  <2>. QED
    BY <1>1, <2>1
<1>3. \A k \in Saved : userAnswers[k] \in Answers /\ userAnswers[k].id = k
  BY SavedAre
<1>4. \A a \in low : /\ a.id \in Saved /\ userAnswers[a.id] = a /\ a.user = user /\ a.score < 70
                     /\ a \in Answers
  <2>1. \A a \in low : a.score < 70 /\ \E i \in 1 .. Len(answers) : answers[i] = a
    BY <1>1 DEF ToSet
  <2>. HIDE DEF low
  <2>. QED
    BY <1>1, <1>3, <2>1
<1>5. KeptOf(answers, low, Len(answers), wrong)
  BY <1>1, <1>2, KeepIs
<1>6. failed = [i \in DOMAIN wrong |-> wrong[i].question]
  BY DEF Failed
<1>. HIDE DEF low, wrong, failed
<1>7. /\ wrong \in Seq(low) /\ n \in Nat /\ DOMAIN wrong = 1 .. n /\ \A i \in 1 .. n : wrong[i] \in low
      /\ \A i, j \in 1 .. n : i # j => wrong[i] # wrong[j]
  <2>1. wrong \in Seq(low) /\ \A i, j \in 1 .. n : i # j => wrong[i] # wrong[j]
    BY <1>5 DEF KeptOf
  <2>. QED
    BY <2>1
<1>8. failed \in Seq(Questions) /\ Len(failed) = n /\ \A i \in 1 .. n : failed[i] = wrong[i].question
  <2>1. \A a \in Answers : a.question \in Questions
    BY DEF Answers
  <2>2. failed \in [1 .. n -> Questions]
    BY <1>4, <1>6, <1>7, <2>1
  <2>. QED
    BY <1>6, <1>7, <2>2
<1>9. at \in [1 .. n -> Saved]
  BY <1>4, <1>7
<1>10. \A i \in 1 .. n : at[i] \in WrongAt(user, failed[i])
  BY <1>4, <1>7, <1>8 DEF WrongAt
<1>11. \A i, j \in 1 .. n : i # j => at[i] # at[j]
  BY <1>4, <1>7
<1>. HIDE DEF at, n
<1>. QED
  BY <1>8, <1>9, <1>10, <1>11 DEF failed

(* how often a question is recommended, and that none is left out while    *)
(* there is room                                                           *)
Shown(reply, q) == {i \in DOMAIN reply : reply[i] = q}
Wide(user, reply) ==
    /\ reply \in Seq(Questions) /\ Len(reply) <= 6
    /\ \A q \in Questions :
          /\ \/ Cardinality(Shown(reply, q)) <= 1
             \/ Cardinality(Shown(reply, q)) <= Cardinality(WrongAt(user, q))
          /\ Cardinality(Shown(reply, q)) = 0 => Len(reply) = 6

(* What is recommended repeats a question only as often as it was answered *)
(* wrongly, and leaves one out only if six others are shown.               *)
LEMMA RecommendsWide ==
    ASSUME Numbered, NEW user, NEW answers \in Newest(user), NEW tagged
    PROVE  Wide(user, Recommend(tagged, answers))
<1>. DEFINE failed == Failed(answers)
            similar == WithSimilar(tagged, failed)
            frequent == HighFrequencyQuestions(6)
            others == Questions \ ToSet(similar)
            more == Keep(frequent, others)
            result == similar \o more
            f == Len(failed)
            l == Len(result)
            m == Min({6, l})
            reply == SubSeq(result, 1, m)
<1>1. failed \in Seq(Questions) /\ f \in Nat
  <2>1. failed \in Seq(Questions)
    BY FailedAre
  <2>. HIDE DEF failed
  <2>. QED
    BY <2>1
<1>2. PICK at \in [1 .. f -> Saved] :
          /\ \A i \in 1 .. f : at[i] \in WrongAt(user, failed[i])
          /\ \A i, j \in 1 .. f : i # j => at[i] # at[j]
  BY FailedAre
<1>3. Recommend(tagged, answers) = reply
  BY DEF Recommend
<1>. HIDE DEF failed
<1>4. Continues(failed, similar)
  BY <1>1, SimilarContinues
<1>. HIDE DEF similar
<1>5. /\ frequent \in Seq(Questions)
      /\ \A i, j \in 1 .. Len(frequent) : i # j => frequent[i] # frequent[j]
      /\ \A q \in Questions : \E i \in 1 .. Len(frequent) : frequent[i] = q
  BY FrequentAre
<1>. HIDE DEF frequent
<1>6. Continues(failed, result)
  BY <1>1, <1>4, <1>5, ContinuesMore
<1>7. KeptOf(frequent, others, Len(frequent), more)
  BY <1>5, KeepIs
<1>8. \A q \in Questions : \E i \in 1 .. l : result[i] = q
  <2>1. /\ similar \in Seq(Questions) /\ more \in Seq(others)
    BY <1>4, <1>7 DEF Continues, KeptOf
  <2>. HIDE DEF more
  <2>2. /\ l = Len(similar) + Len(more) /\ Len(similar) \in Nat /\ Len(more) \in Nat
        /\ \A i \in 1 .. Len(similar) : result[i] = similar[i]
        /\ \A i \in 1 .. Len(more) : result[Len(similar) + i] = more[i]
    BY <2>1
  <2>. HIDE DEF result, l
  <2>3. ASSUME NEW q \in Questions PROVE \E i \in 1 .. l : result[i] = q
    <3>1. CASE q \in ToSet(similar)
      <4>1. PICK i \in 1 .. Len(similar) : similar[i] = q
        BY <2>1, <3>1 DEF ToSet
      <4>2. i \in 1 .. l
        BY <2>2
      <4>. QED
        BY <2>2, <4>1, <4>2
    <3>2. CASE q \notin ToSet(similar)
      <4>1. PICK i \in 1 .. Len(more) : more[i] = q
        <5>1. PICK j \in 1 .. Len(frequent) : frequent[j] = q
          BY <1>5
        <5>2. frequent[j] \in others
          BY <3>2, <5>1
        <5>3. \E i \in 1 .. Len(more) : more[i] = frequent[j]
          BY <1>7, <5>2 DEF KeptOf
        <5>. QED
          BY <5>1, <5>3
      <4>2. Len(similar) + i \in 1 .. l
        BY <2>2
      <4>. QED
        BY <2>2, <4>1, <4>2
    <3>. QED
      BY <3>1, <3>2
  <2>. QED
    BY <2>3
<1>. HIDE DEF more, result
<1>9. /\ result \in Seq(Questions) /\ l \in Nat /\ f <= l
      /\ \A i \in 1 .. f : result[i] = failed[i]
      /\ \A j \in f + 1 .. l : \A i \in 1 .. j - 1 : result[i] # result[j]
  BY <1>6 DEF Continues
<1>10. m \in Nat /\ m <= 6 /\ m <= l /\ (m = 6 \/ m = l)
  <2>1. {6, l} \in SUBSET Nat /\ {6, l} # {}
    BY <1>9
  <2>. HIDE DEF l
  <2>2. Min({6, l}) \in {6, l} /\ \A j \in {6, l} : Min({6, l}) <= j
    BY <2>1, LeastNumber
  <2>. QED
    BY <1>9, <2>2
<1>. HIDE DEF l, m, f
<1>11. reply \in Seq(Questions)
  <2>1. \A i \in 1 .. m : result[i] \in Questions
    BY <1>9, <1>10 DEF l
  <2>2. 1 \in Int /\ m \in Int
    BY <1>10
  <2>. QED
    BY <2>1, <2>2, SubSeqProperties
<1>12. Len(reply) = m /\ DOMAIN reply = 1 .. m /\ \A i \in 1 .. m : reply[i] = result[i] /\ i \in 1 .. l
  BY <1>9, <1>10 DEF l
<1>. HIDE DEF reply
<1>13. ASSUME NEW q \in Questions
       PROVE  /\ \/ Cardinality(Shown(reply, q)) <= 1
                 \/ Cardinality(Shown(reply, q)) <= Cardinality(WrongAt(user, q))
              /\ Cardinality(Shown(reply, q)) = 0 => Len(reply) = 6
  <2>. DEFINE shown == Shown(reply, q)
  <2>1. shown = {i \in 1 .. m : result[i] = q}
    BY <1>12 DEF Shown
  <2>2. IsFiniteSet(shown) /\ Cardinality(shown) \in Nat
    <3>1. IsFiniteSet(1 .. m)
      BY <1>10, FS_Interval
    <3>. QED
      BY <2>1, <3>1, FS_Subset, FS_CardinalityType
  <2>. HIDE DEF shown
  <2>3. CASE \A i, j \in shown : i = j
    <3>1. Cardinality(shown) <= 1
      <4>1. CASE shown = {}
        BY <4>1, FS_EmptySet
      <4>2. CASE shown # {}
        <5>1. PICK i \in shown : shown = {i}
          BY <2>3, <4>2
        <5>. QED
          <6>1. Cardinality({i}) = 1
            BY FS_Singleton
          <6>. QED
            BY <5>1, <6>1
      <4>. QED
        BY <4>1, <4>2
    <3>2. Cardinality(shown) = 0 => m = 6
      <4>1. ASSUME Cardinality(shown) = 0, m # 6 PROVE FALSE
        <5>1. shown = {} /\ m = l
          BY <1>10, <2>2, <4>1, FS_EmptySet
        <5>. QED
          BY <1>8, <2>1, <5>1 DEF l
      <4>. QED
        BY <4>1
    <3>. QED
      BY <1>12, <3>1, <3>2 DEF shown
  <2>4. CASE \E i, j \in shown : i # j
    <3>1. PICK i \in shown, j \in shown : i < j
      <4>1. \A i, j \in shown : i # j => i < j \/ j < i
        BY <1>10, <2>1
      <4>. QED
        BY <2>4, <4>1
    <3>2. ASSUME NEW k \in shown PROVE k \in 1 .. f /\ failed[k] = q
      <4>1. k \in 1 .. m /\ j \in 1 .. m /\ i \in 1 .. m /\ result[k] = q /\ result[i] = q /\ result[j] = q
        BY <2>1
      <4>2. k \in 1 .. l /\ \A x, y \in 1 .. l : x < y /\ result[x] = result[y] => y <= f
        <5>1. \A x, y \in 1 .. l : x < y /\ ~(y <= f) => y \in f + 1 .. l /\ x \in 1 .. y - 1
          BY <1>1, <1>9
        <5>. QED
          BY <1>9, <1>12, <4>1, <5>1
      <4>3. k <= f
        <5>1. i < k \/ k < j
          BY <1>10, <3>1, <4>1
        <5>2. j <= f
          BY <1>12, <3>1, <4>1, <4>2
        <5>3. i < k => k <= f
          BY <1>12, <4>1, <4>2
        <5>. QED
          BY <1>1, <1>10, <4>1, <5>1, <5>2, <5>3
      <4>4. k \in 1 .. f
        BY <1>1, <1>9, <4>2, <4>3
      <4>. QED
        BY <1>9, <4>1, <4>4
    <3>. DEFINE back == [k \in shown |-> at[k]]
    <3>3. back \in Injection(shown, WrongAt(user, q))
      <4>1. back \in [shown -> WrongAt(user, q)]
        BY <1>2, <3>2
      <4>2. \A x, y \in shown : back[x] = back[y] => x = y
        BY <1>2, <3>2
      <4>. QED
        BY <4>1, <4>2 DEF Injection, IsInjective
    <3>4. IsFiniteSet(WrongAt(user, q))
      <4>1. IsFiniteSet(Saved)
        BY SavedAre, FS_Interval DEF Saved
      <4>. QED
        BY <4>1, FS_Subset DEF WrongAt
    <3>. HIDE DEF back
    <3>5. Cardinality(shown) <= Cardinality(WrongAt(user, q))
      BY <3>3, <3>4, FS_Injection
    <3>6. Cardinality(shown) # 0
      BY <2>2, <3>1, FS_EmptySet
    <3>. QED
      BY <3>5, <3>6 DEF shown
  <2>. QED
    BY <2>3, <2>4
<1>14. Wide(user, reply)
  BY <1>10, <1>11, <1>12, <1>13 DEF Wide
<1>. QED
  BY <1>3, <1>14

(* what a request for recommendations was told *)
ToldWide(r) == r.op = "recommend" /\ r.done => Wide(r.user, r.reply)
Widely == \A c \in Clients : ToldWide(req[c])

(* how often a question is recommended is a number *)
LEMMA ShownCounted ==
    ASSUME NEW reply \in Seq(Questions), NEW q
    PROVE  Cardinality(Shown(reply, q)) \in Nat
<1>1. Len(reply) \in Nat /\ DOMAIN reply = 1 .. Len(reply)
  OBVIOUS
<1>2. IsFiniteSet(DOMAIN reply)
  BY <1>1, FS_Interval
<1>. QED
  BY <1>2, FS_Subset, FS_CardinalityType DEF Shown

(* Answers are only added: a reply that was wide stays so.                 *)
LEMMA WideStays ==
    ASSUME Numbered, Numbered', NEW user, NEW reply, Wide(user, reply),
           Saved \subseteq Saved', \A k \in Saved : userAnswers'[k] = userAnswers[k]
    PROVE  Wide(user, reply)'
<1>1. ASSUME NEW q \in Questions
      PROVE  Cardinality(WrongAt(user, q)) <= Cardinality(WrongAt(user, q)')
             /\ Cardinality(WrongAt(user, q)) \in Nat /\ Cardinality(WrongAt(user, q)') \in Nat
  <2>1. WrongAt(user, q) \subseteq WrongAt(user, q)'
    BY DEF WrongAt
  <2>2. IsFiniteSet(WrongAt(user, q)')
    <3>1. Len(userAnswers') \in Nat
      BY DEF Numbered
    <3>2. IsFiniteSet(Saved')
      BY <3>1, FS_Interval DEF Saved
    <3>. QED
      BY <3>2, FS_Subset DEF WrongAt
  <2>. QED
    BY <2>1, <2>2, FS_Subset, FS_CardinalityType
<1>2. ASSUME NEW q \in Questions
      PROVE  /\ \/ Cardinality(Shown(reply, q)) <= 1
                \/ Cardinality(Shown(reply, q)) <= Cardinality(WrongAt(user, q)')
             /\ Cardinality(Shown(reply, q)) = 0 => Len(reply) = 6
  <2>. DEFINE s == Cardinality(Shown(reply, q))
              n == Cardinality(WrongAt(user, q))
              m == Cardinality(WrongAt(user, q)')
  <2>1. (s <= 1 \/ s <= n) /\ (s = 0 => Len(reply) = 6) /\ n <= m /\ n \in Nat /\ m \in Nat
    BY <1>1 DEF Wide
  <2>2. s \in Nat
    BY ShownCounted DEF Wide
  <2>. HIDE DEF s, n, m
  <2>3. s <= 1 \/ s <= m
    BY <2>1, <2>2
  <2>. QED
    BY <2>1, <2>3 DEF s, m
<1>. QED
  BY <1>2 DEF Wide, Shown

(* A reply to a request for recommendations is made from the answers of    *)
(* that moment; the other steps only add answers.                          *)
LEMMA WidelyKept ==
    ASSUME Inv, Inv', Widely, [Next]_vars
    PROVE  Widely'
<1>1. Numbered /\ Numbered' /\ RequestsTyped /\ req \in [Clients -> Requests]
  BY DEF Inv, RequestsTyped
<1>2. Saved \subseteq Saved' /\ \A k \in Saved : userAnswers'[k] = userAnswers[k]
  <2>1. CASE UNCHANGED userAnswers
    BY <2>1 DEF Saved
  <2>2. ASSUME NEW c \in Clients, SaveUserAnswer(c)
        PROVE  Saved \subseteq Saved' /\ \A k \in Saved : userAnswers'[k] = userAnswers[k]
    <3>1. PICK new : userAnswers' = Append(userAnswers, new)
      BY <2>2 DEF SaveUserAnswer
    <3>2. userAnswers \in Seq(Answers) /\ Len(userAnswers) \in Nat
      BY <1>1 DEF Numbered
    <3>3. Len(userAnswers') = Len(userAnswers) + 1
          /\ \A k \in 1 .. Len(userAnswers) : userAnswers'[k] = userAnswers[k]
      BY <3>1, <3>2
    <3>. QED
      BY <3>2, <3>3 DEF Saved
  <2>3. CASE Next
    BY <2>1, <2>2, <2>3 DEF Next, Tick, Submit, UpdateStatus, Query, Answer, Receive
  <2>. QED
    BY <2>1, <2>3 DEF vars
<1>3. ASSUME NEW d \in Clients PROVE ToldWide(req'[d])
  <2>1. CASE req' = req
    BY <2>1 DEF Widely
  <2>2. ASSUME NEW c \in Clients, NEW r, req' = [req EXCEPT ![c] = r], ToldWide(r)
        PROVE  ToldWide(req'[d])
    <3>1. req'[d] = IF d = c THEN r ELSE req[d]
      BY <1>1, <2>2
    <3>. QED
      BY <2>2, <3>1 DEF Widely
  <2>3. ASSUME NEW c \in Clients, Submit(c) \/ Query(c) PROVE ToldWide(req'[d])
    <3>1. ~NoReq.done
      BY DEF NoReq
    <3>2. ASSUME Submit(c) PROVE \E r : req' = [req EXCEPT ![c] = r] /\ ~r.done
      <4>1. PICK s : req' = [req EXCEPT ![c] = [NoReq EXCEPT !.op = "submit", !.user = s.user,
                                  !.question = s.question, !.score = Evaluate(s)]]
        BY <3>2 DEF Submit, Ask
      <4>. DEFINE r == [NoReq EXCEPT !.op = "submit", !.user = s.user, !.question = s.question,
                                     !.score = Evaluate(s)]
      <4>2. ~r.done
        BY DEF NoReq
      <4>. QED
        BY <4>1, <4>2
    <3>3. ASSUME Query(c) PROVE \E r : req' = [req EXCEPT ![c] = r] /\ ~r.done
      <4>1. CASE Ask(c, [NoReq EXCEPT !.op = "answers", !.user = 1, !.known = acked])
        <5>. DEFINE r == [NoReq EXCEPT !.op = "answers", !.user = 1, !.known = acked]
        <5>1. ~r.done
          BY DEF NoReq
        <5>. QED
          BY <4>1, <5>1 DEF Ask
      <4>2. ASSUME NEW user \in {1, 2}, NEW op \in {"status", "recommend"},
                   Ask(c, [NoReq EXCEPT !.op = op, !.user = user, !.question = 1, !.known = acked])
            PROVE  \E r : req' = [req EXCEPT ![c] = r] /\ ~r.done
        <5>. DEFINE r == [NoReq EXCEPT !.op = op, !.user = user, !.question = 1, !.known = acked]
        <5>1. ~r.done
          BY DEF NoReq
        <5>. QED
          BY <4>2, <5>1 DEF Ask
      <4>. QED
        BY <3>3, <4>1, <4>2 DEF Query
    <3>4. PICK r : req' = [req EXCEPT ![c] = r] /\ ~r.done
      BY <2>3, <3>2, <3>3
    <3>5. ToldWide(r)
      BY <3>4 DEF ToldWide
    <3>. QED
      BY <2>2, <3>4, <3>5
  <2>4. ASSUME NEW c \in Clients, Receive(c) PROVE ToldWide(req'[d])
    <3>1. req' = [req EXCEPT ![c] = NoReq] /\ ToldWide(NoReq)
      BY <2>4 DEF Receive, NoReq, ToldWide
    <3>. QED
      BY <2>2, <3>1
  <2>5. ASSUME NEW c \in Clients, SaveUserAnswer(c) PROVE ToldWide(req'[d])
    <3>1. req[c].op = "submit" /\ Reply(c, <<Len(userAnswers) + 1>>)
      BY <2>5 DEF SaveUserAnswer, Asked
    <3>2. <<Len(userAnswers) + 1>> \in Replies
      <4>1. Len(userAnswers) + 1 \in Nat
        BY <1>1 DEF Numbered
      <4>. QED
        BY <4>1 DEF Replies
    <3>3. PICK r \in Requests : req' = [req EXCEPT ![c] = r] /\ r.op = req[c].op
      BY <1>1, <3>1, <3>2, ReplyIs
    <3>4. ToldWide(r)
      BY <3>1, <3>3 DEF ToldWide
    <3>. QED
      BY <2>2, <3>3, <3>4
  <2>6. ASSUME NEW c \in Clients, Answer(c) PROVE ToldWide(req'[d])
    <3>1. PICK answers \in Newest(req[c].user) :
              \/ Asked(c, "answers")   /\ Reply(c, answers)
              \/ Asked(c, "status")    /\ Reply(c, <<StatusOf(answers, req[c].question)>>)
              \/ Asked(c, "recommend") /\ Reply(c, Recommend(tags, answers))
      BY <2>6 DEF Answer
    <3>2. answers \in Seq(Answers) /\ tags \in Seeds
      BY <1>1, NewestIs DEF RequestsTyped
    <3>3. CASE Asked(c, "answers") /\ Reply(c, answers)
      <4>1. answers \in Replies
        BY <3>2 DEF Replies
      <4>2. PICK r \in Requests : req' = [req EXCEPT ![c] = r] /\ r.op = req[c].op
        BY <1>1, <3>3, <4>1, ReplyIs
      <4>3. ToldWide(r)
        BY <3>3, <4>2 DEF Asked, ToldWide
      <4>. QED
        BY <2>2, <4>2, <4>3
    <3>4. CASE Asked(c, "status") /\ Reply(c, <<StatusOf(answers, req[c].question)>>)
      <4>. DEFINE status == StatusOf(answers, req[c].question)
      <4>1. status \in {"scored", "todo"}
        BY <3>2, StatusIs
      <4>. HIDE DEF status
      <4>2. <<status>> \in Replies
        BY <4>1 DEF Replies
      <4>3. Reply(c, <<status>>)
        BY <3>4 DEF status
      <4>4. PICK r \in Requests : req' = [req EXCEPT ![c] = r] /\ r.op = req[c].op
        BY <1>1, <4>2, <4>3, ReplyIs
      <4>5. ToldWide(r)
        BY <3>4, <4>4 DEF Asked, ToldWide
      <4>. QED
        BY <2>2, <4>4, <4>5
    <3>5. CASE Asked(c, "recommend") /\ Reply(c, Recommend(tags, answers))
      <4>1. Recommend(tags, answers) \in Replies
        BY <3>2 DEF Replies
      <4>2. PICK r \in Requests : /\ req' = [req EXCEPT ![c] = r] /\ r.user = req[c].user
                                  /\ r.reply = Recommend(tags, answers)
        BY <1>1, <3>5, <4>1, ReplyIs
      <4>3. Wide(req[c].user, Recommend(tags, answers))
        BY <1>1, <3>1, RecommendsWide
      <4>4. ToldWide(r)
        BY <4>2, <4>3 DEF ToldWide
      <4>. QED
        BY <2>2, <4>2, <4>4
    <3>. QED
      BY <3>1, <3>3, <3>4, <3>5
  <2>7. CASE Next
    BY <2>1, <2>3, <2>4, <2>5, <2>6, <2>7 DEF Next, Tick, UpdateStatus
  <2>. QED
    BY <2>1, <2>7 DEF vars
<1>4. ASSUME NEW r, ToldWide(r) PROVE ToldWide(r)'
  <2>1. CASE r.op = "recommend" /\ r.done
    <3>1. Wide(r.user, r.reply)
      BY <1>4, <2>1 DEF ToldWide
    <3>2. Wide(r.user, r.reply)'
      BY <1>1, <1>2, <3>1, WideStays
    <3>. QED
      BY <3>2 DEF ToldWide
  <2>. QED
    BY <2>1 DEF ToldWide
<1>. QED
  BY <1>3, <1>4 DEF Widely

(* The answers are as many as the places they are stored at.               *)
LEMMA WidelyIsEnough == Inv /\ Widely => RecommendsWidely
<1>. SUFFICES ASSUME Inv, Widely PROVE RecommendsWidely
  OBVIOUS
<1>. DEFINE shown(r, q) == Cardinality({i \in DOMAIN r.reply : r.reply[i] = q})
            wrong(r, q) == {a \in ToSet(userAnswers) :
                               a.user = r.user /\ a.question = q /\ a.score < 70}
<1>1. ASSUME NEW r \in Replied("recommend"), NEW q \in Questions
      PROVE  /\ Len(r.reply) <= 6
             /\ shown(r, q) <= 1 \/ shown(r, q) <= Cardinality(wrong(r, q))
             /\ shown(r, q) = 0 => Len(r.reply) = 6
  <2>. DEFINE failed == wrong(r, q)
              at == [k \in WrongAt(r.user, q) |-> userAnswers[k]]
  <2>1. Wide(r.user, r.reply)
    BY DEF Replied, Widely, ToldWide
  <2>2. /\ Len(userAnswers) \in Nat
        /\ \A k \in Saved : userAnswers[k].id = k
        /\ ToSet(userAnswers) = {userAnswers[k] : k \in Saved}
    BY SavedAre DEF Inv
  <2>3. IsFiniteSet(Saved)
    BY <2>2, FS_Interval DEF Saved
  <2>4. at \in Surjection(WrongAt(r.user, q), failed)
    BY <2>2 DEF Surjection, WrongAt
  <2>5. at \in Injection(WrongAt(r.user, q), failed)
    <3>1. \A j, k \in WrongAt(r.user, q) : at[j] = at[k] => j = k
      BY <2>2 DEF WrongAt
    <3>. QED
      BY <2>4, <3>1 DEF Surjection, Injection, IsInjective
  <2>6. IsFiniteSet(WrongAt(r.user, q))
    BY <2>3, FS_Subset DEF WrongAt
  <2>. HIDE DEF failed, at
  <2>7. IsFiniteSet(failed)
    BY <2>4, <2>6, FS_Surjection
  <2>8. Cardinality(WrongAt(r.user, q)) <= Cardinality(failed)
        /\ Cardinality(WrongAt(r.user, q)) \in Nat /\ Cardinality(failed) \in Nat
    BY <2>5, <2>6, <2>7, FS_Injection, FS_CardinalityType
  <2>9. shown(r, q) = Cardinality(Shown(r.reply, q)) /\ shown(r, q) \in Nat
    BY <2>1, ShownCounted DEF Wide, Shown
  <2>10. /\ Len(r.reply) <= 6
         /\ shown(r, q) <= 1 \/ shown(r, q) <= Cardinality(WrongAt(r.user, q))
         /\ shown(r, q) = 0 => Len(r.reply) = 6
    BY <2>1, <2>9 DEF Wide
  <2>. HIDE DEF shown
  <2>11. shown(r, q) <= Cardinality(WrongAt(r.user, q)) => shown(r, q) <= Cardinality(failed)
    BY <2>8, <2>9
  <2>. QED
    BY <2>10, <2>11 DEF failed
<1>2. Questions # {}
  BY DEF Questions
<1>. HIDE DEF Questions
<1>. QED
  BY <1>1, <1>2 DEF RecommendsWidely

(* However the requests interleave, and whatever was answered: at most six *)
(* questions are recommended, one is repeated only as often as the user    *)
(* answered it wrongly, and none is missing while there is room.           *)
THEOREM RecommendationsAreWide == Spec => []RecommendsWidely
<1>1. Init => Widely
  BY DEF Init, NoReq, Widely, ToldWide
<1>2. Inv /\ Inv' /\ Widely /\ [Next]_vars => Widely'
  BY WidelyKept
<1>. QED
  BY <1>1, <1>2, InvHolds, WidelyIsEnough, PTL DEF Spec

=============================================================================
