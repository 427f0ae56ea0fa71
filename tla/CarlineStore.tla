---------------------------- MODULE CarlineStore ----------------------------
(***************************************************************************)
(* The interview trainer's back end, ai-carline-code/backend: requests     *)
(* (internal/api) run concurrently over services and one store in memory   *)
(* (internal/store) under a reader-writer lock.  Users, questions and      *)
(* standard answers never change after the seed, so that of the regions    *)
(* under the lock only those that touch the answers and the progress are   *)
(* steps of their own.                                                     *)
(***************************************************************************)
EXTENDS Integers, Sequences, SequencesExt, FiniteSets, FiniteSetsExt, TLC

CONSTANTS
    Clients,    (* requests in flight *)
    NAnswers,   (* bound: answers saved *)
    MaxTime     (* bound: the clock *)

ASSUME CarlineAssumption == NAnswers \in Nat /\ MaxTime \in Nat

(* the seed: its one user, its questions with their frequency weights *)
Users     == {1}
Questions == 1 .. 4
Weight    == <<9, 10, 8, 7>>
(* Bound: no two questions of the seed share a tag; two of another one do. *)
Seeds == {<<{"process"}, {"tcp"}, {"go"}, {"epoll"}>>,
          <<{"process", "kernel"}, {"tcp"}, {"go"}, {"epoll", "kernel"}>>}

(* Bound: what is submitted: for whom, to which question, how many of the  *)
(* twelve keywords it contains, whether it is longer than 120 bytes.       *)
Submission(user, question, matched, long) ==
    [user |-> user, question |-> question, matched |-> matched, long |-> long]
Blank == -1
Submissions == {Submission(1, 1, 8, TRUE), Submission(1, 1, 9, FALSE), Submission(1, 4, 0, TRUE),
                Submission(1, 9, 12, FALSE), Submission(2, 1, 12, FALSE), Submission(1, 1, Blank, FALSE)}
Patches == {<<1, 1, "mastered">>, <<1, 4, "bogus">>, <<1, 9, "mastered">>, <<2, 1, "mastered">>}

VARIABLES
    tags,          (* of the questions *)
    userAnswers, userProgress,   (* nextAnswerID is one more than the answers *)
    now,           (* external: the clock *)
    acked,         (* answers whose submission has been acknowledged *)
    req            (* the request each client waits for *)

vars == <<tags, userAnswers, userProgress, now, acked, req>>

NoReq == [op |-> "none", done |-> FALSE, user |-> 0, question |-> 0, score |-> 0,
          known |-> {}, reply |-> <<>>]

Init ==
    /\ tags \in Seeds
    /\ userAnswers = <<>> /\ userProgress = <<>>
    /\ now = 0 /\ acked = {}
    /\ req = [c \in Clients |-> NoReq]

-----------------------------------------------------------------------------
(* Evaluate *)
KeywordCount == 12
Evaluate(s) ==
    LET score == (s.matched * 100) \div KeywordCount
    IN  Min({98, IF score < 45 /\ s.long THEN score + 8 ELSE score})

(* ListUserAnswers: newest first, in some order if they are equally old *)
Newest(user) ==
    LET own == {a \in ToSet(userAnswers) : a.user = user} IN
    {s \in SetToSeqs(own) : \A i, j \in 1 .. Len(s) : i < j => s[i].at >= s[j].at}

(* getStatus: of the newest answer to the question, not of userProgress *)
StatusOf(answers, question) ==
    LET own == {i \in 1 .. Len(answers) : answers[i].question = question}
    IN  IF own = {} THEN "todo" ELSE answers[Min(own)].status

(* the members of a sequence that are in a set, in its order *)
Keep(s, set) == FoldLeft(LAMBDA out, x : IF x \in set THEN Append(out, x) ELSE out, <<>>, s)

ListQuestions == [p \in Questions |-> p]

ByWeight == CHOOSE s \in SetToSeqs(Questions) :
                \A i, j \in DOMAIN s : i < j => Weight[s[i]] > Weight[s[j]]
HighFrequencyQuestions(limit) == SubSeq(ByWeight, 1, Min({limit, Len(ByWeight)}))

(* the questions of the answers with a low score *)
Failed(answers) ==
    LET wrong == Keep(answers, {a \in ToSet(answers) : a.score < 70})
    IN  [i \in DOMAIN wrong |-> wrong[i].question]

(* Mutation: what was answered wrongly is not marked as seen. *)
RecommendUnmarked(tagged, answers) ==
    LET result == Failed(answers) \o HighFrequencyQuestions(6)
    IN  SubSeq(result, 1, Min({6, Len(result)}))

(* those, and after them, each once, the questions that share a tag with one *)
WithSimilar(tagged, failed) ==
    LET Like(q) == {p \in Questions \ {q} : tagged[p] \cap tagged[q] # {}}
    IN  FoldLeft(LAMBDA out, q : out \o Keep(ListQuestions, Like(q) \ ToSet(out)), failed, failed)

(* Recommend: wrong answers, similar questions, frequent questions, and    *)
(* the first six of these                                                  *)
Recommend(tagged, answers) ==
    LET similar == WithSimilar(tagged, Failed(answers))
        result  == similar \o Keep(HighFrequencyQuestions(6), Questions \ ToSet(similar))
    IN  SubSeq(result, 1, Min({6, Len(result)}))

-----------------------------------------------------------------------------
(* Requests *)

Ask(c, r) == req[c] = NoReq /\ req' = [req EXCEPT ![c] = r]
Reply(c, reply) == req' = [req EXCEPT ![c].done = TRUE, ![c].reply = reply]

Asked(c, op) == req[c].op = op /\ ~req[c].done
Pending == {c \in Clients : Asked(c, "submit")}

(* SubmitAnswer up to the evaluation; a refused one changes nothing *)
Submit(c) ==
    /\ Len(userAnswers) + Cardinality(Pending) < NAnswers
    /\ \E s \in Submissions :
          /\ s.user \in Users /\ s.matched # Blank /\ s.question \in Questions
          /\ Ask(c, [NoReq EXCEPT !.op = "submit", !.user = s.user, !.question = s.question,
                                  !.score = Evaluate(s)])
    /\ UNCHANGED <<tags, userAnswers, userProgress, now, acked>>

SetProgress(user, question, status) ==
    userProgress' = (<<user, question>> :> status) @@ userProgress

(* Mutation: the number counts the requests that have ended. *)
SaveNumbersEnded(c) ==
    LET r == req[c] IN
    /\ Asked(c, "submit")
    /\ userAnswers' = Append(userAnswers, [id |-> Cardinality(acked) + 1, user |-> r.user,
           question |-> r.question, score |-> r.score, status |-> "scored", at |-> now])
    /\ SetProgress(r.user, r.question, "scored")
    /\ Reply(c, <<Cardinality(acked) + 1>>)
    /\ UNCHANGED <<tags, now, acked>>

(* SaveUserAnswer *)
SaveUserAnswer(c) ==
    LET r  == req[c]
        id == Len(userAnswers) + 1
    IN  /\ Asked(c, "submit")
        /\ userAnswers' = Append(userAnswers, [id |-> id, user |-> r.user, question |-> r.question,
                                               score |-> r.score, status |-> "scored", at |-> now])
        /\ SetProgress(r.user, r.question, "scored")
        /\ Reply(c, <<id>>)
        /\ UNCHANGED <<tags, now, acked>>

(* UpdateStatus *)
UpdateStatus(c) ==
    \E p \in Patches :
        /\ p[3] \in {"todo", "submitted", "scored", "mastered"}
        /\ p[1] \in Users /\ p[2] \in Questions
        /\ req[c] = NoReq
        /\ SetProgress(p[1], p[2], p[3])
        /\ UNCHANGED <<tags, userAnswers, now, acked, req>>

(* UserAnswers, QuestionByID and HomeRecommendations: a request arrives;   *)
(* recommendations are made for users nobody knows as well *)
Query(c) ==
    /\ \/ Ask(c, [NoReq EXCEPT !.op = "answers", !.user = 1, !.known = acked])
       \/ \E user \in {1, 2}, op \in {"status", "recommend"} :
             Ask(c, [NoReq EXCEPT !.op = op, !.user = user, !.question = 1, !.known = acked])
    /\ UNCHANGED <<tags, userAnswers, userProgress, now, acked>>

Answer(c) ==
    /\ \E answers \in Newest(req[c].user) :
          \/ Asked(c, "answers")   /\ Reply(c, answers)
          \/ Asked(c, "status")    /\ Reply(c, <<StatusOf(answers, req[c].question)>>)
          \/ Asked(c, "recommend") /\ Reply(c, Recommend(tags, answers))
    /\ UNCHANGED <<tags, userAnswers, userProgress, now, acked>>

Receive(c) ==
    /\ req[c].done
    /\ acked' = IF req[c].op = "submit" THEN acked \cup ToSet(req[c].reply) ELSE acked
    /\ req' = [req EXCEPT ![c] = NoReq]
    /\ UNCHANGED <<tags, userAnswers, userProgress, now>>

Tick ==
    /\ now < MaxTime /\ now' = now + 1
    /\ UNCHANGED <<tags, userAnswers, userProgress, acked, req>>

Next ==
    \/ Tick
    \/ \E c \in Clients : Submit(c) \/ SaveUserAnswer(c) \/ UpdateStatus(c) \/ Query(c)
                          \/ Answer(c) \/ Receive(c)

Spec == Init /\ [][Next]_vars

Symmetry == Permutations(Clients)

-----------------------------------------------------------------------------
Replied(op) == {r \in {req[c] : c \in Clients} : r.op = op /\ r.done}

(* What a user reads agrees with what the user was told: whatever requests *)
(* run at the same time, a list of answers holds every answer acknowledged *)
(* before the list was asked for, once, newest first; a question shows as  *)
(* scored if such an answer is to it and as todo if there is no answer,    *)
(* and a status set by hand never shows. *)
ReadsSeeAcknowledged ==
    /\ \A r \in Replied("answers") :
          /\ r.known \subseteq {r.reply[i].id : i \in DOMAIN r.reply}
          /\ \A i, j \in DOMAIN r.reply :
                i < j => r.reply[i].id # r.reply[j].id /\ r.reply[i].at >= r.reply[j].at
    /\ \A r \in Replied("status") :
          LET own == {a \in ToSet(userAnswers) : a.user = r.user /\ a.question = r.question}
          IN  /\ (\E a \in own : a.id \in r.known) => r.reply = <<"scored">>
              /\ own = {} => r.reply = <<"todo">>

(* Recommendations are at most six, and no question crowds another out     *)
(* without having been answered wrongly: a question is repeated only as    *)
(* often as it was answered wrongly, and one is missing only if six others *)
(* or repetitions of it are shown. *)
RecommendsWidely ==
    \A r \in Replied("recommend") :
        LET shown(q)  == Cardinality({i \in DOMAIN r.reply : r.reply[i] = q})
            failed(q) == Cardinality({a \in ToSet(userAnswers) :
                             a.user = r.user /\ a.question = q /\ a.score < 70})
        IN  /\ Len(r.reply) <= 6
            /\ \A q \in Questions : /\ shown(q) <= 1 \/ shown(q) <= failed(q)
                                    /\ shown(q) = 0 => Len(r.reply) = 6
=============================================================================
