------------------------ MODULE SessionServerProofs ------------------------
(***************************************************************************)
(* Theorems about SessionServer, for every value of its constants.         *)
(***************************************************************************)
EXTENDS SessionServer, SequenceLemmas, FiniteSetTheorems, SequenceTheorems, TLAPS

-----------------------------------------------------------------------------
\* Prompts.

Message == {m \in [role : {"system", "user"}, content : Seq(Token)] :
              m.role = "system" => m.content # << >>}

\* Pruning leaves messages of the conversation.
LEMMA PruneMessagesType ==
  ASSUME NEW messages \in Seq(Message), NEW max
  PROVE  PruneMessages(messages, max) \in Seq(Message)
<1> DEFINE kept    == IF StartsWithSystem(messages) THEN 1 ELSE 0
           Less(k) == SubSeq(messages, 1, kept)
                        \o SubSeq(messages, kept + k + 1, Len(messages))
           enough  == {k \in 0 .. Len(messages) - kept :
                         Len(Encoded(Less(k))) <= max \/ k = Len(messages) - kept}
           least   == CHOOSE k \in enough : \A j \in enough : k <= j
<1>1. CASE messages = << >>
  BY <1>1 DEF PruneMessages
<1>2. CASE messages # << >>
  <2>1. Len(messages) \in Nat /\ Len(messages) >= 1 /\ kept \in {0, 1}
    BY <1>2
  <2>2. Len(messages) - kept \in enough
    BY <2>1
  <2>3. enough \in SUBSET Nat
    BY <2>1
  <2>4. \E k \in enough : \A j \in enough : k <= j
    <3> HIDE DEF enough
    <3>1. QED
      BY <2>2, <2>3, MinOfNats
  <2>5. least \in enough
    <3> HIDE DEF enough
    <3>1. QED
      BY <2>4
  <2>6. least \in Nat
    BY <2>3, <2>5
  <2>7. PruneMessages(messages, max) = Less(least)
    BY <1>2 DEF PruneMessages
  <2> HIDE DEF least, enough
  <2>8. SubSeq(messages, 1, kept) \in Seq(Message)
    BY <2>1
  <2>9. SubSeq(messages, kept + least + 1, Len(messages)) \in Seq(Message)
    BY <2>1, <2>6
  <2>10. QED
    BY <2>7, <2>8, <2>9
<1>3. QED
  BY <1>1, <1>2

\* The tokens of messages are tokens, and a system message has some.
LEMMA EncodedType ==
  ASSUME NEW messages \in Seq(Message)
  PROVE  /\ Encoded(messages) \in Seq(Token)
         /\ StartsWithSystem(messages) => Encoded(messages) # << >>
<1> DEFINE contents == [i \in DOMAIN messages |-> messages[i].content]
<1>1. DOMAIN messages = 1 .. Len(messages) /\ Len(messages) \in Nat
  OBVIOUS
<1>2. \A i \in 1 .. Len(messages) : messages[i].content \in Seq(Token)
  BY DEF Message
<1>3. contents \in Seq(Seq(Token)) /\ Len(contents) = Len(messages)
  BY <1>1, <1>2
<1>4. Encoded(messages) = FlattenSeq(contents)
  BY DEF Encoded
<1>5. ASSUME StartsWithSystem(messages)
      PROVE  contents # << >> /\ Len(contents[1]) >= 1
  <2>1. 1 \in 1 .. Len(messages) /\ messages[1].role = "system"
    BY <1>5 DEF StartsWithSystem
  <2>2. messages[1] \in Message
    BY <2>1
  <2>3. messages[1].content \in Seq(Token) /\ messages[1].content # << >>
    BY <2>1, <2>2 DEF Message
  <2>4. contents[1] = messages[1].content
    BY <1>1, <2>1
  <2>5. Len(messages[1].content) >= 1
    BY <2>3
  <2>6. contents # << >>
    BY <1>3, <2>1
  <2>7. QED
    BY <2>4, <2>5, <2>6
<1> HIDE DEF contents
<1>6. QED
  <2>1. Encoded(messages) \in Seq(Token)
    BY <1>3, <1>4, FlattenSeqProperties
  <2>2. ASSUME StartsWithSystem(messages) PROVE Len(Encoded(messages)) >= 1
    <3>1. contents[1] \in Seq(Token)
      BY <1>3, <1>5, <2>2
    <3>2. Len(contents[1]) <= Len(Encoded(messages))
      BY <1>3, <1>4, <1>5, <2>2, FlattenSeqProperties
    <3>3. QED
      BY <1>5, <2>1, <2>2, <3>1, <3>2
  <2>3. QED
    BY <2>1, <2>2

\* A prompt is made of tokens, and never empty.
LEMMA InputIdsType ==
  ASSUME NEW messages \in Conversations, NEW max_gen
  PROVE  /\ InputIds(messages, max_gen) \in Seq(Token)
         /\ InputIds(messages, max_gen) # << >>
<1> DEFINE pruned == PruneMessages(messages, MaxSeq - max_gen)
<1>1. messages \in Seq(Message)
  <2>1. messages \in Seq([role : {"system", "user"}, content : Seq(Token)])
    BY ConversationAssumption
  <2>2. ASSUME NEW i \in 1 .. Len(messages) PROVE messages[i] \in Message
    <3>1. messages[i] \in [role : {"system", "user"}, content : Seq(Token)]
      BY <2>1, ElementOfSeq, Zenon
    <3>2. i \in DOMAIN messages
      BY <2>1
    <3>3. messages[i].role = "system" => messages[i].content # << >>
      BY <3>2, PromptAssumption
    <3>4. QED
      BY <3>1, <3>3 DEF Message
  <2>3. QED
    BY <2>1, <2>2
<1>2. pruned \in Seq(Message)
  BY <1>1, PruneMessagesType
<1> HIDE DEF pruned
<1>3. /\ Encoded(pruned) \in Seq(Token)
      /\ StartsWithSystem(pruned) => Encoded(pruned) # << >>
  BY <1>2, EncodedType
<1>4. SystemPrompt \in Seq(Token) /\ SystemPrompt # << >>
  BY TokenAssumption, PromptAssumption
<1>5. /\ SystemPrompt \o Encoded(pruned) \in Seq(Token)
      /\ SystemPrompt \o Encoded(pruned) # << >>
  BY <1>3, <1>4
<1>6. InputIds(messages, max_gen) = IF StartsWithSystem(pruned) THEN Encoded(pruned)
                                    ELSE SystemPrompt \o Encoded(pruned)
  BY DEF InputIds, pruned
<1>7. QED
  BY <1>3, <1>5, <1>6

\* MatchLen finds a place up to which two sequences agree.
LEMMA MatchLenProperties ==
  ASSUME NEW S, NEW a \in Seq(S), NEW b \in Seq(S)
  PROVE  /\ MatchLen(a, b) \in Nat
         /\ MatchLen(a, b) <= Len(a) /\ MatchLen(a, b) <= Len(b)
         /\ \A i \in 1 .. MatchLen(a, b) : a[i] = b[i]
<1> DEFINE D == {n \in 1 .. Len(a) : n <= Len(b) /\ \A i \in 1 .. n : a[i] = b[i]}
           F == {n \in Nat : n + 1 \notin D}
<1>1. Len(a) \in Nat /\ Len(b) \in Nat
  OBVIOUS
<1>2. ASSUME NEW n \in D, NEW k \in 1 .. n PROVE k \in D
  BY <1>1
<1>3. Len(a) \in F
  BY <1>1
<1>4. PICK k \in F : \A n \in F : k <= n
  <2>1. F \in SUBSET Nat /\ F # {}
    BY <1>3
  <2> HIDE DEF F
  <2>2. QED
    BY <2>1, MinOfNats
<1>5. k \in Nat /\ k + 1 \notin D
  BY <1>4
<1>6. ASSUME NEW n \in 1 .. k PROVE n \in D
  <2>1. n - 1 \in Nat /\ n - 1 < k
    BY <1>5
  <2>2. n - 1 \notin F
    <3>1. ~ (k <= n - 1)
      BY <1>5, <2>1
    <3> HIDE DEF F
    <3>2. QED
      BY <1>4, <3>1
  <2>3. (n - 1) + 1 \in D
    BY <2>1, <2>2
  <2>4. QED
    BY <1>5, <2>3
<1>7. D \subseteq Nat
  BY <1>1
<1>8. ASSUME NEW n \in D PROVE n \in 1 .. k
  <2>1. n \in Nat /\ n >= 1
    BY <1>1
  <2>2. ~ (n > k)
    <3>1. n > k => k + 1 \in 1 .. n
      BY <1>5, <2>1
    <3>2. QED
      BY <1>2, <1>5, <3>1
  <2>3. QED
    BY <1>5, <2>1, <2>2
<1>9. D = 1 .. k
  <2> HIDE DEF D
  <2>1. QED
    BY <1>6, <1>8
<1>10. Cardinality(D) = k
  <2>1. Cardinality(1 .. k) = k
    BY <1>5, FS_Interval
  <2>2. QED
    BY <1>9, <2>1
<1>11. MatchLen(a, b) = k
  BY <1>10 DEF MatchLen
<1>12. CASE k = 0
  BY <1>1, <1>11, <1>12
<1>13. CASE k > 0
  <2>1. k \in D
    BY <1>5, <1>6, <1>13
  <2>2. QED
    BY <1>1, <1>5, <1>11, <2>1
<1>14. QED
  BY <1>5, <1>12, <1>13

-----------------------------------------------------------------------------
\* The inductive invariant.

\* A response that goes on has a C session of its own, marked in use.
Serving ==
  \A r \in Requests : Live(r) =>
    /\ stream[r].session \in alive \ leaked
    /\ in_use[stream[r].session]

\* No two responses have the same one.
Alone ==
  \A r, q \in Requests :
    Live(r) /\ Live(q) /\ stream[r].session = stream[q].session => r = q

\* Nothing else marks a session but a response dropped before its first chunk.
Busy ==
  /\ \A p \in Sessions : in_use[p] =>
       p \in leaked \/ \E r \in Requests : Live(r) /\ stream[r].session = p
  /\ \A p \in leaked : p \in alive /\ in_use[p]

\* Each C session has one entry of the store, under an id of its own, and one
\* place in the order of last use.
EntriesOf(s, held) ==
  /\ {s[i].session : i \in DOMAIN s} = held
  /\ \A i, j \in 1 .. Len(s) : s[i].session = s[j].session => i = j
  /\ \A i, j \in 1 .. Len(s) : s[i].sid = s[j].sid => i = j
  /\ \A i \in 1 .. Len(s) : s[i].sid \in Sids \cup {s[i].session}
Entries == EntriesOf(store, alive)
Order ==
  /\ Range(recency) = alive
  /\ \A i, j \in 1 .. Len(recency) : recency[i] = recency[j] => i = j

\* s is where t begins.
Leads(s, t) == Len(s) <= Len(t) /\ \A i \in 1 .. Len(s) : s[i] = t[i]

\* The rows of a session are those of its tokens, or at least no more than them.
Rows(rows, tokens, skewed) == Len(rows) <= Len(tokens) /\ (~skewed => Leads(rows, tokens))
RowsFollow == \A p \in Sessions : Rows(cache[p], history[p], askew[p])

\* A response before its first forward: the history is its prompt, the tokens
\* to feed are the end of it, and the rows leave room for them.
Fed(ids) == IF ids = << >> THEN 1 ELSE Len(ids)
AtStart(x, h, rows, skewed) ==
  LET start == Len(x.input_ids) - Len(x.new_ids) IN
  /\ h = x.input_ids /\ x.max_gen >= 1 /\ x.left = x.max_gen - 1
  /\ start >= 0 /\ Len(rows) <= start
  /\ \A i \in 1 .. Len(x.new_ids) : x.new_ids[i] = x.input_ids[start + i]
  /\ ~skewed => Len(rows) = Len(x.input_ids) - Fed(x.new_ids)

\* A response after it: the history goes on from the prompt, and each token that
\* is left has its row.
GoingOn(x, h, rows, skewed) ==
  /\ Leads(x.input_ids, h)
  /\ Len(h) + x.left <= Len(x.input_ids) + x.max_gen
  /\ Len(rows) + x.left < Len(x.input_ids) + x.max_gen
  /\ ~skewed => Len(rows) = Len(h) - 1

\* What a response is at, while it goes on.
Speaks(x, h, rows, skewed) ==
  /\ x.phase \in {"created", "role", "generating"} => h # << >> /\ h[Len(h)] \in Token
  /\ x.phase \in {"created", "role"} => AtStart(x, h, rows, skewed)
  /\ x.phase = "generating" => GoingOn(x, h, rows, skewed)
Responding ==
  \A r \in Requests :
    LET p == stream[r].session IN
    Live(r) => Speaks(stream[r], history[p], cache[p], askew[p])

SessionInv ==
  /\ SessionTypeOK /\ Serving /\ Alone /\ Busy
  /\ Entries /\ Order /\ RowsFollow /\ Responding

-----------------------------------------------------------------------------
\* Steps of a response that goes on.

\* A response has a session, and no other response has the same one.
LEMMA OwnSession ==
  ASSUME SessionInv, NEW r \in Requests, Live(r)
  PROVE  /\ stream[r].session \in Sessions /\ stream[r].session \in alive
         /\ stream[r].session \notin leaked /\ in_use[stream[r].session]
         /\ \A q \in Requests \ {r} : Live(q) => stream[q].session # stream[r].session
BY DEF SessionInv, SessionTypeOK, Serving, Alone

\* A response may change its own state, its history and its rows in any way
\* that leaves the rows those of the history and its own promises kept.
LEMMA GoesOn ==
  ASSUME SessionInv, NEW r \in Requests, Live(r),
         NEW x \in Response, x.session = stream[r].session, x.phase # "idle",
         NEW h \in Seq(Token \cup {Failed}), NEW rows \in Seq(Token),
         stream' = [stream EXCEPT ![r] = x],
         history' = [history EXCEPT ![stream[r].session] = h],
         cache' = [cache EXCEPT ![stream[r].session] = rows],
         Rows(rows, h, askew[stream[r].session]),
         Speaks(x, h, rows, askew[stream[r].session]),
         holder' \in {holder, Nobody},
         UNCHANGED <<store, recency, in_use, alive, askew, leaked>>
  PROVE  SessionInv'
<1> DEFINE p == stream[r].session
<1>1. /\ p \in Sessions /\ p \in alive /\ p \notin leaked /\ in_use[p]
      /\ \A q \in Requests \ {r} : Live(q) => stream[q].session # p
  BY OwnSession
<1>2. /\ stream \in [Requests -> Response] /\ stream'[r] = x
      /\ \A q \in Requests \ {r} : stream'[q] = stream[q]
      /\ history \in [Sessions -> Seq(Token \cup {Failed})] /\ history'[p] = h
      /\ \A s \in Sessions \ {p} : history'[s] = history[s]
      /\ cache \in [Sessions -> Seq(Token)] /\ cache'[p] = rows
      /\ \A s \in Sessions \ {p} : cache'[s] = cache[s]
  BY <1>1 DEF SessionInv, SessionTypeOK
<1>3. \A q \in Requests : stream[q].session \in Sessions \cup {0}
                          /\ (Live(q) => stream[q].session \in Sessions)
  <2>1. \A q \in Requests : stream[q].session \in Sessions \cup {0}
    BY <1>2 DEF Response
  <2>2. QED
    BY <2>1, OwnSession
<1>4. \A q \in Requests : Live(q)' <=> Live(q)
  BY <1>2 DEF Live
<1>5. \A q \in Requests : stream'[q].session = stream[q].session
  BY <1>2
<1>6. SessionTypeOK'
  BY DEF SessionInv, SessionTypeOK
<1>7. Serving'
  <2>1. Serving
    BY DEF SessionInv
  <2>2. QED
    BY <2>1, <1>4, <1>5 DEF Serving
<1>8. Alone'
  <2>1. Alone
    BY DEF SessionInv
  <2>2. QED
    BY <2>1, <1>4, <1>5 DEF Alone
<1>9. Busy'
  <2>1. Busy
    BY DEF SessionInv
  <2>2. QED
    BY <2>1, <1>4, <1>5 DEF Busy
<1>10. Entries' /\ Order'
  BY DEF SessionInv, Entries, Order
<1>11. RowsFollow'
  <2>1. RowsFollow
    BY DEF SessionInv
  <2> SUFFICES ASSUME NEW s \in Sessions PROVE Rows(cache'[s], history'[s], askew[s])
    BY DEF RowsFollow
  <2>2. QED
    BY <2>1, <1>2 DEF RowsFollow
<1>12. Responding'
  <2>1. Responding
    BY DEF SessionInv
  <2> SUFFICES ASSUME NEW q \in Requests, Live(q)
               PROVE  LET s == stream[q].session
                      IN  Speaks(stream'[q], history'[s], cache'[s], askew[s])
    BY <1>4, <1>5 DEF Responding
  <2>2. CASE q = r
    BY <2>2, <1>2
  <2>3. CASE q # r
    <3>1. stream[q].session \in Sessions \ {p}
      BY <1>1, <1>3, <2>3
    <3>2. QED
      BY <2>1, <2>3, <1>2, <3>1 DEF Responding
  <2>4. QED
    BY <2>2, <2>3
<1>13. QED
  BY <1>6, <1>7, <1>8, <1>9, <1>10, <1>11, <1>12 DEF SessionInv

\* A response that gives its session back, perhaps after its history grew.
LEMMA GivesBack ==
  ASSUME SessionInv, NEW r \in Requests, Live(r),
         NEW h \in Seq(Token \cup {Failed}),
         stream' = [stream EXCEPT ![r] = Idle],
         history' = [history EXCEPT ![stream[r].session] = h],
         in_use' = [in_use EXCEPT ![stream[r].session] = FALSE],
         Rows(cache[stream[r].session], h, askew[stream[r].session]),
         holder' \in {holder, Nobody},
         UNCHANGED <<store, recency, cache, alive, askew, leaked>>
  PROVE  SessionInv'
<1> DEFINE p == stream[r].session
<1>1. /\ p \in Sessions /\ p \in alive /\ p \notin leaked /\ in_use[p]
      /\ \A q \in Requests \ {r} : Live(q) => stream[q].session # p
  BY OwnSession
<1>2. /\ stream \in [Requests -> Response] /\ stream'[r] = Idle
      /\ \A q \in Requests \ {r} : stream'[q] = stream[q]
      /\ history \in [Sessions -> Seq(Token \cup {Failed})] /\ history'[p] = h
      /\ \A s \in Sessions \ {p} : history'[s] = history[s]
      /\ in_use \in [Sessions -> BOOLEAN] /\ in_use'[p] = FALSE
      /\ \A s \in Sessions \ {p} : in_use'[s] = in_use[s]
  BY <1>1 DEF SessionInv, SessionTypeOK
<1>3. \A q \in Requests : Live(q)' <=> q # r /\ Live(q)
  BY <1>2 DEF Live, Idle
<1>4. \A q \in Requests : Live(q) => stream[q].session \in Sessions
  BY OwnSession
<1>5. SessionTypeOK'
  <2>1. Idle \in Response
    BY DEF Idle, Response, Phase
  <2>2. QED
    BY <2>1 DEF SessionInv, SessionTypeOK
<1>6. Serving'
  <2>1. Serving
    BY DEF SessionInv
  <2>2. ASSUME NEW q \in Requests, q # r, Live(q)
        PROVE  stream[q].session \in alive \ leaked /\ in_use'[stream[q].session]
    BY <1>1, <1>2, <1>4, <2>1, <2>2 DEF Serving
  <2>3. QED
    BY <1>2, <1>3, <2>2 DEF Serving
<1>7. Alone'
  <2>1. Alone
    BY DEF SessionInv
  <2>2. QED
    BY <2>1, <1>2, <1>3 DEF Alone
<1>8. Busy'
  <2>1. Busy
    BY DEF SessionInv
  <2>2. ASSUME NEW s \in Sessions, in_use'[s]
        PROVE  s \in leaked \/ \E q \in Requests : Live(q)' /\ stream'[q].session = s
    <3>1. s # p /\ in_use[s]
      BY <1>1, <1>2, <2>2
    <3>2. CASE s \in leaked
      BY <3>2
    <3>3. CASE \E q \in Requests : Live(q) /\ stream[q].session = s
      <4>1. PICK q \in Requests : Live(q) /\ stream[q].session = s
        BY <3>3
      <4>2. q # r
        BY <3>1, <4>1
      <4>3. QED
        BY <1>2, <1>3, <4>1, <4>2
    <3>4. QED
      BY <2>1, <3>1, <3>2, <3>3 DEF Busy
  <2>3. ASSUME NEW s \in leaked PROVE s \in alive /\ in_use'[s]
    <3>1. s \in alive /\ in_use[s] /\ s # p /\ s \in Sessions
      BY <1>1, <2>1 DEF Busy, SessionInv, SessionTypeOK
    <3>2. QED
      BY <1>2, <3>1
  <2>4. QED
    BY <2>2, <2>3 DEF Busy
<1>9. Entries' /\ Order'
  BY DEF SessionInv, Entries, Order
<1>10. RowsFollow'
  <2>1. RowsFollow
    BY DEF SessionInv
  <2> SUFFICES ASSUME NEW s \in Sessions PROVE Rows(cache[s], history'[s], askew[s])
    BY DEF RowsFollow
  <2>2. QED
    BY <2>1, <1>2 DEF RowsFollow
<1>11. Responding'
  <2>1. Responding
    BY DEF SessionInv
  <2> SUFFICES ASSUME NEW q \in Requests, q # r, Live(q)
               PROVE  LET s == stream[q].session
                      IN  Speaks(stream[q], history'[s], cache[s], askew[s])
    BY <1>2, <1>3 DEF Responding
  <2>2. stream[q].session \in Sessions \ {p}
    BY <1>1, <1>4
  <2>3. QED
    BY <2>1, <1>2, <2>2 DEF Responding
<1>12. QED
  BY <1>5, <1>6, <1>7, <1>8, <1>9, <1>10, <1>11 DEF SessionInv

\* What the invariant says of the session of a response that goes on.
LEMMA OwnState ==
  ASSUME SessionInv, NEW r \in Requests, Live(r)
  PROVE  /\ stream[r] \in Response /\ stream[r].session \in Sessions
         /\ history[stream[r].session] \in Seq(Token \cup {Failed})
         /\ cache[stream[r].session] \in Seq(Token)
         /\ askew[stream[r].session] \in BOOLEAN
         /\ Rows(cache[stream[r].session], history[stream[r].session],
                 askew[stream[r].session])
         /\ Speaks(stream[r], history[stream[r].session], cache[stream[r].session],
                   askew[stream[r].session])
<1>1. stream[r].session \in Sessions
  BY OwnSession
<1>2. QED
  BY <1>1 DEF SessionInv, SessionTypeOK, RowsFollow, Responding

\* A change of the response alone.
LEMMA SaysNothing ==
  ASSUME SessionInv, NEW r \in Requests, Live(r),
         NEW x \in Response, x.session = stream[r].session, x.phase # "idle",
         stream' = [stream EXCEPT ![r] = x],
         Speaks(x, history[stream[r].session], cache[stream[r].session],
                askew[stream[r].session]),
         holder' \in {holder, Nobody},
         UNCHANGED <<store, recency, history, in_use, alive, cache, askew, leaked>>
  PROVE  SessionInv'
<1> DEFINE p == stream[r].session
<1>1. /\ history' = [history EXCEPT ![p] = history[p]]
      /\ cache' = [cache EXCEPT ![p] = cache[p]]
  BY OwnState DEF SessionInv, SessionTypeOK
<1>2. QED
  BY <1>1, OwnState, GoesOn

\* A generator that only has to close is a response of its session.
LEMMA ClosingType ==
  ASSUME NEW p \in Sessions
  PROVE  /\ Closing(p) \in Response /\ Closing(p).phase = "closing"
         /\ Closing(p).session = p
<1> DEFINE x == [Idle EXCEPT !.phase = "closing"]
           y == [x EXCEPT !.session = p]
<1>1. Idle \in Response
  BY DEF Idle, Response, Phase
<1>2. x \in Response /\ x.phase = "closing"
  BY <1>1 DEF Response, Phase
<1>3. Closing(p) = y
  BY DEF Closing
<1> HIDE DEF x
<1>4. y \in Response /\ y.phase = "closing" /\ y.session = p
  BY <1>2 DEF Response
<1>5. QED
  BY <1>3, <1>4

\* The first chunk.
LEMMA StartedInv ==
  ASSUME SessionInv, NEW r \in Requests, Started(r)
  PROVE  SessionInv'
<1> DEFINE x == [stream[r] EXCEPT !.phase = "role"]
<1>1. Live(r) /\ stream[r].phase = "created"
  BY DEF Started, Live
<1>2. stream[r] \in Response
  BY <1>1, OwnState
<1>3. /\ x \in Response /\ x.session = stream[r].session /\ x.phase = "role"
      /\ x.input_ids = stream[r].input_ids /\ x.new_ids = stream[r].new_ids
      /\ x.left = stream[r].left /\ x.max_gen = stream[r].max_gen
  BY <1>2 DEF Response, Phase
<1>4. stream' = [stream EXCEPT ![r] = x]
  BY DEF Started
<1> HIDE DEF x
<1>5. ASSUME NEW h, NEW rows, NEW a, Speaks(stream[r], h, rows, a)
      PROVE  Speaks(x, h, rows, a)
  BY <1>1, <1>3, <1>5 DEF Speaks, AtStart, GoingOn
<1>6. Speaks(x, history[stream[r].session], cache[stream[r].session],
             askew[stream[r].session])
  BY <1>1, <1>5, OwnState
<1>7. QED
  BY <1>1, <1>3, <1>4, <1>6, SaysNothing DEF Started

\* A generator whose max_gen tokens are out.
LEMMA OutOfStepsInv ==
  ASSUME SessionInv, NEW r \in Requests, OutOfSteps(r)
  PROVE  SessionInv'
<1> DEFINE x == Closing(stream[r].session)
<1>1. Live(r)
  BY DEF OutOfSteps, InLoop, Live
<1>2. x \in Response /\ x.session = stream[r].session /\ x.phase = "closing"
  BY <1>1, OwnState, ClosingType
<1>3. stream' = [stream EXCEPT ![r] = x]
  BY DEF OutOfSteps
<1> HIDE DEF x
<1>4. Speaks(x, history[stream[r].session], cache[stream[r].session],
             askew[stream[r].session])
  BY <1>2 DEF Speaks
<1>5. QED
  BY <1>1, <1>2, <1>3, <1>4, SaysNothing DEF OutOfSteps

\* The finally block of the generator gives the session back.
LEMMA FinallyInv ==
  ASSUME SessionInv, NEW r \in Requests, Finally(r)
  PROVE  SessionInv'
<1> DEFINE p == stream[r].session
<1>1. Live(r)
  BY DEF Finally, Live
<1>2. history' = [history EXCEPT ![p] = history[p]]
  BY <1>1, OwnState DEF Finally, SessionInv, SessionTypeOK
<1>3. QED
  BY <1>1, <1>2, OwnState, GivesBack DEF Finally

\* The response of a client that goes away before the first chunk is forgotten,
\* and its session with it.
LEMMA DropInv ==
  ASSUME SessionInv, NEW r \in Requests, Live(r),
         stream' = [stream EXCEPT ![r] = Idle],
         leaked' = leaked \cup {stream[r].session},
         UNCHANGED <<store, recency, history, in_use, alive, cache, holder, askew>>
  PROVE  SessionInv'
<1> DEFINE p == stream[r].session
<1>1. /\ p \in Sessions /\ p \in alive /\ p \notin leaked /\ in_use[p]
      /\ \A q \in Requests \ {r} : Live(q) => stream[q].session # p
  BY OwnSession
<1>2. /\ stream \in [Requests -> Response] /\ stream'[r] = Idle
      /\ \A q \in Requests \ {r} : stream'[q] = stream[q]
  BY <1>1 DEF SessionInv, SessionTypeOK
<1>3. \A q \in Requests : Live(q)' <=> q # r /\ Live(q)
  BY <1>2 DEF Live, Idle
<1>4. SessionTypeOK'
  <2>1. Idle \in Response
    BY DEF Idle, Response, Phase
  <2>2. QED
    BY <2>1, <1>1 DEF SessionInv, SessionTypeOK
<1>5. Serving'
  <2>1. ASSUME NEW q \in Requests, q # r, Live(q)
        PROVE  stream[q].session \in alive \ leaked' /\ in_use[stream[q].session]
    BY <1>1, <2>1 DEF SessionInv, Serving
  <2>2. QED
    BY <1>2, <1>3, <2>1 DEF Serving
<1>6. Alone'
  BY <1>2, <1>3 DEF SessionInv, Alone
<1>7. Busy'
  <2>1. ASSUME NEW s \in Sessions, in_use[s]
        PROVE  s \in leaked' \/ \E q \in Requests : Live(q)' /\ stream'[q].session = s
    <3>1. CASE s \in leaked \cup {p}
      BY <3>1
    <3>2. CASE s \notin leaked \cup {p}
      <4>1. PICK q \in Requests : Live(q) /\ stream[q].session = s
        BY <2>1, <3>2 DEF SessionInv, Busy
      <4>2. q # r
        BY <3>2, <4>1
      <4>3. QED
        BY <1>2, <1>3, <4>1, <4>2
    <3>3. QED
      BY <3>1, <3>2
  <2>2. ASSUME NEW s \in leaked' PROVE s \in alive /\ in_use[s]
    BY <1>1 DEF SessionInv, Busy
  <2>3. QED
    BY <2>1, <2>2 DEF Busy
<1>8. Entries' /\ Order' /\ RowsFollow'
  BY DEF SessionInv, Entries, Order, RowsFollow
<1>9. Responding'
  BY <1>2, <1>3 DEF SessionInv, Responding
<1>10. QED
  BY <1>4, <1>5, <1>6, <1>7, <1>8, <1>9 DEF SessionInv

\* A client that goes away.
LEMMA DisconnectInv ==
  ASSUME SessionInv, NEW r \in Requests, Disconnect(r)
  PROVE  SessionInv'
<1>1. Live(r)
  BY DEF Disconnect, Live
<1>2. CASE stream[r].phase = "created"
  BY <1>1, <1>2, DropInv DEF Disconnect
<1>3. CASE stream[r].phase \in {"role", "generating"}
  <2> DEFINE x == Closing(stream[r].session)
  <2>1. x \in Response /\ x.session = stream[r].session /\ x.phase = "closing"
    BY <1>1, OwnState, ClosingType
  <2>2. stream' = [stream EXCEPT ![r] = x] /\ UNCHANGED leaked
    BY <1>3 DEF Disconnect
  <2> HIDE DEF x
  <2>3. Speaks(x, history[stream[r].session], cache[stream[r].session],
               askew[stream[r].session])
    BY <2>1 DEF Speaks
  <2>4. QED
    BY <1>1, <2>1, <2>2, <2>3, SaysNothing DEF Disconnect
<1>4. QED
  BY <1>2, <1>3 DEF Disconnect

\* cleanup_sessions at shutdown, and a new start.
LEMMA RestartInv ==
  ASSUME SessionInv, Restart
  PROVE  SessionInv'
<1>1. alive' = {} /\ store' = << >> /\ recency' = << >> /\ leaked' = {}
  BY DEF SessionInv, Entries, EntriesOf, Restart
<1>2. \A q \in Requests : ~ Live(q)'
  BY DEF Restart, Live
<1>3. SessionTypeOK'
  BY <1>1 DEF SessionInv, SessionTypeOK, Restart
<1>4. Serving' /\ Alone' /\ Responding'
  BY <1>2 DEF Serving, Alone, Responding
<1>5. Busy'
  BY <1>1 DEF Busy, Restart
<1>6. Entries' /\ Order'
  BY <1>1 DEF Entries, EntriesOf, Order, Range
<1>7. RowsFollow'
  BY DEF RowsFollow, Rows, Leads, Restart
<1>8. QED
  BY <1>3, <1>4, <1>5, <1>6, <1>7 DEF SessionInv

-----------------------------------------------------------------------------
\* Forward passes.

\* What a response may feed: the rows do not get ahead of the history with its
\* next token, they catch up with it when they were those of its tokens, and a
\* row is left for every token to come.
MayFeed(x, h, rows, skewed, ids, left) ==
  /\ Leads(x.input_ids, h)
  /\ Len(rows) + Len(ids) <= Len(h) + 1
  /\ Len(h) + 1 + left <= Len(x.input_ids) + x.max_gen
  /\ Len(rows) + Len(ids) + left < Len(x.input_ids) + x.max_gen
  /\ ~skewed => /\ Len(rows) + Len(ids) = Len(h)
                /\ \A i \in 1 .. Len(ids) : ids[i] = h[Len(rows) + i]

\* Rows that catch up with a history are its rows, and stay so when it grows.
LEMMA RowsCatchUp ==
  ASSUME NEW S, NEW h \in Seq(S), NEW rows \in Seq(S), NEW ids \in Seq(S),
         NEW token \in S, NEW skewed \in BOOLEAN,
         Rows(rows, h, skewed), Len(rows) + Len(ids) <= Len(h) + 1,
         ~skewed => /\ Len(rows) + Len(ids) = Len(h)
                    /\ \A i \in 1 .. Len(ids) : ids[i] = h[Len(rows) + i]
  PROVE  Rows(rows \o ids, Append(h, token), skewed)
<1>1. /\ rows \o ids \in Seq(S) /\ Len(rows \o ids) = Len(rows) + Len(ids)
      /\ \A i \in 1 .. Len(rows) + Len(ids) :
           (rows \o ids)[i] = IF i <= Len(rows) THEN rows[i] ELSE ids[i - Len(rows)]
  BY ConcatProperties
<1>2. /\ Len(Append(h, token)) = Len(h) + 1
      /\ \A i \in 1 .. Len(h) : Append(h, token)[i] = h[i]
  OBVIOUS
<1>3. Len(h) \in Nat /\ Len(rows) \in Nat /\ Len(ids) \in Nat
  OBVIOUS
<1>4. ASSUME ~skewed, NEW i \in 1 .. Len(rows) + Len(ids)
      PROVE  (rows \o ids)[i] = Append(h, token)[i]
  <2>1. i \in 1 .. Len(h)
    BY <1>3, <1>4
  <2>2. CASE i <= Len(rows)
    <3>1. rows[i] = h[i]
      BY <1>3, <1>4, <2>2 DEF Rows, Leads
    <3>2. QED
      BY <1>1, <1>2, <2>1, <2>2, <3>1
  <2>3. CASE i > Len(rows)
    <3>1. i - Len(rows) \in 1 .. Len(ids) /\ Len(rows) + (i - Len(rows)) = i
      BY <1>3, <2>3
    <3>2. ids[i - Len(rows)] = h[i]
      BY <1>4, <3>1
    <3>3. ~ (i <= Len(rows))
      BY <1>3, <2>3
    <3>4. QED
      BY <1>1, <1>2, <2>1, <3>2, <3>3
  <2>4. QED
    BY <1>3, <2>2, <2>3
<1> DEFINE u == rows \o ids
           v == Append(h, token)
<1>5. Len(u) <= Len(v)
  BY <1>1, <1>2, <1>3
<1>6. ~skewed => \A i \in 1 .. Len(u) : u[i] = v[i]
  BY <1>1, <1>4
<1> HIDE DEF u, v
<1>7. Rows(u, v, skewed)
  BY <1>5, <1>6 DEF Rows, Leads
<1>8. QED
  BY <1>7 DEF u, v

\* A forward the C session has room for, from a response that may feed it.
LEMMA ForwardInv ==
  ASSUME SessionInv, NEW r \in Requests, Live(r), NEW ids \in Seq(Token),
         NEW left \in Nat, Forward(r, ids, left),
         MayFeed(stream[r], history[stream[r].session], cache[stream[r].session],
                 askew[stream[r].session], ids, left)
  PROVE  SessionInv'
<1> DEFINE p    == stream[r].session
           h    == history[p]
           rows == cache[p]
           a    == askew[p]
<1>1. /\ stream[r] \in Response /\ p \in Sessions
      /\ h \in Seq(Token \cup {Failed}) /\ rows \in Seq(Token) /\ a \in BOOLEAN
      /\ Rows(rows, h, a)
  BY OwnState
<1>2. PICK token \in Token :
        /\ history' = [history EXCEPT ![p] = Append(@, token)]
        /\ stream' = [stream EXCEPT ![r] = IF token = EndToken THEN Closing(p)
             ELSE [@ EXCEPT !.phase = "generating", !.new_ids = << >>, !.left = left]]
        /\ holder' = IF token = EndToken THEN Nobody ELSE holder
  BY DEF Forward
<1> DEFINE h2    == Append(h, token)
           rows2 == rows \o ids
           x1    == [stream[r] EXCEPT !.phase = "generating"]
           x2    == [x1 EXCEPT !.new_ids = << >>]
           x3    == [x2 EXCEPT !.left = left]
           x     == IF token = EndToken THEN Closing(p) ELSE x3
<1>3. /\ history' = [history EXCEPT ![p] = h2] /\ cache' = [cache EXCEPT ![p] = rows2]
      /\ stream' = [stream EXCEPT ![r] = x]
  BY <1>1, <1>2 DEF Forward, SessionInv, SessionTypeOK
<1>4. h2 \in Seq(Token \cup {Failed}) /\ rows2 \in Seq(Token)
  BY <1>1
<1>5. Rows(rows2, h2, a)
  <2>1. /\ rows \in Seq(Token \cup {Failed}) /\ ids \in Seq(Token \cup {Failed})
        /\ token \in Token \cup {Failed}
    BY <1>1
  <2>2. /\ Len(rows) + Len(ids) <= Len(h) + 1
        /\ ~a => /\ Len(rows) + Len(ids) = Len(h)
                 /\ \A i \in 1 .. Len(ids) : ids[i] = h[Len(rows) + i]
    BY DEF MayFeed
  <2> HIDE DEF h, rows, a
  <2>3. QED
    BY <1>1, <2>1, <2>2, RowsCatchUp
<1>6. /\ x1 \in Response /\ x1.phase = "generating" /\ x1.session = p
      /\ x1.input_ids = stream[r].input_ids /\ x1.max_gen = stream[r].max_gen
  BY <1>1 DEF Response, Phase
<1> HIDE DEF x1
<1>7. /\ x2 \in Response /\ x2.phase = "generating" /\ x2.session = p
      /\ x2.input_ids = stream[r].input_ids /\ x2.max_gen = stream[r].max_gen
  BY <1>6, EmptySeq DEF Response
<1> HIDE DEF x2
<1>8. /\ x3 \in Response /\ x3.phase = "generating" /\ x3.session = p
      /\ x3.input_ids = stream[r].input_ids /\ x3.max_gen = stream[r].max_gen
      /\ x3.left = left
  BY <1>7 DEF Response
<1> HIDE DEF x3
<1>9. Speaks(x3, h2, rows2, a)
  <2> DEFINE ins == stream[r].input_ids
             max == stream[r].max_gen
  <2>1. ins \in Seq(Token) /\ max \in Nat
    BY <1>1 DEF Response
  <2>2. /\ Len(h2) = Len(h) + 1 /\ h2[Len(h2)] = token /\ h2 # << >>
        /\ \A i \in 1 .. Len(h) : h2[i] = h[i]
        /\ Len(rows2) = Len(rows) + Len(ids)
    <3>1. Len(h2) = Len(h) + 1 /\ Len(h) \in Nat /\ h2 \in Seq(Token \cup {Failed})
      BY <1>1
    <3>2. h2[Len(h) + 1] = token /\ \A i \in 1 .. Len(h) : h2[i] = h[i]
      BY <1>1
    <3>3. Len(rows2) = Len(rows) + Len(ids)
      BY <1>1
    <3> HIDE DEF h2, rows2, h, rows
    <3>4. h2 # << >>
      BY <3>1
    <3>5. QED
      BY <3>1, <3>2, <3>3, <3>4
  <2>3. Len(h) \in Nat /\ Len(rows) \in Nat /\ Len(ids) \in Nat /\ Len(ins) \in Nat
    BY <1>1, <2>1
  <2>4. /\ Leads(ins, h)
        /\ Len(h) + 1 + left <= Len(ins) + max
        /\ Len(rows) + Len(ids) + left < Len(ins) + max
        /\ ~a => Len(rows) + Len(ids) = Len(h)
    BY DEF MayFeed
  <2> HIDE DEF h, rows, a, h2, rows2, ins, max
  <2>5. Leads(ins, h2)
    BY <2>2, <2>3, <2>4 DEF Leads
  <2>6. /\ Len(h2) + left <= Len(ins) + max /\ Len(rows2) + left < Len(ins) + max
        /\ ~a => Len(rows2) = Len(h2) - 1
    BY <2>1, <2>2, <2>3, <2>4
  <2>7. GoingOn(x3, h2, rows2, a)
    BY <1>8, <2>5, <2>6 DEF GoingOn, ins, max
  <2>8. QED
    BY <1>2, <1>8, <2>2, <2>7 DEF Speaks
<1>10. Speaks(Closing(p), h2, rows2, a)
  BY <1>1, ClosingType DEF Speaks
<1>11. /\ x \in Response /\ x.session = p /\ x.phase # "idle"
       /\ Speaks(x, h2, rows2, a)
  BY <1>1, <1>8, <1>9, <1>10, ClosingType
<1> HIDE DEF x, h2, rows2
<1>12. holder' \in {holder, Nobody} /\ UNCHANGED <<store, recency, in_use, alive, askew, leaked>>
  BY <1>2 DEF Forward
<1>13. QED
  BY <1>3, <1>4, <1>5, <1>11, <1>12, GoesOn

\* A refused forward leaves a mark in the history and no row.
LEMMA ForwardRefusedInv ==
  ASSUME SessionInv, NEW r \in Requests, Live(r), NEW ids, ForwardRefused(r, ids)
  PROVE  SessionInv'
<1> DEFINE p == stream[r].session
           h == Append(history[p], Failed)
<1>1. /\ p \in Sessions /\ history[p] \in Seq(Token \cup {Failed})
      /\ cache[p] \in Seq(Token) /\ askew[p] \in BOOLEAN
      /\ Rows(cache[p], history[p], askew[p])
  BY OwnState
<1>2. /\ h \in Seq(Token \cup {Failed}) /\ Len(h) = Len(history[p]) + 1
      /\ \A i \in 1 .. Len(history[p]) : h[i] = history[p][i]
  BY <1>1
<1>3. Rows(cache[p], h, askew[p])
  <2>1. Len(cache[p]) \in Nat /\ Len(history[p]) \in Nat
    BY <1>1
  <2> HIDE DEF h
  <2>2. QED
    BY <1>1, <1>2, <2>1 DEF Rows, Leads
<1>4. history' = [history EXCEPT ![p] = h]
  BY <1>1 DEF ForwardRefused, SessionInv, SessionTypeOK
<1> HIDE DEF h
<1>5. QED
  BY <1>2, <1>3, <1>4, GivesBack DEF ForwardRefused

\* The first forward feeds the end of the prompt.
LEMMA PrefillFeeds ==
  ASSUME SessionInv, NEW r \in Requests, stream[r].phase = "role",
         stream[r].new_ids # << >>
  PROVE  /\ Live(r) /\ stream[r].new_ids \in Seq(Token) /\ stream[r].left \in Nat
         /\ MayFeed(stream[r], history[stream[r].session], cache[stream[r].session],
                    askew[stream[r].session], stream[r].new_ids, stream[r].left)
<1> DEFINE p    == stream[r].session
           h    == history[p]
           rows == cache[p]
           a    == askew[p]
           ins  == stream[r].input_ids
           new  == stream[r].new_ids
           left == stream[r].left
           max  == stream[r].max_gen
<1>1. Live(r)
  BY DEF Live
<1>2. /\ ins \in Seq(Token) /\ new \in Seq(Token) /\ left \in Nat /\ max \in Nat
      /\ rows \in Seq(Token) /\ a \in BOOLEAN
  BY <1>1, OwnState DEF Response
<1>3. Speaks(stream[r], h, rows, a)
  BY <1>1, OwnState
<1>4. /\ h = ins /\ max >= 1 /\ left = max - 1
      /\ Len(ins) - Len(new) >= 0 /\ Len(rows) <= Len(ins) - Len(new)
      /\ \A i \in 1 .. Len(new) : new[i] = ins[Len(ins) - Len(new) + i]
      /\ ~a => Len(rows) = Len(ins) - Len(new)
  <2> HIDE DEF h, rows, a
  <2>1. QED
    BY <1>3 DEF Speaks, AtStart, Fed
<1>5. Len(ins) \in Nat /\ Len(new) \in Nat /\ Len(rows) \in Nat
  BY <1>2
<1>6. Leads(ins, h)
  BY <1>4, <1>5 DEF Leads
<1> HIDE DEF h, rows, a
<1>7. MayFeed(stream[r], h, rows, a, new, left)
  <2> HIDE DEF ins, new, left, max
  <2>1. /\ Len(rows) + Len(new) <= Len(h) /\ Len(h) + 1 + left <= Len(ins) + max
        /\ Len(rows) + Len(new) + left < Len(ins) + max
        /\ ~a => Len(rows) + Len(new) = Len(h)
    BY <1>2, <1>4, <1>5
  <2>2. ~a => \A i \in 1 .. Len(new) : new[i] = h[Len(rows) + i]
    BY <1>4
  <2>3. QED
    BY <1>6, <2>1, <2>2 DEF MayFeed, ins, max
<1>8. QED
  BY <1>1, <1>2, <1>7 DEF h, rows, a

\* Every other one feeds the last token of the history, which is one.
LEMMA DecodeFeeds ==
  ASSUME SessionInv, NEW r \in Requests, InLoop(r), stream[r].left > 0
  PROVE  /\ Live(r) /\ LastToken(r) \in Seq(Token) /\ stream[r].left - 1 \in Nat
         /\ MayFeed(stream[r], history[stream[r].session], cache[stream[r].session],
                    askew[stream[r].session], LastToken(r), stream[r].left - 1)
<1> DEFINE p    == stream[r].session
           h    == history[p]
           rows == cache[p]
           a    == askew[p]
           ins  == stream[r].input_ids
           left == stream[r].left
           max  == stream[r].max_gen
           ids  == <<h[Len(h)]>>
<1>1. Live(r) /\ stream[r].phase \in {"role", "generating"}
  BY DEF InLoop, Live
<1>2. /\ ins \in Seq(Token) /\ left \in Nat /\ max \in Nat
      /\ h \in Seq(Token \cup {Failed}) /\ rows \in Seq(Token) /\ a \in BOOLEAN
      /\ Rows(rows, h, a)
  BY <1>1, OwnState DEF Response
<1>3. Speaks(stream[r], h, rows, a)
  BY <1>1, OwnState
<1>4. h # << >> /\ h[Len(h)] \in Token
  BY <1>1, <1>3 DEF Speaks
<1>5. LastToken(r) = ids
  BY DEF LastToken, Last
<1>6. ids \in Seq(Token) /\ Len(ids) = 1 /\ ids[1] = h[Len(h)]
  BY <1>4
<1>7. Len(ins) \in Nat /\ Len(h) \in Nat /\ Len(rows) \in Nat /\ Len(h) >= 1
  BY <1>2, <1>4
<1> HIDE DEF h, rows, a, ids
<1>8. /\ Leads(ins, h)
      /\ Len(h) + left <= Len(ins) + max /\ Len(rows) + left < Len(ins) + max
      /\ ~a => Len(rows) = Len(h) - 1
  <2>1. CASE stream[r].phase = "generating"
    BY <1>3, <2>1 DEF Speaks, GoingOn
  <2>2. CASE stream[r].phase = "role"
    <3>1. stream[r].new_ids = << >>
      BY <2>2 DEF InLoop
    <3>2. /\ h = ins /\ max >= 1 /\ left = max - 1 /\ Len(rows) <= Len(ins)
          /\ ~a => Len(rows) = Len(ins) - 1
      BY <1>3, <1>7, <2>2, <3>1 DEF Speaks, AtStart, Fed
    <3>3. Leads(ins, h)
      BY <1>7, <3>2 DEF Leads
    <3> HIDE DEF ins, left, max
    <3>4. QED
      BY <1>2, <1>7, <3>2, <3>3
  <2>3. QED
    BY <1>1, <2>1, <2>2
<1>9. Len(rows) <= Len(h)
  BY <1>2 DEF Rows
<1>10. MayFeed(stream[r], h, rows, a, ids, left - 1)
  <2> HIDE DEF ins, left, max
  <2>1. /\ Len(rows) + Len(ids) <= Len(h) + 1
        /\ Len(h) + 1 + (left - 1) <= Len(ins) + max
        /\ Len(rows) + Len(ids) + (left - 1) < Len(ins) + max
        /\ ~a => Len(rows) + Len(ids) = Len(h)
    BY <1>2, <1>6, <1>7, <1>8, <1>9
  <2>2. ASSUME ~a, NEW i \in 1 .. Len(ids) PROVE ids[i] = h[Len(rows) + i]
    <3>1. i = 1 /\ Len(rows) + i = Len(h)
      BY <1>6, <1>7, <1>8, <2>2
    <3>2. QED
      BY <1>6, <3>1
  <2>3. QED
    BY <1>8, <2>1, <2>2 DEF MayFeed, ins, max
<1>11. left - 1 \in Nat
  BY <1>2
<1>12. QED
  BY <1>1, <1>5, <1>6, <1>10, <1>11 DEF h, rows, a

\* The prompt goes in.
LEMMA PrefillInv ==
  ASSUME SessionInv, NEW r \in Requests, Prefill(r)
  PROVE  SessionInv'
<1>1. stream[r].phase = "role" /\ stream[r].new_ids # << >>
  BY DEF Prefill
<1>2. QED
  BY <1>1, PrefillFeeds, ForwardInv, ForwardRefusedInv DEF Prefill

\* And one token after the other.
LEMMA DecodeInv ==
  ASSUME SessionInv, NEW r \in Requests, Decode(r)
  PROVE  SessionInv'
<1>1. InLoop(r) /\ stream[r].left > 0
  BY DEF Decode
<1>2. QED
  BY <1>1, DecodeFeeds, ForwardInv, ForwardRefusedInv DEF Decode

-----------------------------------------------------------------------------
\* Handlers.

\* The session a handler begins with: nobody's, its rows cut to what the prompt
\* shares with its history.
MayBegin(p, input_ids, m, rows) ==
  /\ p \in Sessions /\ p \notin leaked
  /\ \A q \in Requests : Live(q) => stream[q].session # p
  /\ m \in Nat /\ m <= Len(input_ids) /\ m <= Len(history[p])
  /\ \A i \in 1 .. m : history[p][i] = input_ids[i]
  /\ rows \in Seq(Token) /\ Len(rows) <= m
  /\ m > 0 /\ ~askew[p] => Leads(rows, input_ids)

\* What Begin makes of one session and one response.
LEMMA BeginState ==
  ASSUME SessionInv, NEW r \in Requests, NEW p \in Sessions,
         NEW input_ids \in Seq(Token), input_ids # << >>, NEW m, NEW rows,
         NEW max_gen \in Nat \ {0}, NEW streamed \in BOOLEAN,
         MayBegin(p, input_ids, m, rows),
         Begin(r, p, input_ids, m, rows, max_gen, streamed)
  PROVE  /\ in_use' = [in_use EXCEPT ![p] = TRUE]
         /\ history' = [history EXCEPT ![p] = input_ids]
         /\ cache' = [cache EXCEPT ![p] = rows]
         /\ holder' \in {Nobody, r}
         /\ \E x \in Response, a \in BOOLEAN :
              /\ stream' = [stream EXCEPT ![r] = x]
              /\ askew' = [askew EXCEPT ![p] = a]
              /\ x.session = p /\ x.phase = "created"
              /\ Speaks(x, input_ids, rows, a)
              /\ Rows(rows, input_ids, a)
<1> DEFINE new == SubSeq(input_ids, m + 1, Len(input_ids))
           a   == (m > 0 /\ askew[p]) \/ Len(rows) # Len(input_ids) - Fed(new)
           x   == [phase |-> "created", session |-> p, input_ids |-> input_ids,
                   new_ids |-> new, left |-> max_gen - 1, max_gen |-> max_gen]
           h   == SubSeq(history[p], 1, m) \o new
<1>1. /\ Len(input_ids) \in Nat /\ Len(input_ids) >= 1 /\ m \in Nat /\ m <= Len(input_ids)
      /\ rows \in Seq(Token) /\ Len(rows) \in Nat /\ Len(rows) <= m
      /\ history[p] \in Seq(Token \cup {Failed}) /\ m <= Len(history[p])
      /\ \A i \in 1 .. m : history[p][i] = input_ids[i]
      /\ m > 0 /\ ~askew[p] => Leads(rows, input_ids)
      /\ askew[p] \in BOOLEAN
  BY DEF MayBegin, SessionInv, SessionTypeOK
<1>2. /\ new \in Seq(Token) /\ Len(new) = Len(input_ids) - m
      /\ \A i \in 1 .. Len(input_ids) - m : new[i] = input_ids[m + i]
  BY <1>1
<1>3. h = input_ids
  <2> DEFINE u == SubSeq(history[p], 1, m)
  <2>1. /\ u \in Seq(Token \cup {Failed}) /\ Len(u) = m
        /\ \A i \in 1 .. m : u[i] = history[p][i]
    BY <1>1
  <2>2. new \in Seq(Token \cup {Failed})
    BY <1>2, SeqMonotonic
  <2>3. \A i \in 1 .. m : u[i] = input_ids[i]
    BY <1>1, <2>1
  <2> HIDE DEF u, new, a, x, h
  <2>4. /\ u \o new \in Seq(Token \cup {Failed}) /\ Len(u \o new) = Len(input_ids)
        /\ \A i \in 1 .. Len(input_ids) :
             (u \o new)[i] = IF i <= m THEN u[i] ELSE new[i - m]
    BY <1>1, <1>2, <2>1, <2>2, ConcatProperties
  <2>5. ASSUME NEW i \in 1 .. Len(input_ids) PROVE (u \o new)[i] = input_ids[i]
    <3>1. CASE i <= m
      <4>1. i \in 1 .. m
        BY <1>1, <3>1
      <4>2. (u \o new)[i] = u[i]
        BY <2>4, <3>1
      <4>3. QED
        BY <2>3, <4>1, <4>2
    <3>2. CASE i > m
      <4>1. i - m \in 1 .. Len(input_ids) - m /\ m + (i - m) = i /\ ~ (i <= m)
        BY <1>1, <3>2
      <4>2. QED
        BY <1>2, <2>4, <4>1
    <3>3. m \in Nat /\ i \in Nat
      BY <1>1
    <3>4. i <= m \/ i > m
      BY <3>3
    <3>5. QED
      BY <3>1, <3>2, <3>4
  <2>6. input_ids \in Seq(Token \cup {Failed})
    BY SeqMonotonic
  <2>7. u \o new = input_ids
    BY <2>4, <2>5, <2>6, SeqEqual
  <2>8. QED
    BY <2>7 DEF h, u
<1>4. a \in BOOLEAN
  BY <1>1
<1>5. /\ in_use' = [in_use EXCEPT ![p] = TRUE]
      /\ history' = [history EXCEPT ![p] = h]
      /\ cache' = [cache EXCEPT ![p] = rows]
      /\ holder' \in {Nobody, r}
      /\ stream' = [stream EXCEPT ![r] = x]
      /\ askew' = [askew EXCEPT ![p] = a]
  BY DEF Begin, Fed, SessionInv, SessionTypeOK
<1> HIDE DEF new, a
<1>6. /\ x \in Response /\ x.session = p /\ x.phase = "created" /\ x.input_ids = input_ids
      /\ x.new_ids = new /\ x.left = max_gen - 1 /\ x.max_gen = max_gen
  BY <1>2 DEF Response, Phase
<1> HIDE DEF x, h
<1>7. AtStart(x, input_ids, rows, a)
  <2>1. /\ Len(input_ids) - Len(new) = m /\ Len(rows) <= m
        /\ \A i \in 1 .. Len(new) : new[i] = input_ids[m + i]
    BY <1>1, <1>2
  <2>2. ~a => Len(rows) = Len(input_ids) - Fed(new)
    BY DEF a
  <2>3. max_gen >= 1
    OBVIOUS
  <2>4. \A i \in 1 .. Len(x.new_ids) :
          x.new_ids[i] = x.input_ids[(Len(x.input_ids) - Len(x.new_ids)) + i]
    BY <1>6, <2>1
  <2>5. Len(x.input_ids) - Len(x.new_ids) = m /\ m >= 0
    BY <1>1, <1>6, <2>1
  <2>6. ~a => Len(rows) = Len(x.input_ids) - Fed(x.new_ids)
    BY <1>6, <2>2
  <2>7. QED
    BY <1>6, <2>1, <2>3, <2>4, <2>5, <2>6 DEF AtStart
<1>8. input_ids[Len(input_ids)] \in Token
  BY <1>1
<1>9. Speaks(x, input_ids, rows, a)
  BY <1>6, <1>7, <1>8 DEF Speaks
<1>10. Rows(rows, input_ids, a)
  <2>1. Len(rows) <= Len(input_ids)
    BY <1>1
  <2>2. CASE m > 0
    BY <1>1, <2>1, <2>2 DEF Rows, a
  <2>3. CASE m = 0
    <3>1. Len(rows) = 0
      BY <1>1, <2>3
    <3>2. QED
      BY <2>1, <3>1 DEF Rows, Leads
  <2>4. QED
    BY <1>1, <2>2, <2>3
<1>11. QED
  BY <1>3, <1>4, <1>5, <1>6, <1>9, <1>10

\* The session used last has its one place at the end.
LEMMA TouchedOrder ==
  ASSUME SessionInv, NEW p \in Sessions, recency' = Touched(p),
         alive' = alive \cup {p}
  PROVE  recency' \in Seq(Sessions) /\ Order'
<1> DEFINE t == RemoveFirst(recency, p)
           u == Append(t, p)
<1>1. /\ recency \in Seq(Sessions) /\ Range(recency) = alive
      /\ \A i, j \in 1 .. Len(recency) : recency[i] = recency[j] => i = j
  BY DEF SessionInv, SessionTypeOK, Order
<1>2. /\ t \in Seq(Sessions) /\ Range(t) = alive \ {p}
      /\ \A i, j \in 1 .. Len(t) : t[i] = t[j] => i = j
  BY <1>1, RemoveFirstOfInjective
<1> HIDE DEF t
<1>3. /\ u \in Seq(Sessions) /\ Len(u) = Len(t) + 1 /\ Len(t) \in Nat
      /\ u[Len(t) + 1] = p /\ \A i \in 1 .. Len(t) : u[i] = t[i]
  BY <1>2
<1> HIDE DEF u
<1>4. DOMAIN t = 1 .. Len(t) /\ DOMAIN u = 1 .. Len(t) + 1
  BY <1>2, <1>3
<1>5. \A i \in 1 .. Len(t) : t[i] # p /\ t[i] \in alive
  BY <1>2, <1>4 DEF Range
<1>6. \A s \in alive \ {p} : \E i \in 1 .. Len(t) : t[i] = s
  BY <1>2, <1>4 DEF Range
<1>7. Range(u) = alive \cup {p}
  <2>1. ASSUME NEW i \in 1 .. Len(t) + 1 PROVE u[i] \in alive \cup {p}
    <3>1. i \in 1 .. Len(t) \/ i = Len(t) + 1
      BY <1>3
    <3>2. QED
      BY <1>3, <1>5, <3>1
  <2>2. ASSUME NEW s \in alive \cup {p} PROVE \E i \in 1 .. Len(t) + 1 : u[i] = s
    <3>1. CASE s = p
      <4>1. Len(t) + 1 \in 1 .. Len(t) + 1
        BY <1>3
      <4>2. QED
        BY <1>3, <3>1, <4>1
    <3>2. CASE s # p
      <4>1. PICK i \in 1 .. Len(t) : t[i] = s
        BY <1>6, <3>2
      <4>2. i \in 1 .. Len(t) + 1
        BY <1>3
      <4>3. QED
        BY <1>3, <4>1, <4>2
    <3>3. QED
      BY <3>1, <3>2
  <2>3. QED
    BY <1>4, <2>1, <2>2 DEF Range
<1>8. ASSUME NEW i \in 1 .. Len(u), NEW j \in 1 .. Len(u), u[i] = u[j] PROVE i = j
  <2>1. /\ i \in 1 .. Len(t) \/ i = Len(t) + 1
        /\ j \in 1 .. Len(t) \/ j = Len(t) + 1
    BY <1>3
  <2>2. QED
    BY <1>2, <1>3, <1>5, <1>8, <2>1
<1>9. recency' = u
  BY DEF Touched, t, u
<1>10. QED
  BY <1>3, <1>7, <1>8, <1>9 DEF Order

\* A response starts on a session with its prompt, whichever way it was found.
LEMMA BeginInv ==
  ASSUME SessionInv, NEW r \in Requests, ~ Live(r), NEW p \in Sessions,
         NEW input_ids \in Seq(Token), input_ids # << >>, NEW m, NEW rows,
         NEW max_gen \in Nat \ {0}, NEW streamed \in BOOLEAN,
         MayBegin(p, input_ids, m, rows),
         Begin(r, p, input_ids, m, rows, max_gen, streamed),
         store' \in Seq([sid : Sids \cup Sessions, session : Sessions]), Entries',
         alive' = alive \cup {p}, leaked' = leaked
  PROVE  SessionInv'
<1>1. /\ in_use' = [in_use EXCEPT ![p] = TRUE]
      /\ history' = [history EXCEPT ![p] = input_ids]
      /\ cache' = [cache EXCEPT ![p] = rows]
      /\ holder' \in {Nobody, r}
  BY BeginState
<1>2. PICK x \in Response, a \in BOOLEAN :
        /\ stream' = [stream EXCEPT ![r] = x]
        /\ askew' = [askew EXCEPT ![p] = a]
        /\ x.session = p /\ x.phase = "created"
        /\ Speaks(x, input_ids, rows, a)
        /\ Rows(rows, input_ids, a)
  BY BeginState
<1>3. /\ p \notin leaked /\ rows \in Seq(Token)
      /\ \A q \in Requests : Live(q) => stream[q].session # p
  BY DEF MayBegin
<1>4. /\ recency' \in Seq(Sessions) /\ Order'
  BY TouchedOrder DEF Begin
<1>5. input_ids \in Seq(Token \cup {Failed})
  BY SeqMonotonic
<1>6. SessionTypeOK'
  BY <1>1, <1>2, <1>3, <1>4, <1>5 DEF SessionInv, SessionTypeOK
<1>7. /\ stream \in [Requests -> Response] /\ stream'[r] = x
      /\ \A q \in Requests \ {r} : stream'[q] = stream[q]
      /\ \A q \in Requests : Live(q)' <=> q = r \/ Live(q)
  BY <1>2 DEF SessionInv, SessionTypeOK, Live
<1>8. \A q \in Requests : Live(q) => q # r /\ stream[q].session \in Sessions \ {p}
  BY <1>3, OwnSession
<1>9. /\ in_use'[p] /\ \A s \in Sessions \ {p} : in_use'[s] = in_use[s]
      /\ history'[p] = input_ids /\ \A s \in Sessions \ {p} : history'[s] = history[s]
      /\ cache'[p] = rows /\ \A s \in Sessions \ {p} : cache'[s] = cache[s]
      /\ askew'[p] = a /\ \A s \in Sessions \ {p} : askew'[s] = askew[s]
  BY <1>1, <1>2 DEF SessionInv, SessionTypeOK
<1>10. Serving'
  <2>1. ASSUME NEW q \in Requests, Live(q)
        PROVE  stream[q].session \in alive' \ leaked' /\ in_use'[stream[q].session]
    BY <1>8, <1>9, <2>1 DEF SessionInv, Serving
  <2>2. p \in alive' \ leaked' /\ in_use'[p]
    BY <1>3, <1>9
  <2>3. QED
    BY <1>2, <1>7, <1>8, <2>1, <2>2 DEF Serving
<1>11. Alone'
  <2>1. ASSUME NEW q \in Requests, NEW s \in Requests, Live(q)', Live(s)',
               stream'[q].session = stream'[s].session
        PROVE  q = s
    <3>1. CASE q = r \/ s = r
      BY <1>2, <1>7, <1>8, <2>1, <3>1
    <3>2. CASE q # r /\ s # r
      BY <1>7, <2>1, <3>2 DEF SessionInv, Alone
    <3>3. QED
      BY <3>1, <3>2
  <2>2. QED
    BY <2>1 DEF Alone
<1>12. Busy'
  <2>1. ASSUME NEW s \in Sessions, in_use'[s]
        PROVE  s \in leaked \/ \E q \in Requests : Live(q)' /\ stream'[q].session = s
    <3>1. CASE s = p
      BY <1>2, <1>7, <3>1
    <3>2. CASE s # p /\ s \notin leaked
      <4>1. PICK q \in Requests : Live(q) /\ stream[q].session = s
        BY <1>9, <2>1, <3>2 DEF SessionInv, Busy
      <4>2. QED
        BY <1>7, <1>8, <4>1
    <3>3. QED
      BY <3>1, <3>2
  <2>2. ASSUME NEW s \in leaked PROVE s \in alive' /\ in_use'[s]
    <3>1. s \in alive /\ in_use[s] /\ s \in Sessions /\ s # p
      BY <1>3, <2>2 DEF SessionInv, Busy, SessionTypeOK
    <3>2. QED
      BY <1>9, <3>1
  <2>3. QED
    BY <2>1, <2>2 DEF Busy
<1>13. RowsFollow'
  <2> SUFFICES ASSUME NEW s \in Sessions PROVE Rows(cache'[s], history'[s], askew'[s])
    BY DEF RowsFollow
  <2>1. QED
    BY <1>2, <1>9 DEF SessionInv, RowsFollow
<1>14. Responding'
  <2> SUFFICES ASSUME NEW q \in Requests, Live(q)'
               PROVE  LET s == stream'[q].session
                      IN  Speaks(stream'[q], history'[s], cache'[s], askew'[s])
    BY DEF Responding
  <2>1. CASE q = r
    BY <1>2, <1>7, <1>9, <2>1
  <2>2. CASE q # r
    <3>1. Live(q) /\ stream'[q] = stream[q] /\ stream[q].session \in Sessions \ {p}
      BY <1>7, <1>8, <2>2
    <3>2. QED
      BY <1>9, <3>1 DEF SessionInv, Responding
  <2>3. QED
    BY <2>1, <2>2
<1>15. QED
  BY <1>4, <1>6, <1>10, <1>11, <1>12, <1>13, <1>14 DEF SessionInv

\* A session that stands in the store and is not marked belongs to nobody.
LEMMA FreeSession ==
  ASSUME SessionInv, NEW i \in DOMAIN store, ~ in_use[store[i].session]
  PROVE  /\ i \in 1 .. Len(store) /\ store[i].session \in Sessions
         /\ store[i].session \in alive /\ store[i].session \notin leaked
         /\ \A q \in Requests : Live(q) => stream[q].session # store[i].session
<1> DEFINE E == [sid : Sids \cup Sessions, session : Sessions]
<1>1. store \in Seq(E)
  BY DEF SessionInv, SessionTypeOK
<1>2. i \in 1 .. Len(store) /\ store[i] \in E
  <2> HIDE DEF E
  <2>1. QED
    BY <1>1
<1>3. store[i].session \in Sessions /\ store[i].session \in alive
  BY <1>2 DEF SessionInv, Entries, EntriesOf
<1>4. QED
  BY <1>2, <1>3 DEF SessionInv, Busy, Serving

\* A session found in the store, by its id or as the best match.
LEMMA ResumeInv ==
  ASSUME SessionInv, NEW r \in Requests, ~ Live(r), NEW i \in DOMAIN store,
         ~ in_use[store[i].session],
         NEW input_ids \in Seq(Token), input_ids # << >>,
         NEW max_gen \in Nat \ {0}, NEW streamed \in BOOLEAN,
         Resume(r, store[i].session, input_ids, max_gen, streamed)
  PROVE  SessionInv'
<1> DEFINE p    == store[i].session
           h    == history[p]
           m    == MatchLen(h, input_ids)
           rows == IF m < Len(h) THEN Rewound(cache[p], m) ELSE cache[p]
<1>1. /\ p \in Sessions /\ p \in alive /\ p \notin leaked
      /\ \A q \in Requests : Live(q) => stream[q].session # p
  BY FreeSession
<1>2. /\ h \in Seq(Token \cup {Failed}) /\ cache[p] \in Seq(Token) /\ askew[p] \in BOOLEAN
      /\ Rows(cache[p], h, askew[p])
  BY <1>1 DEF SessionInv, SessionTypeOK, RowsFollow
<1>3. input_ids \in Seq(Token \cup {Failed})
  BY SeqMonotonic
<1>4. /\ m \in Nat /\ m <= Len(h) /\ m <= Len(input_ids)
      /\ \A j \in 1 .. m : h[j] = input_ids[j]
  BY <1>2, <1>3, MatchLenProperties
<1>5. Begin(r, p, input_ids, m, rows, max_gen, streamed)
      /\ UNCHANGED <<store, alive, leaked>>
  BY DEF Resume
<1> HIDE DEF m
<1>6. /\ rows \in Seq(Token) /\ Len(rows) <= m /\ Len(rows) <= Len(cache[p])
      /\ \A j \in 1 .. Len(rows) : rows[j] = cache[p][j]
  <2>1. Len(h) \in Nat /\ Len(cache[p]) \in Nat /\ Len(cache[p]) <= Len(h)
    BY <1>2 DEF Rows
  <2>2. CASE m < Len(h) /\ m <= Len(cache[p])
    <3> DEFINE cut == SubSeq(cache[p], 1, m)
    <3>1. cut \in Seq(Token) /\ Len(cut) = m /\ \A j \in 1 .. m : cut[j] = cache[p][j]
      BY <1>2, <1>4, <2>1, <2>2
    <3>2. rows = cut
      BY <1>4, <2>1, <2>2 DEF Rewound
    <3> HIDE DEF cut, rows
    <3>3. QED
      BY ONLY <1>4, <2>1, <2>2, <3>1, <3>2
  <2>3. CASE ~ (m < Len(h) /\ m <= Len(cache[p]))
    <3>1. rows = cache[p] /\ Len(cache[p]) <= m
      BY <1>4, <2>1, <2>3 DEF Rewound
    <3> HIDE DEF rows
    <3>2. QED
      BY <1>2, <2>1, <3>1
  <2>4. QED
    BY <2>2, <2>3
<1> HIDE DEF rows
<1>7. ASSUME ~ askew[p] PROVE Leads(rows, input_ids)
  <2>1. /\ Len(cache[p]) \in Nat /\ Len(rows) \in Nat /\ Len(input_ids) \in Nat
        /\ \A j \in 1 .. Len(cache[p]) : cache[p][j] = h[j]
    BY <1>2, <1>6, <1>7 DEF Rows, Leads
  <2> HIDE DEF h, p
  <2>2. \A j \in 1 .. Len(rows) : rows[j] = input_ids[j]
    BY <1>4, <1>6, <2>1
  <2>3. QED
    BY <1>4, <1>6, <2>1, <2>2 DEF Leads
<1>8. MayBegin(p, input_ids, m, rows)
  BY <1>1, <1>4, <1>6, <1>7 DEF MayBegin
<1>9. /\ store' \in Seq([sid : Sids \cup Sessions, session : Sessions]) /\ Entries'
      /\ alive' = alive \cup {p} /\ leaked' = leaked
  BY <1>1, <1>5 DEF SessionInv, SessionTypeOK, Entries
<1> HIDE DEF p
<1>10. QED
  BY <1>1, <1>5, <1>8, <1>9, BeginInv

\* Nothing is kept of a session that starts anew.
LEMMA MayBeginAnew ==
  ASSUME NEW p \in Sessions, p \notin leaked,
         \A q \in Requests : Live(q) => stream[q].session # p,
         NEW input_ids \in Seq(Token), history[p] \in Seq(Token \cup {Failed})
  PROVE  MayBegin(p, input_ids, 0, << >>)
<1>1. /\ << >> \in Seq(Token) /\ Len(<< >>) = 0
      /\ Len(input_ids) \in Nat /\ Len(history[p]) \in Nat
  BY EmptySeq
<1>2. QED
  BY <1>1 DEF MayBegin

Entry == [sid : Sids \cup Sessions, session : Sessions]

\* A new entry goes under an id that no other entry has.
LEMMA NewEntry ==
  ASSUME NEW s \in Seq(Entry), NEW held, EntriesOf(s, held),
         NEW p \in Sessions, p \notin held,
         NEW sid \in Sids \cup {NoSid},
         \A i \in 1 .. Len(s) : s[i].sid # sid
  PROVE  LET t == Append(s, [sid |-> NewSid(sid, p), session |-> p])
         IN  t \in Seq(Entry) /\ EntriesOf(t, held \cup {p})
<1> DEFINE e == [sid |-> NewSid(sid, p), session |-> p]
           t == Append(s, e)
<1>1. e \in Entry /\ e.session = p /\ e.sid = NewSid(sid, p)
  BY DEF Entry, NewSid
<1>2. e.sid \in Sids \cup {p}
  BY <1>1 DEF NewSid
<1> HIDE DEF e
<1>3. /\ t \in Seq(Entry) /\ Len(t) = Len(s) + 1 /\ Len(s) \in Nat
      /\ t[Len(s) + 1] = e /\ \A i \in 1 .. Len(s) : t[i] = s[i]
  BY <1>1
<1> HIDE DEF t
<1>4. DOMAIN s = 1 .. Len(s) /\ DOMAIN t = 1 .. Len(s) + 1
  BY <1>3
<1>5. ASSUME NEW i \in 1 .. Len(s) PROVE s[i].session # p /\ s[i].session \in held
  BY <1>4 DEF EntriesOf
<1>6. ASSUME NEW i \in 1 .. Len(s) PROVE s[i].sid # e.sid
  <2>1. CASE sid = NoSid
    <3>1. e.sid = p /\ p \notin Sids
      BY <1>1, <2>1, NameAssumption DEF NewSid, Sessions
    <3>2. s[i].sid \in Sids \cup {s[i].session}
      BY DEF EntriesOf
    <3>3. QED
      BY <1>5, <3>1, <3>2
  <2>2. CASE sid # NoSid
    BY <1>1, <2>2 DEF NewSid
  <2>3. QED
    BY <2>1, <2>2
<1>7. \A i \in 1 .. Len(s) + 1 : i \in 1 .. Len(s) \/ i = Len(s) + 1
  BY <1>3
<1>8. {t[i].session : i \in DOMAIN t} = held \cup {p}
  <2>1. \A i \in 1 .. Len(s) + 1 : t[i].session \in held \cup {p}
    BY <1>1, <1>3, <1>5, <1>7
  <2>2. ASSUME NEW q \in held \cup {p} PROVE \E i \in 1 .. Len(s) + 1 : t[i].session = q
    <3>1. CASE q = p
      <4>1. Len(s) + 1 \in 1 .. Len(s) + 1
        BY <1>3
      <4>2. QED
        BY <1>1, <1>3, <3>1, <4>1
    <3>2. CASE q # p
      <4>1. PICK i \in 1 .. Len(s) : s[i].session = q
        BY <1>4, <3>2 DEF EntriesOf
      <4>2. i \in 1 .. Len(s) + 1
        BY <1>3
      <4>3. QED
        BY <1>3, <4>1, <4>2
    <3>3. QED
      BY <3>1, <3>2
  <2>3. QED
    BY <1>4, <2>1, <2>2
<1>9. ASSUME NEW i \in 1 .. Len(t), NEW j \in 1 .. Len(t)
      PROVE  /\ t[i].session = t[j].session => i = j
             /\ t[i].sid = t[j].sid => i = j
  <2>1. /\ i \in 1 .. Len(s) \/ i = Len(s) + 1
        /\ j \in 1 .. Len(s) \/ j = Len(s) + 1
    BY <1>3, <1>7
  <2>2. CASE i \in 1 .. Len(s) /\ j \in 1 .. Len(s)
    BY <1>3, <2>2 DEF EntriesOf
  <2>3. CASE i = Len(s) + 1 \/ j = Len(s) + 1
    BY <1>1, <1>3, <1>5, <1>6, <2>1, <2>3
  <2>4. QED
    BY <2>1, <2>2, <2>3
<1>10. ASSUME NEW i \in 1 .. Len(t) PROVE t[i].sid \in Sids \cup {t[i].session}
  BY <1>1, <1>2, <1>3, <1>7 DEF EntriesOf
<1>11. QED
  BY <1>3, <1>8, <1>9, <1>10 DEF EntriesOf, t, e

\* The store without one of its entries.
LEMMA EntryRemoved ==
  ASSUME NEW s \in Seq(Entry), NEW held, EntriesOf(s, held), NEW k \in 1 .. Len(s)
  PROVE  /\ RemoveAt(s, k) \in Seq(Entry)
         /\ EntriesOf(RemoveAt(s, k), held \ {s[k].session})
         /\ \A i \in 1 .. Len(RemoveAt(s, k)) :
              \E j \in 1 .. Len(s) : RemoveAt(s, k)[i] = s[j]
<1> DEFINE t == RemoveAt(s, k)
<1>1. t \in Seq(Entry)
  BY RemoveAtProperties
<1>2. \A i, j \in 1 .. Len(s) : s[i] = s[j] => i = j
  BY DEF EntriesOf
<1>3. /\ Range(t) = Range(s) \ {s[k]}
      /\ \A i, j \in 1 .. Len(t) : t[i] = t[j] => i = j
  BY <1>2, RemoveAtOfInjective
<1> HIDE DEF t
<1>4. DOMAIN s = 1 .. Len(s) /\ DOMAIN t = 1 .. Len(t)
  BY <1>1
<1>5. ASSUME NEW i \in 1 .. Len(t) PROVE \E j \in 1 .. Len(s) : j # k /\ t[i] = s[j]
  BY <1>3, <1>4 DEF Range
<1>6. ASSUME NEW j \in 1 .. Len(s), j # k PROVE \E i \in 1 .. Len(t) : t[i] = s[j]
  <2>1. s[j] # s[k]
    BY <1>2, <1>6
  <2>2. QED
    BY <1>3, <1>4, <2>1 DEF Range
<1>7. {t[i].session : i \in DOMAIN t} = held \ {s[k].session}
  <2>1. ASSUME NEW i \in 1 .. Len(t) PROVE t[i].session \in held \ {s[k].session}
    <3>1. PICK j \in 1 .. Len(s) : j # k /\ t[i] = s[j]
      BY <1>5
    <3>2. QED
      BY <1>4, <3>1 DEF EntriesOf
  <2>2. ASSUME NEW q \in held \ {s[k].session} PROVE \E i \in 1 .. Len(t) : t[i].session = q
    <3>1. PICK j \in 1 .. Len(s) : s[j].session = q
      BY <1>4 DEF EntriesOf
    <3>2. QED
      BY <1>6, <3>1
  <2>3. QED
    BY <1>4, <2>1, <2>2
<1>8. ASSUME NEW i \in 1 .. Len(t), NEW j \in 1 .. Len(t)
      PROVE  /\ t[i].session = t[j].session => i = j
             /\ t[i].sid = t[j].sid => i = j
             /\ t[i].sid \in Sids \cup {t[i].session}
  <2>1. PICK a \in 1 .. Len(s) : t[i] = s[a]
    BY <1>5
  <2>2. PICK b \in 1 .. Len(s) : t[j] = s[b]
    BY <1>5
  <2>3. QED
    BY <1>3, <2>1, <2>2 DEF EntriesOf
<1>9. EntriesOf(t, held \ {s[k].session})
  BY <1>7, <1>8 DEF EntriesOf
<1>10. QED
  BY <1>1, <1>5, <1>9 DEF t

\* What the store holds, by type.
LEMMA StoreFacts ==
  ASSUME SessionInv
  PROVE  /\ store \in Seq(Entry) /\ EntriesOf(store, alive) /\ alive \subseteq Sessions
         /\ \A p \in Sessions : history[p] \in Seq(Token \cup {Failed})
BY DEF SessionInv, SessionTypeOK, Entries, Entry

\* A session taken from the one used longest ago.
LEMMA EvictInv ==
  ASSUME SessionInv, NEW r \in Requests, ~ Live(r), NEW sid \in Sids \cup {NoSid},
         NEW input_ids \in Seq(Token), input_ids # << >>,
         NEW max_gen \in Nat \ {0}, NEW streamed \in BOOLEAN,
         Evict(r, sid, input_ids, max_gen, streamed)
  PROVE  SessionInv'
<1>1. PICK i \in DOMAIN store :
        LET p == store[i].session IN
        /\ IsOldest(i)
        /\ store' = Append(RemoveAt(store, i),
                           [sid |-> NewSid(sid, p), session |-> p])
        /\ Begin(r, p, input_ids, 0, Rewound(cache[p], 0), max_gen, streamed)
        /\ UNCHANGED <<alive, leaked>>
  BY DEF Evict
<1> DEFINE p == store[i].session
           t == RemoveAt(store, i)
<1>2. ~ in_use[p]
  BY <1>1 DEF IsOldest, Free
<1>3. /\ i \in 1 .. Len(store) /\ p \in Sessions /\ p \in alive /\ p \notin leaked
      /\ \A q \in Requests : Live(q) => stream[q].session # p
  BY <1>2, FreeSession
<1>4. Rewound(cache[p], 0) = << >>
  <2>1. cache[p] \in Seq(Token)
    BY <1>3 DEF SessionInv, SessionTypeOK
  <2>2. Len(cache[p]) \in Nat /\ SubSeq(cache[p], 1, 0) = << >>
    BY <2>1
  <2>3. ~ (0 > Len(cache[p]))
    BY <2>2
  <2>4. QED
    BY <2>2, <2>3 DEF Rewound
<1>5. \A j \in 1 .. Len(store) : store[j].sid # sid
  BY StoreFacts DEF Evict, NeedsNew, SidsInStore
<1>6. /\ t \in Seq(Entry) /\ EntriesOf(t, alive \ {p})
      /\ \A j \in 1 .. Len(t) : t[j].sid # sid
  <2>1. /\ t \in Seq(Entry) /\ EntriesOf(t, alive \ {p})
        /\ \A j \in 1 .. Len(t) : \E k \in 1 .. Len(store) : t[j] = store[k]
    BY <1>3, StoreFacts, EntryRemoved
  <2> HIDE DEF t, p
  <2>2. QED
    BY <1>5, <2>1
<1>7. store' \in Seq(Entry) /\ EntriesOf(store', (alive \ {p}) \cup {p})
  <2>1. store' = Append(t, [sid |-> NewSid(sid, p), session |-> p])
    BY <1>1
  <2> HIDE DEF t, p
  <2>2. p \in Sessions /\ p \notin alive \ {p}
    BY <1>3
  <2>3. QED
    BY <1>6, <2>1, <2>2, NewEntry
<1>8. (alive \ {p}) \cup {p} = alive /\ alive' = alive \cup {p} /\ leaked' = leaked
      /\ alive' = alive
  BY <1>1, <1>3
<1>9. store' \in Seq([sid : Sids \cup Sessions, session : Sessions]) /\ Entries'
  BY <1>7, <1>8 DEF Entries, Entry
<1>10. Begin(r, p, input_ids, 0, << >>, max_gen, streamed)
  BY <1>1, <1>4
<1>11. MayBegin(p, input_ids, 0, << >>)
  BY <1>3, StoreFacts, MayBeginAnew
<1> HIDE DEF p
<1>12. QED
  BY <1>3, <1>8, <1>9, <1>10, <1>11, BeginInv, ZenonT(60)

\* A new session.
LEMMA CreateInv ==
  ASSUME SessionInv, NEW r \in Requests, ~ Live(r), NEW sid \in Sids \cup {NoSid},
         NEW input_ids \in Seq(Token), input_ids # << >>,
         NEW max_gen \in Nat \ {0}, NEW streamed \in BOOLEAN,
         Create(r, sid, input_ids, max_gen, streamed)
  PROVE  SessionInv'
<1>1. PICK p \in Sessions \ alive :
        /\ store' = Append(store, [sid |-> NewSid(sid, p), session |-> p])
        /\ alive' = alive \cup {p}
        /\ Begin(r, p, input_ids, 0, << >>, max_gen, streamed)
        /\ UNCHANGED leaked
  BY DEF Create
<1>2. p \notin leaked /\ \A q \in Requests : Live(q) => stream[q].session # p
  BY DEF SessionInv, Busy, Serving
<1>3. \A j \in 1 .. Len(store) : store[j].sid # sid
  BY StoreFacts DEF Create, NeedsNew, SidsInStore
<1>4. store' \in Seq(Entry) /\ EntriesOf(store', alive \cup {p})
  BY <1>1, <1>3, StoreFacts, NewEntry
<1>5. store' \in Seq([sid : Sids \cup Sessions, session : Sessions]) /\ Entries'
  BY <1>1, <1>4 DEF Entries, Entry
<1>6. MayBegin(p, input_ids, 0, << >>)
  BY <1>2, StoreFacts, MayBeginAnew
<1>7. QED
  BY <1>1, <1>5, <1>6, BeginInv

\* A handler gets a session one of these ways, or is refused.
LEMMA ChatCompletionsInv ==
  ASSUME SessionInv, NEW r \in Requests, NEW sid \in Sids \cup {NoSid},
         NEW messages \in Conversations, NEW max_tokens \in MaxTokens,
         NEW streamed \in BOOLEAN,
         ChatCompletions(r, sid, messages, max_tokens, streamed),
         ~ UNCHANGED vars
  PROVE  SessionInv'
<1> DEFINE max_gen   == IF max_tokens > MaxSteps THEN MaxSteps ELSE max_tokens
           input_ids == InputIds(messages, max_gen)
<1>1. max_gen \in Nat \ {0}
  BY SizesAssumption, RequestAssumption
<1>2. input_ids \in Seq(Token) /\ input_ids # << >>
  BY InputIdsType
<1>3. /\ ~ Live(r)
      /\ \/ ResumeNamed(r, sid, input_ids, max_gen, streamed)
         \/ ResumeBest(r, sid, input_ids, max_gen, streamed)
         \/ Evict(r, sid, input_ids, max_gen, streamed)
         \/ Create(r, sid, input_ids, max_gen, streamed)
         \/ Refuse(sid, input_ids)
  BY DEF ChatCompletions
<1> HIDE DEF max_gen, input_ids
<1>4. CASE ResumeNamed(r, sid, input_ids, max_gen, streamed)
  <2> DEFINE i == CHOOSE i \in DOMAIN store : store[i].sid = sid
  <2>1. i \in DOMAIN store /\ SessionOf(sid) = store[i].session
    BY <1>4 DEF ResumeNamed, SidsInStore, SessionOf
  <2> HIDE DEF i
  <2>2. ~ in_use[store[i].session] /\ Resume(r, store[i].session, input_ids, max_gen, streamed)
    BY <1>4, <2>1 DEF ResumeNamed
  <2>3. QED
    BY <1>1, <1>2, <1>3, <2>1, <2>2, ResumeInv
<1>5. CASE ResumeBest(r, sid, input_ids, max_gen, streamed)
  <2>1. PICK i \in DOMAIN store : /\ IsBest(i, input_ids)
                                  /\ Resume(r, store[i].session, input_ids, max_gen, streamed)
    BY <1>5 DEF ResumeBest
  <2>2. ~ in_use[store[i].session]
    BY <2>1 DEF IsBest, Free
  <2>3. QED
    BY <1>1, <1>2, <1>3, <2>1, <2>2, ResumeInv
<1>6. CASE Evict(r, sid, input_ids, max_gen, streamed)
  BY <1>1, <1>2, <1>3, <1>6, EvictInv
<1>7. CASE Create(r, sid, input_ids, max_gen, streamed)
  BY <1>1, <1>2, <1>3, <1>7, CreateInv
<1>8. CASE Refuse(sid, input_ids)
  BY <1>8 DEF Refuse
<1>9. QED
  BY <1>3, <1>4, <1>5, <1>6, <1>7, <1>8

-----------------------------------------------------------------------------
\* The invariant holds.

\* The empty store.
LEMMA InitInv == Init => SessionInv
<1> SUFFICES ASSUME Init PROVE SessionInv
  OBVIOUS
<1>1. \A r \in Requests : stream[r] = Idle /\ ~ Live(r)
  BY DEF Init, Live, Idle
<1>2. Idle \in Response
  BY EmptySeq DEF Idle, Response, Phase
<1>3. SessionTypeOK
  BY <1>2, EmptySeq DEF Init, SessionTypeOK
<1>4. Serving /\ Alone /\ Responding
  BY <1>1 DEF Serving, Alone, Responding
<1>5. Busy
  BY DEF Busy, Init
<1>6. Entries /\ Order
  BY DEF Entries, EntriesOf, Order, Init, Range
<1>7. RowsFollow
  BY DEF RowsFollow, Rows, Leads, Init
<1>8. QED
  BY <1>3, <1>4, <1>5, <1>6, <1>7 DEF SessionInv

\* A step that changes nothing.
LEMMA StutterInv == SessionInv /\ UNCHANGED vars => SessionInv'
BY DEF SessionInv, vars, SessionTypeOK, Serving, Alone, Busy, Entries, Order,
       RowsFollow, Responding, Live

\* Every step keeps the invariant.
LEMMA NextInv == SessionInv /\ [Next]_vars => SessionInv'
<1> SUFFICES ASSUME SessionInv, [Next]_vars PROVE SessionInv'
  OBVIOUS
<1>1. CASE UNCHANGED vars
  BY <1>1, StutterInv
<1>2. CASE ~ UNCHANGED vars
  <2>1. CASE \E r \in Requests, sid \in Sids \cup {NoSid}, messages \in Conversations,
               max_tokens \in MaxTokens, streamed \in BOOLEAN :
               ChatCompletions(r, sid, messages, max_tokens, streamed)
    BY <1>2, <2>1, ChatCompletionsInv
  <2>2. CASE \E r \in Requests : Generate(r) \/ Finally(r)
    BY <2>2, StartedInv, PrefillInv, DecodeInv, OutOfStepsInv, DisconnectInv, FinallyInv
       DEF Generate
  <2>3. CASE Restart
    BY <2>3, RestartInv
  <2>4. QED
    BY <1>2, <2>1, <2>2, <2>3 DEF Next
<1>3. QED
  BY <1>1, <1>2

\* The inductive invariant holds in every reachable state.
THEOREM SessionInvAlways == Spec => []SessionInv
<1>1. Init => SessionInv
  BY InitInv
<1>2. SessionInv /\ [Next]_vars => SessionInv'
  BY NextInv
<1>3. QED
  BY <1>1, <1>2, PTL DEF Spec

-----------------------------------------------------------------------------
\* What it says.

\* Every variable keeps its type: no session is named that does not exist, and
\* no mark of a refused forward ever reaches a prompt or a row.
THEOREM SessionTypeCorrect == Spec => []SessionTypeOK
<1>1. SessionInv => SessionTypeOK
  BY DEF SessionInv
<1>2. QED
  BY <1>1, SessionInvAlways, PTL

\* The invariant contains each property.
LEMMA ExclusiveUseHolds == SessionInv => ExclusiveUse
<1> SUFFICES ASSUME SessionInv, NEW p \in Sessions
             PROVE  /\ Cardinality(Holders(p)) <= 1
                    /\ in_use[p] <=> Holders(p) # {} \/ p \in leaked
  BY DEF ExclusiveUse
<1>1. Cardinality(Holders(p)) <= 1
  <2>1. CASE Holders(p) = {}
    BY <2>1, FS_EmptySet
  <2>2. CASE Holders(p) # {}
    <3>1. PICK r \in Holders(p) : TRUE
      BY <2>2
    <3>2. Holders(p) = {r}
      BY <3>1 DEF Holders, SessionInv, Alone
    <3>3. QED
      BY <3>2, FS_Singleton
  <2>3. QED
    BY <2>1, <2>2
<1>2. in_use[p] => Holders(p) # {} \/ p \in leaked
  BY DEF SessionInv, Busy, Holders
<1>3. p \in leaked => in_use[p]
  BY DEF SessionInv, Busy
<1>4. Holders(p) # {} => in_use[p]
  BY DEF SessionInv, Serving, Holders
<1>5. QED
  BY <1>1, <1>2, <1>3, <1>4

\* A C session is fed for one response at a time, and marked in use exactly as
\* long as a response has it or one was dropped with it.
THEOREM ExclusiveUseAlways == Spec => []ExclusiveUse
BY ExclusiveUseHolds, SessionInvAlways, PTL

\* The store's part.
LEMMA StoreWholeHolds == SessionInv => StoreWhole
<1> SUFFICES ASSUME SessionInv PROVE StoreWhole
  OBVIOUS
<1>1. /\ store \in Seq(Entry) /\ Len(store) \in Nat /\ DOMAIN store = 1 .. Len(store)
      /\ EntriesOf(store, alive)
  BY StoreFacts
<1>2. \A i \in 1 .. Len(store) : store[i] \in Entry
  BY <1>1
<1> DEFINE sessions == [i \in 1 .. Len(store) |-> store[i].session]
           sids     == [i \in 1 .. Len(store) |-> store[i].sid]
<1>3. /\ sessions \in Seq(Sessions) /\ Len(sessions) = Len(store)
      /\ sids \in Seq(Sids \cup Sessions) /\ Len(sids) = Len(store)
  BY <1>1, <1>2 DEF Entry
<1>4. /\ DOMAIN sessions = 1 .. Len(store) /\ DOMAIN sids = 1 .. Len(store)
      /\ \A i \in 1 .. Len(store) : sessions[i] = store[i].session /\ sids[i] = store[i].sid
  OBVIOUS
<1> HIDE DEF sessions, sids
<1>5. Range(sessions) = alive /\ Range(sids) = SidsInStore
  BY <1>1, <1>4 DEF Range, EntriesOf, SidsInStore
<1>6. /\ \A i, j \in 1 .. Len(sessions) : sessions[i] = sessions[j] => i = j
      /\ \A i, j \in 1 .. Len(sids) : sids[i] = sids[j] => i = j
  BY <1>1, <1>3, <1>4 DEF EntriesOf
<1>7. Cardinality(alive) = Len(store)
  BY <1>3, <1>5, <1>6, InjectiveLength
<1>8. Cardinality(SidsInStore) = Len(store)
  BY <1>3, <1>5, <1>6, InjectiveLength
<1>9. Range(recency) = alive /\ Cardinality(alive) = Len(recency)
  BY InjectiveLength DEF SessionInv, SessionTypeOK, Order
<1>10. QED
  BY <1>1, <1>7, <1>8, <1>9 DEF StoreWhole, EntriesOf

\* Every C session stands in the store once, under an id of its own, and once in
\* the order of last use, whatever is evicted, renamed or created.
THEOREM StoreWholeAlways == Spec => []StoreWhole
BY StoreWholeHolds, SessionInvAlways, PTL

\* The responses' part.
LEMMA HistoryIsPromptHolds == SessionInv => HistoryIsPrompt
<1> SUFFICES ASSUME SessionInv, NEW r \in Requests, Live(r), stream[r].phase # "closing"
             PROVE  LET h == history[stream[r].session] IN
                    /\ IsPrefix(stream[r].input_ids, h)
                    /\ Len(h) + stream[r].left <= Len(stream[r].input_ids) + stream[r].max_gen
  BY DEF HistoryIsPrompt
<1> DEFINE h   == history[stream[r].session]
           ins == stream[r].input_ids
<1>1. /\ ins \in Seq(Token) /\ stream[r].left \in Nat /\ stream[r].max_gen \in Nat
      /\ h \in Seq(Token \cup {Failed})
      /\ stream[r].phase \in {"created", "role", "generating"}
  BY OwnState DEF Response, Phase, Live
<1>2. ins \in Seq(Token \cup {Failed}) /\ Len(ins) \in Nat /\ Len(h) \in Nat
  BY <1>1, SeqMonotonic
<1>3. Speaks(stream[r], h, cache[stream[r].session], askew[stream[r].session])
  BY OwnState
<1>4. /\ Leads(ins, h) /\ Len(h) + stream[r].left <= Len(ins) + stream[r].max_gen
  <2>1. CASE stream[r].phase = "generating"
    BY <1>3, <2>1 DEF Speaks, GoingOn
  <2>2. CASE stream[r].phase \in {"created", "role"}
    <3>1. /\ h = ins /\ stream[r].max_gen >= 1
          /\ stream[r].left = stream[r].max_gen - 1
      BY <1>3, <2>2 DEF Speaks, AtStart
    <3>2. Leads(ins, h)
      BY <1>2, <3>1 DEF Leads
    <3> HIDE DEF ins
    <3>3. QED
      BY <1>1, <1>2, <3>1, <3>2
  <2>3. QED
    BY <1>1, <2>1, <2>2
<1>5. IsPrefix(ins, h)
  <2> HIDE DEF ins, h
  <2>1. QED
    BY <1>1, <1>2, <1>4, PrefixPointwise DEF Leads
<1>6. QED
  BY <1>4, <1>5

\* A response goes on from its own prompt and adds max_gen tokens at most.
THEOREM HistoryIsPromptAlways == Spec => []HistoryIsPrompt
BY HistoryIsPromptHolds, SessionInvAlways, PTL

\* No C session holds more rows than the server knows tokens.
THEOREM CacheNeverAheadAlways == Spec => []CacheNeverAhead
<1>1. SessionInv => CacheNeverAhead
  BY DEF SessionInv, RowsFollow, Rows, CacheNeverAhead
<1>2. QED
  BY <1>1, SessionInvAlways, PTL

\* The rows' part.
LEMMA CacheFollowsHistoryHolds == SessionInv => CacheFollowsHistory
<1> SUFFICES ASSUME SessionInv, NEW p \in Sessions, ~ askew[p]
             PROVE  IsPrefix(cache[p], history[p])
  BY DEF CacheFollowsHistory
<1>1. cache[p] \in Seq(Token) /\ history[p] \in Seq(Token \cup {Failed})
  BY DEF SessionInv, SessionTypeOK
<1>2. cache[p] \in Seq(Token \cup {Failed})
  BY <1>1, SeqMonotonic
<1>3. Leads(cache[p], history[p])
  BY DEF SessionInv, RowsFollow, Rows
<1>4. QED
  BY <1>1, <1>2, <1>3, PrefixPointwise DEF Leads

\* As long as no response began at another position than its tokens', the rows
\* of a session are those of its history.
THEOREM CacheFollowsHistoryAlways == Spec => []CacheFollowsHistory
BY CacheFollowsHistoryHolds, SessionInvAlways, PTL

-----------------------------------------------------------------------------
\* Refused forwards.

\* A handler touches the history of no response.
LEMMA ChatLeavesOthers ==
  ASSUME SessionInv, NEW q \in Requests, NEW sid \in Sids \cup {NoSid},
         NEW messages \in Conversations, NEW max_tokens \in MaxTokens,
         NEW streamed \in BOOLEAN,
         ChatCompletions(q, sid, messages, max_tokens, streamed),
         NEW r \in Requests, Live(r)
  PROVE  history'[stream[r].session] = history[stream[r].session]
<1> DEFINE max_gen   == IF max_tokens > MaxSteps THEN MaxSteps ELSE max_tokens
           input_ids == InputIds(messages, max_gen)
           p         == stream[r].session
<1>1. p \in Sessions /\ p \in alive /\ history \in [Sessions -> Seq(Token \cup {Failed})]
  BY OwnSession DEF SessionInv, SessionTypeOK
<1>2. ASSUME NEW s \in Sessions, s # p, NEW m, NEW rows,
             Begin(q, s, input_ids, m, rows, max_gen, streamed)
      PROVE  history'[p] = history[p]
  BY <1>1, <1>2 DEF Begin
<1> HIDE DEF max_gen, input_ids
<1>3. ASSUME NEW i \in DOMAIN store, ~ in_use[store[i].session],
             Resume(q, store[i].session, input_ids, max_gen, streamed)
      PROVE  history'[p] = history[p]
  BY <1>2, <1>3, FreeSession DEF Resume
<1>4. CASE ResumeNamed(q, sid, input_ids, max_gen, streamed)
  <2> DEFINE i == CHOOSE i \in DOMAIN store : store[i].sid = sid
  <2>1. i \in DOMAIN store /\ SessionOf(sid) = store[i].session
    BY <1>4 DEF ResumeNamed, SidsInStore, SessionOf
  <2> HIDE DEF i
  <2>2. QED
    BY <1>3, <1>4, <2>1 DEF ResumeNamed
<1>5. CASE ResumeBest(q, sid, input_ids, max_gen, streamed)
  BY <1>3, <1>5 DEF ResumeBest, IsBest, Free
<1>6. CASE Evict(q, sid, input_ids, max_gen, streamed)
  <2>1. PICK i \in DOMAIN store :
          /\ IsOldest(i)
          /\ Begin(q, store[i].session, input_ids, 0, Rewound(cache[store[i].session], 0),
                   max_gen, streamed)
    BY <1>6 DEF Evict
  <2>2. ~ in_use[store[i].session]
    BY <2>1 DEF IsOldest, Free
  <2>3. store[i].session \in Sessions /\ store[i].session # p
    BY <2>2, FreeSession
  <2>4. QED
    BY <1>2, <2>1, <2>3
<1>7. CASE Create(q, sid, input_ids, max_gen, streamed)
  BY <1>1, <1>2, <1>7 DEF Create
<1>8. CASE Refuse(sid, input_ids)
  BY <1>8 DEF Refuse, vars
<1>9. QED
  BY <1>4, <1>5, <1>6, <1>7, <1>8 DEF ChatCompletions, max_gen, input_ids

\* A forward adds a token to the history, never the mark of a refusal.
LEMMA ForwardAddsToken ==
  ASSUME SessionInv, NEW r \in Requests, Live(r), NEW ids, NEW left,
         Forward(r, ids, left)
  PROVE  history'[stream[r].session] # Append(history[stream[r].session], Failed)
<1> DEFINE p == stream[r].session
<1>1. p \in Sessions /\ history \in [Sessions -> Seq(Token \cup {Failed})]
      /\ history[p] \in Seq(Token \cup {Failed})
  BY OwnSession DEF SessionInv, SessionTypeOK
<1>2. PICK token \in Token : history' = [history EXCEPT ![p] = Append(@, token)]
  BY DEF Forward
<1>3. history'[p] = Append(history[p], token)
  BY <1>1, <1>2
<1>4. /\ Append(history[p], token)[Len(history[p]) + 1] = token
      /\ Append(history[p], Failed)[Len(history[p]) + 1] = Failed
  BY <1>1
<1>5. token # Failed
  BY TokenAssumption
<1>6. QED
  BY <1>3, <1>4, <1>5

\* Steps of another response leave the history of this one alone.
LEMMA OtherLeavesHistory ==
  ASSUME SessionInv, NEW r \in Requests, Live(r), NEW q \in Requests, q # r,
         Generate(q) \/ Finally(q)
  PROVE  history'[stream[r].session] = history[stream[r].session]
<1>1. stream[r].session \in Sessions /\ history \in [Sessions -> Seq(Token \cup {Failed})]
  BY OwnSession DEF SessionInv, SessionTypeOK
<1>2. Live(q)
  BY DEF Generate, Finally, Started, Prefill, Decode, OutOfSteps, Disconnect, InLoop, Live
<1>3. stream[q].session # stream[r].session /\ stream[q].session \in Sessions
  BY <1>2, OwnSession
<1>4. ASSUME NEW ids, NEW left, Forward(q, ids, left) \/ ForwardRefused(q, ids)
      PROVE  history'[stream[r].session] = history[stream[r].session]
  BY <1>1, <1>3, <1>4 DEF Forward, ForwardRefused
<1>5. CASE Prefill(q)
  BY <1>4, <1>5 DEF Prefill
<1>6. CASE Decode(q)
  BY <1>4, <1>6 DEF Decode
<1>7. CASE Started(q) \/ OutOfSteps(q) \/ Disconnect(q) \/ Finally(q)
  BY <1>7 DEF Started, OutOfSteps, Disconnect, Finally
<1>8. QED
  BY <1>5, <1>6, <1>7 DEF Generate

\* Only a prompt too long for its max_gen tokens has no room.
LEMMA NoRoomOnlyWhenTooLong ==
  ASSUME SessionInv, NEW r \in Requests, Live(r), NEW ids \in Seq(Token), NEW left \in Nat,
         MayFeed(stream[r], history[stream[r].session], cache[stream[r].session],
                 askew[stream[r].session], ids, left),
         ForwardRefused(r, ids)
  PROVE  Len(stream[r].input_ids) + stream[r].max_gen > MaxSeq + 1
<1> DEFINE rows == cache[stream[r].session]
           ins  == stream[r].input_ids
           max  == stream[r].max_gen
<1>1. /\ Len(rows) \in Nat /\ Len(ids) \in Nat /\ Len(ins) \in Nat /\ max \in Nat
      /\ MaxSeq \in Nat
  BY OwnState, SizesAssumption DEF Response
<1>2. ~ (Len(rows) + Len(ids) <= MaxSeq)
  BY DEF ForwardRefused, HasRoom
<1>3. Len(rows) + Len(ids) + left < Len(ins) + max
  BY DEF MayFeed
<1> HIDE DEF rows, ins, max
<1>4. Len(ins) + max > MaxSeq + 1
  BY <1>1, <1>2, <1>3
<1>5. QED
  BY <1>4 DEF ins, max

\* A history ends with the mark of a refused forward only when the prompt and
\* max_gen tokens do not fit the C session.
LEMMA RefusedOnlyWhenTooLong ==
  ASSUME SessionInv, [Next]_vars, NEW r \in Requests, Live(r),
         history'[stream[r].session] = Append(history[stream[r].session], Failed)
  PROVE  Len(stream[r].input_ids) + stream[r].max_gen > MaxSeq + 1
<1> DEFINE h == history[stream[r].session]
<1>1. h \in Seq(Token \cup {Failed})
  BY OwnState
<1>2. history'[stream[r].session] # h
  <2> HIDE DEF h
  <2>1. Len(Append(h, Failed)) = Len(h) + 1 /\ Len(h) \in Nat
    BY <1>1
  <2>2. Append(h, Failed) # h
    BY <2>1
  <2>3. QED
    BY <2>2 DEF h
<1>3. CASE Prefill(r)
  <2>1. stream[r].phase = "role" /\ stream[r].new_ids # << >>
    BY <1>3 DEF Prefill
  <2>2. ~ Forward(r, stream[r].new_ids, stream[r].left)
    BY ForwardAddsToken
  <2>3. ForwardRefused(r, stream[r].new_ids)
    BY <1>3, <2>2 DEF Prefill
  <2>4. QED
    BY <2>1, <2>3, PrefillFeeds, NoRoomOnlyWhenTooLong
<1>4. CASE Decode(r)
  <2>1. InLoop(r) /\ stream[r].left > 0
    BY <1>4 DEF Decode
  <2>2. ~ Forward(r, LastToken(r), stream[r].left - 1)
    BY ForwardAddsToken
  <2>3. ForwardRefused(r, LastToken(r))
    BY <1>4, <2>2 DEF Decode
  <2>4. QED
    BY <2>1, <2>3, DecodeFeeds, NoRoomOnlyWhenTooLong
<1>5. CASE Started(r) \/ OutOfSteps(r) \/ Disconnect(r) \/ Finally(r)
  BY <1>2, <1>5 DEF Started, OutOfSteps, Disconnect, Finally
<1>6. CASE \E q \in Requests \ {r} : Generate(q) \/ Finally(q)
  BY <1>2, <1>6, OtherLeavesHistory
<1>7. CASE \E q \in Requests, sid \in Sids \cup {NoSid}, messages \in Conversations,
             max_tokens \in MaxTokens, streamed \in BOOLEAN :
             ChatCompletions(q, sid, messages, max_tokens, streamed)
  BY <1>2, <1>7, ChatLeavesOthers
<1>8. CASE Restart
  BY <1>8 DEF Restart
<1>9. CASE UNCHANGED vars
  BY <1>2, <1>9 DEF vars
<1>10. QED
  BY <1>3, <1>4, <1>5, <1>6, <1>7, <1>8, <1>9 DEF Next, Generate

\* A request whose prompt leaves room for max_gen tokens is never refused by the
\* C session, whatever the session did before.
THEOREM FittingNeverRefusedAlways == Spec => FittingNeverRefused
<1> DEFINE A == \A r \in Requests :
                  Live(r) /\ history'[stream[r].session]
                               = Append(history[stream[r].session], Failed)
                    => Len(stream[r].input_ids) + stream[r].max_gen > MaxSeq + 1
<1>1. SessionInv /\ [Next]_vars => A
  BY RefusedOnlyWhenTooLong
<1> HIDE DEF A
<1>2. Spec => [][A]_vars
  BY <1>1, SessionInvAlways, PTL DEF Spec
<1>3. QED
  BY <1>2 DEF FittingNeverRefused, A

=============================================================================
