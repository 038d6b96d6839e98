---------------------------- MODULE SessionServer ----------------------------
(***************************************************************************)
(* The standalone chat server: a store of sessions kept between requests,  *)
(* each with the token history the server believes in and a dense session  *)
(* of the C library that holds K/V rows for the tokens really fed to it.   *)
(*                                                                         *)
(* Requests run on one event loop.  A handler runs without a break from    *)
(* the look-up of a session to the generator of its response.  A streamed  *)
(* response then goes chunk by chunk, the others in between, and its       *)
(* client may go away at any chunk; a response that is not streamed keeps  *)
(* the loop to itself (holder) until it is complete.  Either way the       *)
(* generator's "finally" runs some time after the response is over.        *)
(*                                                                         *)
(* The rows of a C session below its pos are the only ones ever read, and  *)
(* each is determined by the tokens up to it: cache is those tokens, pos   *)
(* its length.                                                             *)
(***************************************************************************)
EXTENDS Integers, FiniteSets, SequencesExt

CONSTANTS
  MaxRequests,    \* bound: handlers at work at one time
  Sids,           \* session ids clients choose
  NoSid,          \* no session id
  Token,          \* what the model samples and prompts are made of
  EndToken,       \* end_token
  Failed,         \* the -1 of a refused forward
  Nobody,         \* no request holds the event loop
  MaxSessions,    \* max_sessions
  MaxSeq,         \* maxseq, also max_context_len
  MaxSteps,       \* max_steps, the largest max_gen
  Conversations,  \* bound: the message lists clients send
  MaxTokens,      \* bound: the max_tokens they ask for
  SystemPrompt    \* default_system_prompt

ASSUME SizesAssumption ==
  /\ MaxRequests \in Nat /\ MaxSessions \in Nat \ {0}
  /\ MaxSeq \in Nat \ {0} /\ MaxSteps \in Nat \ {0}
ASSUME TokenAssumption ==
  EndToken \in Token /\ Failed \notin Token /\ SystemPrompt \in Seq(Token)
ASSUME ConversationAssumption ==
  Conversations \subseteq Seq([role : {"system", "user"}, content : Seq(Token)])
ASSUME RequestAssumption == MaxTokens \subseteq Nat \ {0}
\* The chat template puts tokens of its own around a system prompt, empty or not.
ASSUME PromptAssumption ==
  /\ SystemPrompt # << >>
  /\ \A messages \in Conversations : \A i \in DOMAIN messages :
       messages[i].role = "system" => messages[i].content # << >>
\* A fresh id, a uuid4, is none that a client chooses: see NewSid.
ASSUME NameAssumption ==
  NoSid \notin Sids /\ Nobody \notin Nat /\ Sids \cap (1 .. MaxSessions) = {}

VARIABLES
  store,     \* session_store: the dict's entries in insertion order
  recency,   \* the C sessions by last_accessed, oldest first
  history,   \* history_ids
  in_use,    \* in_use
  alive,     \* C sessions created and not destroyed
  cache,     \* tokens of the K/V rows below pos of a C session
  stream,    \* the response each handler is at
  holder,    \* the request whose response is not streamed, while it runs
  askew,     \* history: a response began at another position than its tokens'
  leaked     \* history: sessions of responses dropped before their first chunk

vars == <<store, recency, history, in_use, alive, cache, stream, holder, askew,
          leaked>>

-----------------------------------------------------------------------------
Requests == 1 .. MaxRequests
Sessions == 1 .. MaxSessions

Phase == {"idle", "created", "role", "generating", "closing"}

Response == [phase : Phase, session : Sessions \cup {0}, input_ids : Seq(Token),
             new_ids : Seq(Token), left : Nat, max_gen : Nat]

Idle == [phase |-> "idle", session |-> 0, input_ids |-> << >>,
         new_ids |-> << >>, left |-> 0, max_gen |-> 0]

\* A response that is over keeps its session until its generator is closed.
Closing(p) == [Idle EXCEPT !.phase = "closing", !.session = p]

Live(r) == stream[r].phase # "idle"

\* Templating and encoding: the tokens of the messages, one after the other.
Encoded(messages) == FlattenSeq([i \in DOMAIN messages |-> messages[i].content])

StartsWithSystem(messages) == messages # << >> /\ messages[1].role = "system"

\* prune_messages: the oldest messages after the system prompt go, one by one,
\* until the rest fits or there is no more to drop.
PruneMessages(messages, max) ==
  LET kept    == IF StartsWithSystem(messages) THEN 1 ELSE 0
      Less(k) == SubSeq(messages, 1, kept)
                   \o SubSeq(messages, kept + k + 1, Len(messages))
      enough  == {k \in 0 .. Len(messages) - kept :
                    Len(Encoded(Less(k))) <= max \/ k = Len(messages) - kept}
  IN  IF messages = << >> THEN << >>
      ELSE Less(CHOOSE k \in enough : \A j \in enough : k <= j)

\* The prompt of a conversation: pruned to what max_gen leaves, and only then
\* given the default system prompt when it has none.
InputIds(messages, max_gen) ==
  LET pruned == PruneMessages(messages, MaxSeq - max_gen)
  IN  IF StartsWithSystem(pruned) THEN Encoded(pruned)
      ELSE SystemPrompt \o Encoded(pruned)

\* Mutant: the lengths are compared, not the tokens.
MatchLenByLength(a, b) == Cardinality({n \in 1 .. Len(a) : n <= Len(b)})

\* How far two token lists agree.
MatchLen(a, b) ==
  Cardinality({n \in 1 .. Len(a) : n <= Len(b) /\ \A i \in 1 .. n : a[i] = b[i]})

\* Mutant: the pos of the C session stays.
RewoundNowhere(rows, len) == rows

\* RewindSession ignores a length beyond pos.
Rewound(rows, len) == IF len > Len(rows) THEN rows ELSE SubSeq(rows, 1, len)

SidsInStore == {store[i].sid : i \in DOMAIN store}
SessionOf(sid) == store[CHOOSE i \in DOMAIN store : store[i].sid = sid].session
\* Mutant: sessions in use are handed out as well.
FreeOrNot == DOMAIN store

Free == {i \in DOMAIN store : ~in_use[store[i].session]}

\* The entry best matched by a prompt: the first in the dict among equals.
Match(i, input_ids) == MatchLen(history[store[i].session], input_ids)
IsBest(i, input_ids) ==
  /\ i \in Free /\ Match(i, input_ids) > 0
  /\ \A j \in Free : \/ Match(j, input_ids) < Match(i, input_ids)
                     \/ Match(j, input_ids) = Match(i, input_ids) /\ i <= j
SomeMatch(input_ids) == \E i \in Free : Match(i, input_ids) > 0

RankOf(p) == CHOOSE n \in DOMAIN recency : recency[n] = p
IsOldest(i) ==
  /\ i \in Free
  /\ \A j \in Free : RankOf(store[i].session) <= RankOf(store[j].session)

Touched(p) == Append(RemoveFirst(recency, p), p)

\* Mutant: anonymous sessions share one name.
NewSidUnnamed(sid, p) == sid

\* Anonymous sessions go under a fresh id; the number of the C session is one.
NewSid(sid, p) == IF sid = NoSid THEN p ELSE sid

-----------------------------------------------------------------------------
Init ==
  /\ store = << >> /\ recency = << >>
  /\ history = [p \in Sessions |-> << >>]
  /\ in_use = [p \in Sessions |-> FALSE]
  /\ alive = {}
  /\ cache = [p \in Sessions |-> << >>]
  /\ stream = [r \in Requests |-> Idle]
  /\ holder = Nobody
  /\ askew = [p \in Sessions |-> FALSE]
  /\ leaked = {}

\* Mutant: the history is not cut where the prompt leaves it.
BeginUncut(r, p, input_ids, match_len, rows, max_gen, streamed) ==
  LET new_ids == SubSeq(input_ids, match_len + 1, Len(input_ids))
      fed     == IF new_ids = << >> THEN 1 ELSE Len(new_ids)
  IN  /\ in_use' = [in_use EXCEPT ![p] = TRUE]
      /\ recency' = Touched(p)
      /\ history' = [history EXCEPT ![p] = @ \o new_ids]
      /\ cache' = [cache EXCEPT ![p] = rows]
      /\ stream' = [stream EXCEPT ![r] =
           [phase |-> "created", session |-> p, input_ids |-> input_ids,
            new_ids |-> new_ids, left |-> max_gen - 1, max_gen |-> max_gen]]
      /\ holder' = IF streamed THEN Nobody ELSE r
      /\ askew' = [askew EXCEPT ![p] = (match_len > 0 /\ @)
                                       \/ Len(rows) # Len(input_ids) - fed]

\* What every handler does with the session p it got and the rows it kept:
\* mark it, add the unmatched tokens to its history, make the generator.
Begin(r, p, input_ids, match_len, rows, max_gen, streamed) ==
  LET new_ids == SubSeq(input_ids, match_len + 1, Len(input_ids))
      \* the first forward feeds new_ids, or the last token when there are none
      fed     == IF new_ids = << >> THEN 1 ELSE Len(new_ids)
  IN  /\ in_use' = [in_use EXCEPT ![p] = TRUE]
      /\ recency' = Touched(p)
      /\ history' = [history EXCEPT ![p] = SubSeq(@, 1, match_len) \o new_ids]
      /\ cache' = [cache EXCEPT ![p] = rows]
      /\ stream' = [stream EXCEPT ![r] =
           [phase |-> "created", session |-> p, input_ids |-> input_ids,
            new_ids |-> new_ids, left |-> max_gen - 1, max_gen |-> max_gen]]
      /\ holder' = IF streamed THEN Nobody ELSE r
      /\ askew' = [askew EXCEPT ![p] = (match_len > 0 /\ @)
                                       \/ Len(rows) # Len(input_ids) - fed]

\* A session goes on from where its history and the prompt part.
Resume(r, p, input_ids, max_gen, streamed) ==
  LET m == MatchLen(history[p], input_ids)
  IN  /\ Begin(r, p, input_ids, m,
               IF m < Len(history[p]) THEN Rewound(cache[p], m) ELSE cache[p],
               max_gen, streamed)
      /\ UNCHANGED <<store, alive, leaked>>

\* get_session_for_request, by id, when the session is there and not busy.
ResumeNamed(r, sid, input_ids, max_gen, streamed) ==
  /\ sid \in SidsInStore
  /\ ~in_use[SessionOf(sid)]
  /\ Resume(r, SessionOf(sid), input_ids, max_gen, streamed)

\* Without an id: the free session with the longest common prefix.
ResumeBest(r, sid, input_ids, max_gen, streamed) ==
  /\ sid = NoSid
  /\ \E i \in DOMAIN store : /\ IsBest(i, input_ids)
                             /\ Resume(r, store[i].session, input_ids, max_gen,
                                       streamed)

\* Mutant: a named session is not looked up before a new one is made.
NeedsNewUnasked(sid, input_ids) == sid = NoSid => ~SomeMatch(input_ids)

NeedsNew(sid, input_ids) ==
  sid \notin SidsInStore /\ (sid = NoSid => ~SomeMatch(input_ids))

\* The least recently used free session is emptied and goes under a new id.
Evict(r, sid, input_ids, max_gen, streamed) ==
  /\ NeedsNew(sid, input_ids)
  /\ Len(store) >= MaxSessions
  /\ \E i \in DOMAIN store :
       LET p == store[i].session IN
       /\ IsOldest(i)
       /\ store' = Append(RemoveAt(store, i),
                          [sid |-> NewSid(sid, p), session |-> p])
       /\ Begin(r, p, input_ids, 0, Rewound(cache[p], 0), max_gen, streamed)
       /\ UNCHANGED <<alive, leaked>>

Create(r, sid, input_ids, max_gen, streamed) ==
  /\ NeedsNew(sid, input_ids)
  /\ Len(store) < MaxSessions
  /\ \E p \in Sessions \ alive :
       /\ \A q \in Sessions \ alive : p <= q
       /\ store' = Append(store, [sid |-> NewSid(sid, p), session |-> p])
       /\ alive' = alive \cup {p}
       /\ Begin(r, p, input_ids, 0, << >>, max_gen, streamed)
       /\ UNCHANGED leaked

\* 409 for a named session in use, 503 when every session is (the handler's own
\* except clause turns both into a 500).
Refuse(sid, input_ids) ==
  /\ \/ sid \in SidsInStore /\ in_use[SessionOf(sid)]
     \/ NeedsNew(sid, input_ids) /\ Len(store) >= MaxSessions /\ Free = {}
  /\ UNCHANGED vars

\* chat_completions, up to the generator of its response.
ChatCompletions(r, sid, messages, max_tokens, streamed) ==
  LET max_gen   == IF max_tokens > MaxSteps THEN MaxSteps ELSE max_tokens
      input_ids == InputIds(messages, max_gen)
  IN
  /\ ~Live(r) /\ holder = Nobody
  /\ \A q \in 1 .. r - 1 : Live(q)   \* handlers are numbered as they come
  /\ \/ ResumeNamed(r, sid, input_ids, max_gen, streamed)
     \/ ResumeBest(r, sid, input_ids, max_gen, streamed)
     \/ Evict(r, sid, input_ids, max_gen, streamed)
     \/ Create(r, sid, input_ids, max_gen, streamed)
     \/ Refuse(sid, input_ids)

-----------------------------------------------------------------------------
Runs(r) == holder \in {Nobody, r}

\* The chunk that gives the role, before any forward.
Started(r) ==
  /\ Runs(r) /\ stream[r].phase = "created"
  /\ stream' = [stream EXCEPT ![r].phase = "role"]
  /\ UNCHANGED <<store, recency, history, in_use, alive, cache, holder, askew,
                 leaked>>

\* Mutant: the last row is never used.
HasRoomToSpare(p, n) == Len(cache[p]) + n < MaxSeq

HasRoom(p, n) == Len(cache[p]) + n <= MaxSeq

\* Model.forward in the C session: the rows of the tokens fed are added at pos,
\* and a token is sampled and appended to the history.  max_gen is "left" less
\* once the first of the two forwards of the generator is done.
Forward(r, ids, left) ==
  LET p == stream[r].session IN
  /\ HasRoom(p, Len(ids))
  /\ cache' = [cache EXCEPT ![p] = @ \o ids]
  /\ \E next_token \in Token :
       /\ history' = [history EXCEPT ![p] = Append(@, next_token)]
       /\ stream' = [stream EXCEPT ![r] = IF next_token = EndToken THEN Closing(p)
            ELSE [@ EXCEPT !.phase = "generating", !.new_ids = << >>, !.left = left]]
       /\ holder' = IF next_token = EndToken THEN Nobody ELSE holder
  /\ UNCHANGED <<store, recency, in_use, alive, askew, leaked>>

\* The C session has no room and returns -1, which goes into the history; its
\* decoding raises, and the generator ends there.
ForwardRefused(r, ids) ==
  LET p == stream[r].session IN
  /\ ~HasRoom(p, Len(ids))
  /\ history' = [history EXCEPT ![p] = Append(@, Failed)]
  /\ in_use' = [in_use EXCEPT ![p] = FALSE]
  /\ stream' = [stream EXCEPT ![r] = Idle]
  /\ holder' = Nobody
  /\ UNCHANGED <<store, recency, alive, cache, askew, leaked>>

LastToken(r) == <<Last(history[stream[r].session])>>

\* The first forward takes the new tokens of the prompt.
Prefill(r) ==
  /\ Runs(r) /\ stream[r].phase = "role" /\ stream[r].new_ids # << >>
  /\ \/ Forward(r, stream[r].new_ids, stream[r].left)
     \/ ForwardRefused(r, stream[r].new_ids)

InLoop(r) ==
  /\ Runs(r)
  /\ \/ stream[r].phase = "generating"
     \/ stream[r].phase = "role" /\ stream[r].new_ids = << >>

\* Every other one takes the last token of the history.
Decode(r) ==
  /\ InLoop(r) /\ stream[r].left > 0
  /\ \/ Forward(r, LastToken(r), stream[r].left - 1)
     \/ ForwardRefused(r, LastToken(r))

\* max_gen tokens are out: "length", then [DONE].
OutOfSteps(r) ==
  /\ InLoop(r) /\ stream[r].left = 0
  /\ stream' = [stream EXCEPT ![r] = Closing(@.session)]
  /\ holder' = Nobody
  /\ UNCHANGED <<store, recency, history, in_use, alive, cache, askew, leaked>>

\* The client of a streamed response goes away.  A generator that has begun is
\* closed later; one that has not never runs its "finally".
Disconnect(r) ==
  /\ holder = Nobody
  /\ \/ /\ stream[r].phase = "created"
        /\ stream' = [stream EXCEPT ![r] = Idle]
        /\ leaked' = leaked \cup {stream[r].session}
     \/ /\ stream[r].phase \in {"role", "generating"}
        /\ stream' = [stream EXCEPT ![r] = Closing(@.session)]
        /\ UNCHANGED leaked
  /\ UNCHANGED <<store, recency, history, in_use, alive, cache, holder, askew>>

\* Mutant: the session is not given back.
FinallyKeeping(r) ==
  /\ Runs(r) /\ stream[r].phase = "closing"
  /\ stream' = [stream EXCEPT ![r] = Idle]
  /\ UNCHANGED <<store, recency, history, in_use, alive, cache, holder, askew,
                 leaked>>

\* The "finally" of the generator.
Finally(r) ==
  /\ Runs(r) /\ stream[r].phase = "closing"
  /\ in_use' = [in_use EXCEPT ![stream[r].session] = FALSE]
  /\ stream' = [stream EXCEPT ![r] = Idle]
  /\ UNCHANGED <<store, recency, history, alive, cache, holder, askew, leaked>>

\* cleanup_sessions at shutdown, when no request is left, and a new start.
Restart ==
  /\ \A r \in Requests : ~Live(r)
  /\ alive' = alive \ {store[i].session : i \in DOMAIN store}
  /\ store' = << >> /\ recency' = << >>
  /\ history' = [p \in Sessions |-> << >>]
  /\ in_use' = [p \in Sessions |-> FALSE]
  /\ cache' = [p \in Sessions |-> << >>]
  /\ askew' = [p \in Sessions |-> FALSE]
  /\ leaked' = {}
  /\ UNCHANGED <<stream, holder>>

Generate(r) ==
  Started(r) \/ Prefill(r) \/ Decode(r) \/ OutOfSteps(r) \/ Disconnect(r)

Next ==
  \/ \E r \in Requests, sid \in Sids \cup {NoSid}, messages \in Conversations,
       max_tokens \in MaxTokens, streamed \in BOOLEAN :
       ChatCompletions(r, sid, messages, max_tokens, streamed)
  \/ \E r \in Requests : Generate(r) \/ Finally(r)
  \/ Restart

\* The event loop runs what is ready in turn; a client reads or goes away.
Fairness == \A r \in Requests : SF_vars(Generate(r) \/ Finally(r))

Spec == Init /\ [][Next]_vars /\ Fairness

-----------------------------------------------------------------------------
Holders(p) == {r \in Requests : Live(r) /\ stream[r].session = p}

\* Types.
SessionTypeOK ==
  /\ store \in Seq([sid : Sids \cup Sessions, session : Sessions])
  /\ recency \in Seq(Sessions)
  /\ history \in [Sessions -> Seq(Token \cup {Failed})]
  /\ in_use \in [Sessions -> BOOLEAN]
  /\ alive \subseteq Sessions
  /\ cache \in [Sessions -> Seq(Token)]
  /\ stream \in [Requests -> Response]
  /\ holder \in Requests \cup {Nobody}
  /\ askew \in [Sessions -> BOOLEAN]
  /\ leaked \subseteq Sessions

\* A C session is never fed for two responses at once, and is marked in_use as
\* long as a response has it: no late "finally" frees it for a third.
ExclusiveUse ==
  \A p \in Sessions :
    /\ Cardinality(Holders(p)) <= 1
    /\ in_use[p] <=> Holders(p) # {} \/ p \in leaked

\* Whatever is evicted, renamed or created, every C session stands in the store
\* exactly once, under one id, and has one place in the order of last use.
StoreWhole ==
  /\ {store[i].session : i \in DOMAIN store} = alive
  /\ Range(recency) = alive
  /\ Len(store) = Cardinality(alive) /\ Len(recency) = Cardinality(alive)
  /\ Cardinality(SidsInStore) = Len(store)

\* A response goes on from its own prompt, whoever used the session before and
\* wherever it was rewound to, and adds max_gen tokens at most.
HistoryIsPrompt ==
  \A r \in Requests : Live(r) /\ stream[r].phase # "closing" =>
    LET h == history[stream[r].session] IN
    /\ IsPrefix(stream[r].input_ids, h)
    /\ Len(h) + stream[r].left <= Len(stream[r].input_ids) + stream[r].max_gen

\* The C session never holds more rows than the server knows tokens, so that
\* the length a rewind asks for never lies in rows of a forgotten request.
CacheNeverAhead == \A p \in Sessions : Len(cache[p]) <= Len(history[p])

\* As long as no response began at another position than its tokens', the rows
\* are those of the history: no turn, rewind, eviction or failure mixes them.
CacheFollowsHistory ==
  \A p \in Sessions : ~askew[p] => IsPrefix(cache[p], history[p])

\* What the server promises by matching prefixes: the rows a response attends
\* to are those of its own prompt and output.
CacheIsHistory ==
  \A r \in Requests : stream[r].phase = "generating" =>
    IsPrefix(cache[stream[r].session], history[stream[r].session])

\* A request whose prompt leaves room for max_gen tokens is never refused by
\* the C session, whatever the session did before.
FittingNeverRefused ==
  [][\A r \in Requests :
       Live(r) /\ history'[stream[r].session]
                    = Append(history[stream[r].session], Failed)
         => Len(stream[r].input_ids) + stream[r].max_gen > MaxSeq + 1]_vars

\* Every session in use is given back in the end, unless its response was
\* dropped before its generator began.
SessionGivenBack ==
  \A p \in Sessions : in_use[p] ~> (~in_use[p] \/ p \in leaked)
=============================================================================
