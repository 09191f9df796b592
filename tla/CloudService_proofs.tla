------------------------- MODULE CloudService_proofs -------------------------
(***************************************************************************)
(* Whatever fails, a call of CloudService loses nothing and frees nothing  *)
(* twice: for any answers, statuses, buffer and set of failing steps.      *)
(***************************************************************************)
EXTENDS CloudService, FiniteSetTheorems, SequenceTheorems, TLAPS

Net == {"resolve", "socket", "connect", "request", "send", "buffer", "recv", "parse"}
Active == Net \cup {"prepare", "answered", "handled"}

InputSet(c) == ToSet(Inputs[c])

\* The text a full duplex call keeps aside.
Kept == IF kept # Null THEN {"text"} ELSE {}

\* What the HTTP client holds before step p.
Connection(p) ==
  IF p \in {"connect", "request", "buffer"} THEN {"socket"}
  ELSE IF p = "send" THEN {"socket"} \cup Sent
  ELSE IF p \in {"recv", "parse"} THEN {"socket", "buffer"} ELSE {}

Holds(S) == held = [b \in Blocks |-> One(b \in S)]

(* The inductive invariant. *)

Calling ==
  /\ pc \in Active \cup {"idle", "custom", "done"}
  /\ pc = "idle" => op = "none"
  /\ pc = "custom" => op = "custom" /\ call = "custom"
  /\ pc \in Active =>
       \/ op = "duplex" /\ call \in {"stt", "tts"}
       \/ op = call /\ call \in Calls
       \/ pc = "handled" /\ op = "custom" /\ call = "custom"
  /\ pc = "request" => call # "get"

Keeping == kept # Null <=> pc \in Active /\ op = "duplex" /\ call = "tts"

Responding ==
  /\ response = [text |-> response.text, audio |-> response.audio,
                 error |-> response.error, error_code |-> response.error_code]
  /\ pc \in Net \cup {"idle", "custom", "prepare", "answered"} => response = Cleared
  /\ pc = "handled" =>
       /\ call \in Plain => response = Cleared
       /\ call = "tts" => response.text = Null
       /\ response.text # Null => response.audio = Null /\ ~response.error

NoAnswerYet ==
  /\ pc \in Net => http_resp = NoHttp
  /\ pc = "prepare" /\ call \in Plain => http_resp = NoHttp

Prepares ==
  \E S \in SUBSET InputSet(call) :
    /\ S # {} /\ S # InputSet(call) => S = {Inputs[call][1]}
    /\ Holds(S \cup Kept)

Holding ==
  /\ held \in [Blocks -> Int]
  /\ pc = "custom" => Holds({})
  /\ pc = "prepare" => Prepares
  /\ pc \in Net => Holds(InputSet(call) \cup Connection(pc) \cup Kept)
  /\ pc = "answered" => Holds(InputSet(call) \cup Body \cup Kept)
  /\ pc = "handled" =>
       Holds(Owned(response) \cup Kept \cup (IF call \in Plain THEN Body ELSE {}))
  /\ pc \in Active \cup {"custom"} => "overwritten" \notin faults

IInv ==
  /\ Calling /\ Keeping /\ Responding /\ NoAnswerYet /\ Holding
  /\ NothingLeaked

-----------------------------------------------------------------------------
(* What a call prepares. *)

PreparedBlocks == {"base64", "json", "header", "multipart"}

LEMMA InputsAre ==
  ASSUME NEW c \in Calls
  PROVE  /\ InputSet(c) \subseteq PreparedBlocks
         /\ InputSet(c) # {} => Inputs[c][1] \in InputSet(c)
         /\ InputSet(c) # {} /\ InputSet(c) # {Inputs[c][1]} =>
              /\ InputSet(c) = {Inputs[c][1], Inputs[c][2]}
              /\ Inputs[c][2] # Inputs[c][1]
<1>1. CASE c = "stt"
  <2>1. Inputs[c] = <<"base64", "json">>
    BY <1>1 DEF Inputs
  <2>. QED
    BY <2>1 DEF InputSet, ToSet, PreparedBlocks
<1>2. CASE c \in {"tts", "openai", "wenxin"}
  <2>1. Inputs[c] = <<"json">>
    BY <1>2 DEF Inputs
  <2>. QED
    BY <2>1 DEF InputSet, ToSet, PreparedBlocks
<1>3. CASE c = "wenxin_v2"
  <2>1. Inputs[c] = <<"json", "header">>
    BY <1>3 DEF Inputs
  <2>. QED
    BY <2>1 DEF InputSet, ToSet, PreparedBlocks
<1>4. CASE c = "file"
  <2>1. Inputs[c] = <<"multipart">>
    BY <1>4 DEF Inputs
  <2>. QED
    BY <2>1 DEF InputSet, ToSet, PreparedBlocks
<1>5. CASE c = "get"
  <2>1. Inputs[c] = <<>>
    BY <1>5 DEF Inputs
  <2>. QED
    BY <2>1 DEF InputSet, ToSet, PreparedBlocks
<1>. QED
  BY <1>1, <1>2, <1>3, <1>4, <1>5 DEF Calls

LEMMA HoldsOne ==
  ASSUME NEW S, Holds(S)
  PROVE  \A b \in Blocks : held[b] > 0 <=> b \in S
BY DEF Holds, One

\* A step moves what is held from one set of blocks to another.
LEMMA MovesTo ==
  ASSUME NEW S, NEW gained, NEW freed, NEW T,
         Holds(S), Moves(gained, freed),
         gained \cap S = {}, freed \subseteq S,
         T = (S \cup gained) \ freed, gained \cap freed = {}
  PROVE  held' = [b \in Blocks |-> One(b \in T)]
<1>1. \A b \in Blocks : held'[b] = One(b \in S) + One(b \in gained) - One(b \in freed)
  BY DEF Moves, Holds
<1>2. \A b \in Blocks :
        One(b \in S) + One(b \in gained) - One(b \in freed) = One(b \in T)
  BY DEF One
<1>. QED
  BY <1>2 DEF Moves, Holds

LEMMA GainsOnly ==
  ASSUME NEW S, NEW gained, Holds(S), Moves(gained, {}), gained \cap S = {}
  PROVE  held' = [b \in Blocks |-> One(b \in S \cup gained)]
<1>1. \A b \in Blocks :
        One(b \in S) + One(b \in gained) - One(b \in {}) = One(b \in S \cup gained)
  BY DEF One
<1>. QED
  BY <1>1 DEF Moves, Holds

LEMMA FreesOnly ==
  ASSUME NEW S, NEW freed, Holds(S), Moves({}, freed), freed \subseteq S
  PROVE  held' = [b \in Blocks |-> One(b \in S \ freed)]
<1>1. \A b \in Blocks :
        One(b \in S) + One(b \in {}) - One(b \in freed) = One(b \in S \ freed)
  BY DEF One
<1>. QED
  BY <1>1 DEF Moves, Holds

LEMMA PreparedIs ==
  ASSUME NEW S \in SUBSET InputSet(call), NEW K \in SUBSET (Blocks \ PreparedBlocks),
         call \in Calls, Holds(S \cup K)
  PROVE  Prepared = S
<1>1. InputSet(call) \subseteq PreparedBlocks /\ PreparedBlocks \subseteq Blocks
  BY InputsAre DEF PreparedBlocks, Blocks
<1>2. \A b \in InputSet(call) : held[b] > 0 <=> b \in S \cup K
  BY <1>1, HoldsOne
<1>. QED
  BY <1>1, <1>2 DEF Prepared, InputSet

-----------------------------------------------------------------------------
(* The steps of the HTTP client. *)

LEMMA CallsAre ==
  ASSUME IInv, pc \in Net \cup {"prepare", "answered"}
  PROVE  call \in Calls /\ "overwritten" \notin faults
BY DEF IInv, Calling, Holding, Active, Calls, Net

\* A step of the client that leaves the caller's data alone.
LEMMA ClientStep ==
  ASSUME IInv, pc \in Net, pc' \in Net \cup {"answered"},
         UNCHANGED <<op, call, response, kept>>,
         pc' \in Net => http_resp' = http_resp,
         pc' = "request" => call # "get"
  PROVE  Calling' /\ Keeping' /\ Responding' /\ NoAnswerYet' /\ NothingLeaked'
<1>1. Calling' /\ Keeping'
  BY DEF IInv, Calling, Keeping, Active, Net
<1>2. Responding'
  BY DEF IInv, Responding, Net, Cleared
<1>3. NoAnswerYet'
  BY DEF IInv, NoAnswerYet, Net
<1>4. NothingLeaked'
  BY DEF NothingLeaked, Net
<1>. QED
  BY <1>1, <1>2, <1>3, <1>4

LEMMA HoldsInts ==
  ASSUME NEW S, Holds(S)
  PROVE  held \in [Blocks -> Int]
BY DEF Holds, One

LEMMA GoesOn ==
  ASSUME IInv, NEW at \in Net, NEW next \in Net, NEW gained, NEW freed,
         Goes(at, next, gained, freed),
         next = "request" => call # "get",
         gained \subseteq {"socket", "request", "buffer"},
         gained \cap Connection(at) = {}, freed \subseteq Connection(at),
         gained \cap freed = {},
         Connection(next) = (Connection(at) \cup gained) \ freed
  PROVE  IInv'
<1>. DEFINE S == InputSet(call) \cup Connection(at) \cup Kept
            T == InputSet(call) \cup Connection(next) \cup Kept
<1>1. /\ pc = at /\ pc' = next /\ Moves(gained, freed)
      /\ UNCHANGED <<op, call, response, kept, faults, http_resp>>
  BY DEF Goes
<1>2. Calling' /\ Keeping' /\ Responding' /\ NoAnswerYet' /\ NothingLeaked'
  BY <1>1, ClientStep
<1>3. call \in Calls /\ "overwritten" \notin faults /\ Holds(S)
  BY <1>1, CallsAre DEF IInv, Holding
<1>4. InputSet(call) \subseteq PreparedBlocks /\ Kept \subseteq {"text"}
  BY <1>3, InputsAre DEF Kept
<1>5. Connection(at) \subseteq {"socket", "request", "buffer"}
  BY DEF Connection, Sent
<1>6. gained \cap S = {} /\ freed \subseteq S /\ T = (S \cup gained) \ freed
  BY <1>4, <1>5 DEF PreparedBlocks
<1>7. held' = [b \in Blocks |-> One(b \in T)]
  <2>. HIDE DEF S, T
  <2>. QED
    BY <1>1, <1>3, <1>6, MovesTo
<1>8. Holding'
  BY <1>1, <1>3, <1>7 DEF Holding, Holds, One, Net, Active, Kept, Connection, Sent
<1>. QED
  BY <1>2, <1>8 DEF IInv

LEMMA FailsWell ==
  ASSUME IInv, NEW at \in Net, NEW freed, freed = Connection(at), Fails(at, freed)
  PROVE  IInv'
<1>. DEFINE S == InputSet(call) \cup Connection(at) \cup Kept
            T == InputSet(call) \cup Kept
<1>1. /\ pc = at /\ pc' = "answered" /\ Moves({}, freed)
      /\ UNCHANGED <<op, call, response, kept, faults, http_resp>>
  BY DEF Fails
<1>2. Calling' /\ Keeping' /\ Responding' /\ NoAnswerYet' /\ NothingLeaked'
  BY <1>1, ClientStep
<1>3. /\ call \in Calls /\ "overwritten" \notin faults /\ Holds(S)
      /\ http_resp = NoHttp
  BY <1>1, CallsAre DEF IInv, Holding, NoAnswerYet
<1>4. InputSet(call) \subseteq PreparedBlocks /\ Kept \subseteq {"text"}
  BY <1>3, InputsAre DEF Kept
<1>5. Connection(at) \subseteq {"socket", "request", "buffer"}
  BY DEF Connection, Sent
<1>6. freed \subseteq S /\ T = (S \cup {}) \ freed
  BY <1>4, <1>5 DEF PreparedBlocks
<1>7. held' = [b \in Blocks |-> One(b \in T)]
  <2>. HIDE DEF S, T
  <2>. QED
    BY <1>1, <1>3, <1>6, MovesTo
<1>8. Body = {}
  BY <1>3 DEF Body, NoHttp
<1>9. Holding'
  BY <1>1, <1>3, <1>7, <1>8 DEF Holding, Holds, One, Net, Active, Kept, Body
<1>. QED
  BY <1>2, <1>9 DEF IInv

LEMMA ClientSteps ==
  ASSUME IInv, Resolve \/ Socket \/ Connect \/ Request \/ Send \/ Buffer \/ RecvEnds
  PROVE  IInv'
<1>1. CASE Resolve
  BY <1>1, GoesOn, FailsWell DEF Resolve, Connection, Net
<1>2. CASE Socket
  BY <1>2, GoesOn, FailsWell DEF Socket, Connection, Net
<1>3. CASE Connect
  BY <1>3, GoesOn, FailsWell DEF Connect, Connection, Net, Sent
<1>4. CASE Request
  <2>1. CASE Goes("request", "send", {"request"}, {})
    <3>1. call # "get"
      BY <2>1 DEF IInv, Calling, Goes
    <3>2. Sent = {"request"}
      BY <3>1 DEF Sent
    <3>. QED
      BY <2>1, <3>2, GoesOn DEF Connection, Net
  <2>2. CASE Fails("request", {"socket"})
    BY <2>2, FailsWell DEF Connection, Net
  <2>. QED
    BY <1>4, <2>1, <2>2 DEF Request
<1>5. CASE Send
  BY <1>5, GoesOn, FailsWell DEF Send, Connection, Net, Sent
<1>6. CASE Buffer
  BY <1>6, GoesOn, FailsWell DEF Buffer, Connection, Net
<1>7. CASE RecvEnds
  BY <1>7, GoesOn DEF RecvEnds, Connection, Net
<1>. QED
  BY <1>1, <1>2, <1>3, <1>4, <1>5, <1>6, <1>7

-----------------------------------------------------------------------------
(* The answer. *)

\* What arrives is part of the answer.
Wire == answer \in Seq(Parts) /\ got \in 0 .. Len(answer)

\* A body that was copied is not a null pointer.
LEMMA BodyIsNotNull ==
  ASSUME Wire, got > 0
  PROVE  SubSeq(answer, 2, got) # Null
<1>1. got \in 1 .. Len(answer) /\ answer \in Seq(Parts) /\ Len(answer) \in Nat
  BY DEF Wire
<1>2. CASE got # 2
  <2>1. Len(SubSeq(answer, 2, got)) = got - 1
    BY <1>1, SubSeqProperties
  <2>. QED
    BY <1>1, <1>2, <2>1 DEF Null
<1>3. CASE got = 2
  <2>1. SubSeq(answer, 2, got)[1] = answer[2]
    BY <1>1, <1>3, SubSeqProperties
  <2>2. answer[2] \in Parts
    BY <1>1, <1>3
  <2>3. Null[1] = "null" /\ "null" \notin Parts
    BY DEF Null, Parts
  <2>. QED
    BY <2>1, <2>2, <2>3
<1>. QED
  BY <1>2, <1>3

LEMMA Receives ==
  ASSUME IInv, Recv
  PROVE  IInv'
<1>1. /\ pc = "recv" /\ pc' \in {"recv", "parse"}
      /\ UNCHANGED <<op, call, response, kept, faults, http_resp, held>>
  BY DEF Recv
<1>2. Calling' /\ Keeping' /\ Responding' /\ NoAnswerYet' /\ NothingLeaked'
  BY <1>1, ClientStep DEF Net
<1>3. Connection(pc) = Connection(pc')
  BY <1>1 DEF Connection
<1>4. Holding'
  BY <1>1, <1>3 DEF IInv, Holding, Holds, One, Net, Active, Kept, Connection, Sent
<1>. QED
  BY <1>2, <1>4 DEF IInv

LEMMA Parses ==
  ASSUME IInv, Wire, ParseNothing \/ Parse
  PROVE  IInv'
<1>. DEFINE S == InputSet(call) \cup {"socket", "buffer"} \cup Kept
            B == IF http_resp'.body = Null THEN {} ELSE {"body"}
            T == InputSet(call) \cup B \cup Kept
<1>1. /\ pc = "parse" /\ pc' = "answered"
      /\ UNCHANGED <<op, call, response, kept>>
  BY DEF ParseNothing, Parse
<1>2. Calling' /\ Keeping' /\ Responding' /\ NoAnswerYet' /\ NothingLeaked'
  BY <1>1, ClientStep DEF Net
<1>3. /\ call \in Calls /\ "overwritten" \notin faults /\ Holds(S)
      /\ http_resp = NoHttp
  BY <1>1, CallsAre DEF IInv, Holding, NoAnswerYet, Net, Connection
<1>4. InputSet(call) \subseteq PreparedBlocks /\ Kept \subseteq {"text"}
  BY <1>3, InputsAre DEF Kept
<1>5. Moves(B, {"buffer", "socket"})
  <2>1. CASE ParseNothing
    BY <1>3, <2>1 DEF ParseNothing, NoHttp
  <2>2. CASE Parse
    <3>1. SubSeq(answer, 2, got) # Null
      BY <2>2, BodyIsNotNull DEF Parse, HasHeader
    <3>. QED
      BY <2>2, <3>1 DEF Parse
  <2>. QED
    BY <2>1, <2>2
<1>6. /\ B \cap S = {} /\ {"buffer", "socket"} \subseteq S /\ B \cap {"buffer", "socket"} = {}
      /\ T = (S \cup B) \ {"buffer", "socket"}
  BY <1>4 DEF PreparedBlocks
<1>7. held' = [b \in Blocks |-> One(b \in T)]
  <2>. HIDE DEF S, T, B
  <2>. QED
    BY <1>3, <1>5, <1>6, MovesTo
<1>8. "overwritten" \notin faults'
  BY <1>3 DEF ParseNothing, Parse
<1>9. Holding'
  BY <1>1, <1>3, <1>7, <1>8 DEF Holding, Holds, One, Net, Active, Kept, Body
<1>. QED
  BY <1>2, <1>9 DEF IInv

-----------------------------------------------------------------------------
(* What the services make of the answer. *)

\* A handler frees what the call prepared and the body, and keeps what the
\* response points to.
LEMMA HandlesWell ==
  ASSUME IInv, Answered(Calls \ Plain), NEW gained, Handled(gained),
         NEW text, NEW audio, NEW error, NEW code,
         response' = [text |-> text, audio |-> audio, error |-> error, error_code |-> code],
         gained = Owned(response'),
         call = "tts" => text = Null,
         text # Null => audio = Null /\ error = FALSE,
         "overwritten" \notin faults'
  PROVE  IInv'
<1>. DEFINE S == InputSet(call) \cup Body \cup Kept
            T == gained \cup Kept
<1>1. /\ pc = "answered" /\ pc' = "handled" /\ call \in Calls \ Plain
      /\ Moves(gained, Prepared \cup Body)
      /\ UNCHANGED <<op, call, kept, http_resp>>
  BY DEF Answered, Handled
<1>2. Calling' /\ Keeping' /\ NoAnswerYet' /\ NothingLeaked'
  BY <1>1 DEF IInv, Calling, Keeping, NoAnswerYet, NothingLeaked, Active, Net
<1>3. Responding'
  <2>1. /\ response'.text = text /\ response'.audio = audio
        /\ response'.error = error /\ response'.error_code = code
    OBVIOUS
  <2>. QED
    BY <1>1, <2>1 DEF Responding, Net
<1>4. /\ Holds(S) /\ "overwritten" \notin faults
      /\ (kept # Null <=> op = "duplex" /\ call = "tts")
      /\ Body \subseteq {"body"}
  BY <1>1 DEF IInv, Holding, Keeping, Active, Body
<1>5. InputSet(call) \subseteq PreparedBlocks /\ Kept \subseteq {"text"}
  BY <1>1, InputsAre DEF Kept
<1>6. Prepared = InputSet(call)
  <2>1. Body \cup Kept \in SUBSET (Blocks \ PreparedBlocks)
    BY <1>4, <1>5 DEF Blocks, PreparedBlocks
  <2>2. Holds(InputSet(call) \cup (Body \cup Kept))
    <3>1. InputSet(call) \cup (Body \cup Kept) = S
      OBVIOUS
    <3>. QED
      BY <1>4, <3>1
  <2>. QED
    BY <1>1, <2>1, <2>2, PreparedIs
<1>7. gained \subseteq {"text", "audio", "error"} /\ gained \cap Kept = {}
  BY <1>4 DEF Owned, Kept
<1>8. /\ gained \cap S = {} /\ Prepared \cup Body \subseteq S
      /\ gained \cap (Prepared \cup Body) = {}
      /\ T = (S \cup gained) \ (Prepared \cup Body)
  BY <1>4, <1>5, <1>6, <1>7 DEF PreparedBlocks
<1>9. held' = [b \in Blocks |-> One(b \in T)]
  <2>. HIDE DEF S, T
  <2>. QED
    BY <1>1, <1>4, <1>8, MovesTo
<1>10. Holding'
  <2>1. Owned(response)' \cup Kept' \cup (IF call \in Plain THEN Body ELSE {})' = T
    BY <1>1 DEF Owned, Kept
  <2>2. held' \in [Blocks -> Int]
    BY <1>9 DEF One
  <2>. HIDE DEF T
  <2>. QED
    BY <1>1, <1>9, <2>1, <2>2 DEF Holding, Holds, Net, Active
<1>. QED
  BY <1>2, <1>3, <1>10 DEF IInv

LEMMA ClearedNow ==
  ASSUME IInv, Answered(Calls)
  PROVE  response = Cleared /\ "overwritten" \notin faults
BY DEF IInv, Answered, Responding, Holding, Active

LEMMA ReportsWell ==
  ASSUME IInv, Answered(Calls \ Plain), NEW code, Reports(code), "overwritten" \notin faults'
  PROVE  IInv'
<1>1. PICK error \in CopyOfText :
        /\ Handled(IF error THEN {"error"} ELSE {})
        /\ response' = [response EXCEPT !.error = error, !.error_code = code]
  BY DEF Reports
<1>2. response = Cleared
  BY ClearedNow DEF Answered
<1>3. response' = [text |-> Null, audio |-> Null, error |-> error, error_code |-> code]
  BY <1>1, <1>2 DEF Cleared
<1>4. Owned(response') = IF error THEN {"error"} ELSE {}
  BY <1>3 DEF Owned
<1>. QED
  BY <1>1, <1>3, <1>4, HandlesWell

LEMMA HandleTextWell ==
  ASSUME IInv, HandleText
  PROVE  IInv'
<1>1. Answered(Calls \ Plain) /\ call # "tts" /\ UNCHANGED faults
  BY DEF HandleText, Answered, Calls, Chats, Plain
<1>2. response = Cleared /\ "overwritten" \notin faults
  BY <1>1, ClearedNow DEF Answered
<1>3. CASE Text # Null /\ Handled({"text"}) /\ response' = [response EXCEPT !.text = Text]
  <2>1. response' = [text |-> Text, audio |-> Null, error |-> FALSE, error_code |-> 0]
    BY <1>2, <1>3 DEF Cleared
  <2>2. Owned(response') = {"text"}
    BY <1>3, <2>1 DEF Owned
  <2>. QED
    BY <1>1, <1>2, <1>3, <2>1, <2>2, HandlesWell
<1>4. CASE Reports(-1)
  BY <1>1, <1>2, <1>4, ReportsWell
<1>. QED
  BY <1>3, <1>4 DEF HandleText

LEMMA AudioWell ==
  ASSUME IInv, Answered({"tts"}), NEW audio, audio # Null, Handled({"audio"}),
         response' = [response EXCEPT !.audio = audio], "overwritten" \notin faults'
  PROVE  IInv'
<1>1. Answered(Calls \ Plain) /\ Answered(Calls)
  BY DEF Answered, Calls, Plain
<1>2. response' = [text |-> Null, audio |-> audio, error |-> FALSE, error_code |-> 0]
  <2>1. response = Cleared
    BY <1>1, ClearedNow
  <2>. QED
    BY <2>1 DEF Cleared
<1>3. Owned(response') = {"audio"}
  BY <1>2 DEF Owned
<1>. QED
  BY <1>1, <1>2, <1>3, HandlesWell

LEMMA InaudibleWell ==
  ASSUME IInv, Answered({"tts"}), Handled({}), UNCHANGED response,
         "overwritten" \notin faults'
  PROVE  IInv'
<1>1. Answered(Calls \ Plain) /\ Answered(Calls)
  BY DEF Answered, Calls, Plain
<1>2. response = Cleared /\ response' = response
  BY <1>1, ClearedNow
<1>3. /\ response' = [text |-> Null, audio |-> Null, error |-> FALSE, error_code |-> 0]
      /\ Owned(response') = {}
  BY <1>2 DEF Owned, Cleared
<1>. QED
  BY <1>1, <1>2, <1>3, HandlesWell

LEMMA HandleAudioWell ==
  ASSUME IInv, HandleAudio
  PROVE  IInv'
<1>. DEFINE audio == Quoted({"close"})
<1>1. Answered({"tts"}) /\ Answered(Calls) /\ Answered(Calls \ Plain)
  BY DEF HandleAudio, Answered, Calls, Plain
<1>2. "overwritten" \notin faults
  BY <1>1, ClearedNow
<1>3. CASE audio # Null /\ Audible(audio)
  BY <1>1, <1>2, <1>3, AudioWell DEF Audible
<1>4. CASE http_resp.body # Null /\ Audible(http_resp.body)
  BY <1>1, <1>2, <1>4, AudioWell DEF Audible
<1>5. CASE Inaudible
  BY <1>1, <1>2, <1>5, InaudibleWell DEF Inaudible
<1>6. CASE Reports(-1) /\ UNCHANGED faults
  BY <1>1, <1>2, <1>6, ReportsWell
<1>. QED
  BY <1>3, <1>4, <1>5, <1>6 DEF HandleAudio

LEMMA HandleNullWell ==
  ASSUME IInv, HandleNull
  PROVE  IInv'
<1>1. Answered(Calls \ Plain) /\ Answered(Calls)
  BY DEF HandleNull, Answered, Plain
<1>2. "overwritten" \notin faults'
  BY <1>1, ClearedNow DEF HandleNull
<1>3. CASE Reports(-1)
  BY <1>1, <1>2, <1>3, ReportsWell
<1>4. CASE call = "tts" /\ ~Reports(-1)
  <2>1. Answered({"tts"})
    BY <1>1, <1>4 DEF Answered
  <2>2. CASE Handled({"audio"}) /\ response' = [response EXCEPT !.audio = <<"garbage">>]
    <3>1. <<"garbage">> # Null
      BY DEF Null
    <3>. QED
      BY <1>2, <2>1, <2>2, <3>1, AudioWell
  <2>3. CASE Handled({}) /\ UNCHANGED response
    BY <1>2, <2>1, <2>3, InaudibleWell
  <2>. QED
    BY <1>4, <2>2, <2>3 DEF HandleNull
<1>. QED
  BY <1>3, <1>4 DEF HandleNull

LEMMA HandlePlainWell ==
  ASSUME IInv, HandlePlain
  PROVE  IInv'
<1>. DEFINE S == InputSet(call) \cup Body \cup Kept
<1>1. /\ pc = "answered" /\ pc' = "handled" /\ call \in Plain /\ call \in Calls
      /\ Moves({}, Prepared)
      /\ UNCHANGED <<op, call, kept, http_resp, response, faults>>
  BY DEF HandlePlain, Answered, Plain, Calls
<1>2. Calling' /\ Keeping' /\ NoAnswerYet' /\ NothingLeaked'
  BY <1>1 DEF IInv, Calling, Keeping, NoAnswerYet, NothingLeaked, Active, Net
<1>3. /\ Holds(S) /\ "overwritten" \notin faults /\ kept = Null
      /\ Body \subseteq {"body"} /\ response = Cleared
  BY <1>1 DEF IInv, Holding, Keeping, Responding, Active, Body, Plain
<1>4. Responding'
  BY <1>1, <1>3 DEF Responding, Net, Cleared
<1>5. InputSet(call) \subseteq PreparedBlocks /\ Kept = {}
  BY <1>1, <1>3, InputsAre DEF Kept
<1>6. Prepared = InputSet(call)
  <2>1. Body \in SUBSET (Blocks \ PreparedBlocks)
    BY <1>3 DEF Blocks, PreparedBlocks
  <2>2. Holds(InputSet(call) \cup Body)
    <3>1. InputSet(call) \cup Body = S
      BY <1>5
    <3>. QED
      BY <1>3, <3>1
  <2>. QED
    BY <1>1, <2>1, <2>2, PreparedIs
<1>7. Prepared \subseteq S /\ Body = S \ Prepared
  BY <1>3, <1>5, <1>6 DEF PreparedBlocks
<1>8. held' = [b \in Blocks |-> One(b \in Body)]
  <2>1. Holds(S) /\ Moves({}, Prepared) /\ Prepared \subseteq S
    BY <1>1, <1>3, <1>7
  <2>. HIDE DEF S
  <2>2. held' = [b \in Blocks |-> One(b \in S \ Prepared)]
    BY <2>1, FreesOnly
  <2>. QED
    BY <1>7, <2>2
<1>9. Holding'
  <2>1. Owned(response)' \cup Kept' \cup (IF call \in Plain THEN Body ELSE {})' = Body
    BY <1>1, <1>3, <1>5 DEF Owned, Kept, Cleared, Body
  <2>2. held' \in [Blocks -> Int]
    BY <1>8 DEF One
  <2>. QED
    BY <1>1, <1>3, <1>8, <2>1, <2>2 DEF Holding, Holds, Net, Active
<1>. QED
  BY <1>2, <1>4, <1>9 DEF IInv

LEMMA CustomWell ==
  ASSUME IInv, Custom
  PROVE  IInv'
<1>1. PICK error \in CopyOfText :
        /\ Moves(IF error THEN {"error"} ELSE {}, {})
        /\ response' = [response EXCEPT !.error = error, !.error_code = -1]
  BY DEF Custom
<1>. DEFINE T == IF error THEN {"error"} ELSE {}
<1>2. /\ pc = "custom" /\ pc' = "handled" /\ op = "custom" /\ call = "custom"
      /\ UNCHANGED <<op, call, kept, http_resp, faults>>
  BY DEF Custom, IInv, Calling
<1>3. /\ Holds({}) /\ "overwritten" \notin faults /\ kept = Null /\ response = Cleared
  BY <1>2 DEF IInv, Holding, Keeping, Responding, Active, Net
<1>4. response' = [text |-> Null, audio |-> Null, error |-> error, error_code |-> -1]
  BY <1>1, <1>3 DEF Cleared
<1>5. Calling' /\ Keeping' /\ NoAnswerYet' /\ NothingLeaked'
  BY <1>2, <1>3 DEF Calling, Keeping, NoAnswerYet, NothingLeaked, Active, Net
<1>6. Responding'
  BY <1>2, <1>4 DEF Responding, Net, Plain
<1>7. held' = [b \in Blocks |-> One(b \in T)]
  <2>1. Moves(T, {})
    BY <1>1
  <2>. HIDE DEF T
  <2>2. T \cap {} = {} /\ T = ({} \cup T) \ {}
    OBVIOUS
  <2>. QED
    BY <1>3, <2>1, <2>2, MovesTo
<1>8. Holding'
  <2>1. Owned(response)' \cup Kept' \cup (IF call \in Plain THEN Body ELSE {})' = T
    BY <1>2, <1>3, <1>4 DEF Owned, Kept, Plain
  <2>2. held' \in [Blocks -> Int]
    BY <1>7 DEF One
  <2>. HIDE DEF T
  <2>. QED
    BY <1>2, <1>3, <1>7, <2>1, <2>2 DEF Holding, Holds, Net, Active
<1>. QED
  BY <1>5, <1>6, <1>8 DEF IInv

-----------------------------------------------------------------------------
(* Returning, and the full duplex call. *)

LEMMA HeldWhenHandled ==
  ASSUME IInv, pc = "handled"
  PROVE  /\ \A b \in Blocks :
              held[b] = One(b \in Owned(response) \cup Kept
                                \cup (IF call \in Plain THEN Body ELSE {}))
         /\ "overwritten" \notin faults
         /\ op # "duplex" => kept = Null
BY DEF IInv, Holding, Holds, Keeping, Active

\* Nothing is running any more.
LEMMA Ended ==
  ASSUME pc' \in {"idle", "done"}, pc' = "idle" => op' = "none",
         kept' = Null, held' \in [Blocks -> Int],
         response' = [text |-> response'.text, audio |-> response'.audio,
                      error |-> response'.error, error_code |-> response'.error_code],
         pc' = "idle" => response' = Cleared,
         NothingLeaked'
  PROVE  IInv'
<1>1. Calling' /\ Keeping' /\ NoAnswerYet'
  BY DEF Calling, Keeping, NoAnswerYet, Active, Net
<1>2. Responding'
  BY DEF Responding, Net
<1>3. Holding'
  BY DEF Holding, Active, Net
<1>. QED
  BY <1>1, <1>2, <1>3 DEF IInv

LEMMA ReturnWell ==
  ASSUME IInv, Return
  PROVE  IInv'
<1>1. /\ pc = "handled" /\ pc' = "done" /\ op # "duplex"
      /\ held' = [b \in Blocks |-> held[b]]
      /\ UNCHANGED <<op, call, kept, http_resp, response, faults>>
  <2>1. \A b \in Blocks : held[b] + One(b \in {}) - One(b \in {}) = held[b]
    BY DEF IInv, Holding, One
  <2>. QED
    BY <2>1 DEF Return, Goes, Moves
<1>2. /\ \A b \in Blocks :
           held[b] = One(b \in Owned(response) \cup Kept
                             \cup (IF call \in Plain THEN Body ELSE {}))
      /\ "overwritten" \notin faults /\ kept = Null
  BY <1>1, HeldWhenHandled
<1>3. call \in Plain <=> op \in Plain
  BY <1>1 DEF IInv, Calling, Active, Plain
<1>4. Returned = Owned(response) \cup Kept \cup (IF call \in Plain THEN Body ELSE {})
  BY <1>2, <1>3 DEF Returned, Kept
<1>5. \A b \in Blocks : held'[b] = One(b \in Returned) + One(b = "error" /\ "overwritten" \in faults)
  BY <1>1, <1>2, <1>4 DEF One
<1>6. Returned' = Returned
  BY <1>1 DEF Returned, Owned, Body
<1>7. NothingLeaked'
  BY <1>1, <1>5, <1>6 DEF NothingLeaked, One
<1>8. held' \in [Blocks -> Int]
  BY <1>1 DEF IInv, Holding
<1>. QED
  BY <1>1, <1>2, <1>7, <1>8, Ended DEF IInv, Responding

LEMMA DuplexFailsWell ==
  ASSUME IInv, DuplexFails
  PROVE  IInv'
<1>1. PICK error \in CopyOfText :
        /\ Moves(IF error THEN {"error"} ELSE {}, Owned(response))
        /\ response' = [Cleared EXCEPT !.error = error, !.error_code = response.error_code]
  BY DEF DuplexFails
<1>. DEFINE T == IF error THEN {"error"} ELSE {}
<1>2. /\ pc = "handled" /\ pc' = "done" /\ op = "duplex" /\ call = "stt"
      /\ UNCHANGED <<op, kept, faults>>
  BY DEF DuplexFails
<1>3. /\ \A b \in Blocks : held[b] = One(b \in Owned(response))
      /\ "overwritten" \notin faults /\ kept = Null
  BY <1>2, HeldWhenHandled DEF IInv, Keeping, Kept, Plain
<1>4. response' = [text |-> Null, audio |-> Null, error |-> error,
                   error_code |-> response.error_code]
  BY <1>1 DEF Cleared
<1>5. Returned' = T
  BY <1>2, <1>4 DEF Returned, Owned, Plain
<1>6. held' = [b \in Blocks |-> One(b \in T)]
  BY <1>1, <1>3 DEF Moves, One
<1>7. NothingLeaked' /\ held' \in [Blocks -> Int]
  BY <1>2, <1>3, <1>5, <1>6 DEF NothingLeaked, One
<1>. QED
  BY <1>2, <1>3, <1>4, <1>7, Ended

LEMMA ReplyWell ==
  ASSUME IInv, Reply
  PROVE  IInv'
<1>1. /\ pc = "handled" /\ pc' = "prepare" /\ op = "duplex" /\ call = "stt" /\ call' = "tts"
      /\ response.text # Null /\ kept' = response.text /\ response' = Cleared
      /\ UNCHANGED <<op, held, faults>>
  BY DEF Reply, Heard
<1>2. response.audio = Null /\ ~response.error /\ kept = Null
  BY <1>1 DEF IInv, Responding, Keeping
<1>3. Calling' /\ Keeping' /\ NoAnswerYet' /\ NothingLeaked'
  BY <1>1 DEF Calling, Keeping, NoAnswerYet, NothingLeaked, Active, Net, Plain
<1>4. Responding'
  BY <1>1 DEF Responding, Cleared
<1>5. Holds({"text"}) /\ "overwritten" \notin faults
  <2>1. Owned(response) \cup Kept \cup (IF call \in Plain THEN Body ELSE {}) = {"text"}
    BY <1>1, <1>2 DEF Owned, Kept, Plain
  <2>. QED
    BY <1>1, <2>1 DEF IInv, Holding, Active
<1>6. Prepares'
  <2>1. {} \cup Kept' = {"text"}
    BY <1>1 DEF Kept
  <2>2. held' = [b \in Blocks |-> One(b \in {} \cup Kept')]
    BY <1>1, <1>5, <2>1 DEF Holds
  <2>. QED
    BY <2>2 DEF Prepares, Holds
<1>7. Holding'
  BY <1>1, <1>5, <1>6 DEF IInv, Holding, Active, Net
<1>. QED
  BY <1>3, <1>4, <1>7 DEF IInv

LEMMA DuplexEndsWell ==
  ASSUME IInv, DuplexEnds
  PROVE  IInv'
<1>1. /\ pc = "handled" /\ pc' = "done" /\ op = "duplex" /\ call = "tts"
      /\ kept' = Null /\ UNCHANGED <<op, http_resp>>
  BY DEF DuplexEnds
<1>2. /\ kept # Null /\ response.text = Null /\ "overwritten" \notin faults
      /\ response = [text |-> response.text, audio |-> response.audio,
                     error |-> response.error, error_code |-> response.error_code]
  BY <1>1 DEF IInv, Keeping, Responding, Holding, Active
<1>. DEFINE A == IF response.audio # Null THEN {"audio"} ELSE {}
            E == IF response.error THEN {"error"} ELSE {}
<1>3. \A b \in Blocks : held[b] = One(b \in {"text"} \cup A \cup E)
  <2>1. Owned(response) \cup Kept \cup (IF call \in Plain THEN Body ELSE {})
          = {"text"} \cup A \cup E
    BY <1>1, <1>2 DEF Owned, Kept, Plain
  <2>. QED
    BY <1>1, <2>1, HeldWhenHandled
<1>4. held \in [Blocks -> Int]
  BY DEF IInv, Holding
<1>5. CASE UNCHANGED <<held, faults>> /\ response' = [response EXCEPT !.text = kept]
  <2>1. response' = [text |-> kept, audio |-> response.audio,
                     error |-> response.error, error_code |-> response.error_code]
    BY <1>2, <1>5
  <2>2. Returned' = {"text"} \cup A \cup E
    BY <1>1, <1>2, <2>1 DEF Returned, Owned, Plain
  <2>3. NothingLeaked'
    BY <1>2, <1>3, <1>5, <2>2 DEF NothingLeaked, One
  <2>. QED
    BY <1>1, <1>4, <1>5, <2>1, <2>3, Ended
<1>6. ASSUME NEW error \in CopyOfText,
             Moves(IF error THEN {"error"} ELSE {}, {}),
             response' = [response EXCEPT !.text = kept, !.error = error, !.error_code = -1],
             faults' = IF response.error THEN faults \cup {"overwritten"} ELSE faults
      PROVE  IInv'
  <2>. DEFINE F == IF error THEN {"error"} ELSE {}
  <2>1. response' = [text |-> kept, audio |-> response.audio,
                     error |-> error, error_code |-> -1]
    BY <1>2, <1>6
  <2>2. Returned' = {"text"} \cup A \cup F
    BY <1>1, <1>2, <2>1 DEF Returned, Owned, Plain
  <2>3. "overwritten" \in faults' <=> response.error
    BY <1>2, <1>6
  <2>4. /\ held' \in [Blocks -> Int]
        /\ \A b \in Blocks : held'[b] = One(b \in {"text"} \cup A \cup E) + One(b \in F)
    BY <1>3, <1>6 DEF Moves, One
  <2>5. \A b \in Blocks :
          One(b \in {"text"} \cup A \cup E) + One(b \in F)
            = One(b \in {"text"} \cup A \cup F) + One(b = "error" /\ response.error)
    BY DEF One
  <2>6. NothingLeaked'
    <3>1. \A b \in Blocks :
            held'[b] = One(b \in Returned') + One(b = "error" /\ "overwritten" \in faults')
      BY <2>2, <2>3, <2>4, <2>5 DEF One
    <3>. QED
      BY <3>1 DEF NothingLeaked, One
  <2>. QED
    BY <1>1, <2>1, <2>4, <2>6, Ended
<1>. QED
  BY <1>5, <1>6 DEF DuplexEnds

LEMMA FreeWell ==
  ASSUME IInv, Free
  PROVE  IInv'
<1>1. /\ pc = "done" /\ pc' = "idle" /\ op' = "none" /\ response' = Cleared
      /\ Moves({}, Returned) /\ UNCHANGED <<kept, faults>>
  BY DEF Free, Returned
<1>2. kept = Null
  BY <1>1 DEF IInv, Keeping, Active, Net
<1>3. \A b \in Blocks :
        held[b] = One(b \in Returned) + One(b = "error" /\ "overwritten" \in faults)
  BY <1>1 DEF IInv, NothingLeaked
<1>4. held' = [b \in Blocks |-> One(b = "error" /\ "overwritten" \in faults)]
  BY <1>1, <1>3 DEF Moves, One
<1>5. Returned' = {}
  BY <1>1 DEF Returned, Owned, Cleared, Plain
<1>6. NothingLeaked' /\ held' \in [Blocks -> Int]
  BY <1>1, <1>4, <1>5 DEF NothingLeaked, One
<1>. QED
  BY <1>1, <1>2, <1>6, Ended DEF Cleared

-----------------------------------------------------------------------------
(* Beginning, and what a call prepares. *)

LEMMA BeginWell ==
  ASSUME IInv, NEW o \in Ops, Begin(o)
  PROVE  IInv'
<1>1. /\ pc = "idle" /\ op' = o /\ http_resp' = NoHttp /\ response' = Cleared
      /\ call' = (IF o = "duplex" THEN "stt" ELSE o)
      /\ pc' = (IF o = "custom" THEN "custom" ELSE "prepare")
      /\ held' = [b \in Blocks |-> 0] /\ faults' = {} /\ kept' = Null
  BY DEF Begin, Forget, IInv, Keeping, Active, Net
<1>2. Calling' /\ Keeping' /\ NoAnswerYet' /\ NothingLeaked'
  BY <1>1 DEF Calling, Keeping, NoAnswerYet, NothingLeaked, Active, Net, Ops, Calls
<1>3. Responding'
  BY <1>1 DEF Responding, Cleared
<1>4. held' = [b \in Blocks |-> One(b \in {})] /\ {} \cup Kept' = {}
  BY <1>1 DEF One, Kept
<1>5. Prepares'
  BY <1>4 DEF Prepares, Holds
<1>6. Holding'
  BY <1>1, <1>4, <1>5 DEF Holding, Holds, Active, Net
<1>. QED
  BY <1>2, <1>3, <1>6 DEF IInv

LEMMA RefuseWell ==
  ASSUME IInv, NEW o \in Ops, Refuse(o), Clears \subseteq {TRUE}
  PROVE  IInv'
<1>1. /\ pc = "idle" /\ pc' = "done" /\ op' = o /\ response' = Cleared
      /\ held' = [b \in Blocks |-> 0] /\ faults' = {} /\ kept' = Null
  BY DEF Refuse, Forget, IInv, Keeping, Active, Net
<1>2. o \notin Plain
  BY DEF Refuse, Ready, Plain, Chats
<1>3. Returned' = {}
  BY <1>1, <1>2 DEF Returned, Owned, Cleared
<1>4. NothingLeaked' /\ held' \in [Blocks -> Int]
  BY <1>1, <1>3 DEF NothingLeaked, One
<1>. QED
  BY <1>1, <1>4, Ended DEF Cleared

\* What is prepared so far: nothing, the first block or all.
LEMMA WhilePreparing ==
  ASSUME IInv, pc = "prepare"
  PROVE  /\ call \in Calls /\ "overwritten" \notin faults /\ response = Cleared
         /\ Prepared \subseteq InputSet(call) /\ Holds(Prepared \cup Kept)
         /\ Prepared # {} /\ Prepared # InputSet(call) => Prepared = {Inputs[call][1]}
         /\ Kept \subseteq {"text"} /\ InputSet(call) \subseteq PreparedBlocks
<1>1. call \in Calls /\ "overwritten" \notin faults /\ response = Cleared
  BY CallsAre DEF IInv, Responding
<1>2. Kept \subseteq {"text"} /\ InputSet(call) \subseteq PreparedBlocks
  BY <1>1, InputsAre DEF Kept
<1>3. PICK S \in SUBSET InputSet(call) :
        /\ S # {} /\ S # InputSet(call) => S = {Inputs[call][1]}
        /\ Holds(S \cup Kept)
  BY DEF IInv, Holding, Prepares
<1>4. Prepared = S
  <2>1. Kept \in SUBSET (Blocks \ PreparedBlocks)
    BY <1>2 DEF Blocks, PreparedBlocks
  <2>. QED
    BY <1>1, <1>3, <2>1, PreparedIs
<1>. QED
  BY <1>1, <1>2, <1>3, <1>4

LEMMA PrepareWell ==
  ASSUME IInv, Prepare
  PROVE  IInv'
<1>. DEFINE S == Prepared
            x == Inputs[call][Cardinality(S) + 1]
<1>1. /\ pc = "prepare" /\ S # InputSet(call) /\ Moves({x}, {})
      /\ UNCHANGED <<op, call, pc, http_resp, response, kept, faults>>
  BY DEF Prepare, InputSet
<1>2. /\ call \in Calls /\ "overwritten" \notin faults
      /\ S \subseteq InputSet(call) /\ Holds(S \cup Kept)
      /\ S # {} => S = {Inputs[call][1]}
      /\ Kept \subseteq {"text"} /\ InputSet(call) \subseteq PreparedBlocks
  BY <1>1, WhilePreparing
<1>3. /\ x \in InputSet(call) \ S
      /\ S \cup {x} = {Inputs[call][1]} \/ S \cup {x} = InputSet(call)
  <2>1. CASE S = {}
    <3>1. x = Inputs[call][1]
      BY <2>1, FS_EmptySet
    <3>. QED
      BY <1>1, <1>2, <2>1, <3>1, InputsAre
  <2>2. CASE S = {Inputs[call][1]}
    <3>1. x = Inputs[call][2]
      BY <2>2, FS_Singleton
    <3>2. InputSet(call) = {Inputs[call][1], x} /\ x # Inputs[call][1]
      BY <1>1, <1>2, <2>2, <3>1, InputsAre
    <3>. QED
      BY <2>2, <3>2
  <2>. QED
    BY <1>2, <2>1, <2>2
<1>4. Calling' /\ Keeping' /\ Responding' /\ NoAnswerYet' /\ NothingLeaked'
  BY <1>1 DEF IInv, Calling, Keeping, Responding, NoAnswerYet, NothingLeaked
<1>5. held' = [b \in Blocks |-> One(b \in (S \cup {x}) \cup Kept)]
  <2>1. {x} \cap (S \cup Kept) = {}
    BY <1>2, <1>3 DEF PreparedBlocks
  <2>2. (S \cup {x}) \cup Kept = (S \cup Kept) \cup {x}
    OBVIOUS
  <2>. HIDE DEF S, x
  <2>3. held' = [b \in Blocks |-> One(b \in (S \cup Kept) \cup {x})]
    BY <1>1, <1>2, <2>1, GainsOnly
  <2>. QED
    BY <2>2, <2>3
<1>6. Prepares'
  <2>1. S \cup {x} \in SUBSET InputSet(call)
    BY <1>2, <1>3
  <2>. HIDE DEF S, x
  <2>2. Kept' = Kept
    BY <1>1 DEF Kept
  <2>3. \E Q \in SUBSET InputSet(call) :
          /\ Q # {} /\ Q # InputSet(call) => Q = {Inputs[call][1]}
          /\ held' = [b \in Blocks |-> One(b \in Q \cup Kept)]
    BY <1>3, <1>5, <2>1
  <2>. QED
    BY <1>1, <2>2, <2>3 DEF Prepares, Holds
<1>7. Holding'
  BY <1>1, <1>2, <1>5, <1>6 DEF Holding, Active, Net, One
<1>. QED
  BY <1>4, <1>7 DEF IInv

LEMMA PrepareFailsWell ==
  ASSUME IInv, PrepareFails
  PROVE  IInv'
<1>. DEFINE S == Prepared
<1>1. /\ pc = "prepare" /\ pc' = "handled" /\ Moves({}, S)
      /\ UNCHANGED <<op, call, http_resp, response, kept, faults>>
  BY DEF PrepareFails
<1>2. /\ call \in Calls /\ "overwritten" \notin faults /\ response = Cleared
      /\ S \subseteq InputSet(call) /\ Holds(S \cup Kept)
      /\ Kept \subseteq {"text"} /\ InputSet(call) \subseteq PreparedBlocks
  BY <1>1, WhilePreparing
<1>3. Calling' /\ Keeping' /\ NoAnswerYet' /\ NothingLeaked'
  BY <1>1 DEF IInv, Calling, Keeping, NoAnswerYet, NothingLeaked, Active, Net
<1>4. Responding'
  BY <1>1, <1>2 DEF Responding, Net, Cleared
<1>5. held' = [b \in Blocks |-> One(b \in Kept)]
  <2>1. S \subseteq S \cup Kept /\ Kept = ((S \cup Kept) \cup {}) \ S
    BY <1>2 DEF PreparedBlocks
  <2>. HIDE DEF S
  <2>. QED
    BY <1>1, <1>2, <2>1, MovesTo
<1>6. Holding'
  <2>1. call \in Plain => Body = {}
    BY <1>1 DEF IInv, NoAnswerYet, NoHttp, Body
  <2>2. Owned(response)' \cup Kept' \cup (IF call \in Plain THEN Body ELSE {})' = Kept
    BY <1>1, <1>2, <2>1 DEF Owned, Kept, Cleared, Body
  <2>3. held' \in [Blocks -> Int]
    BY <1>5 DEF One
  <2>. QED
    BY <1>1, <1>2, <1>5, <2>2, <2>3 DEF Holding, Holds, Net, Active
<1>. QED
  BY <1>3, <1>4, <1>6 DEF IInv

LEMMA AskWell ==
  ASSUME IInv, Ask
  PROVE  IInv'
<1>1. /\ pc = "prepare" /\ pc' = "resolve" /\ Prepared = InputSet(call)
      /\ http_resp' = NoHttp
      /\ UNCHANGED <<op, call, response, kept, held, faults>>
  BY DEF Ask, InputSet
<1>2. /\ call \in Calls /\ "overwritten" \notin faults /\ response = Cleared
      /\ Holds(InputSet(call) \cup Kept)
  BY <1>1, WhilePreparing
<1>3. Calling' /\ Keeping' /\ NoAnswerYet' /\ NothingLeaked'
  BY <1>1 DEF IInv, Calling, Keeping, NoAnswerYet, NothingLeaked, Active, Net
<1>4. Responding'
  BY <1>1, <1>2 DEF Responding, Net, Cleared
<1>5. Holding'
  <2>1. InputSet(call)' \cup Connection(pc)' \cup Kept' = InputSet(call) \cup Kept
    BY <1>1 DEF Connection, Kept
  <2>2. held' \in [Blocks -> Int]
    BY <1>1 DEF IInv, Holding
  <2>. QED
    BY <1>1, <1>2, <2>1, <2>2 DEF Holding, Holds, Net, Active
<1>. QED
  BY <1>3, <1>4, <1>5 DEF IInv

-----------------------------------------------------------------------------

LEMMA InitWell ==
  ASSUME Init
  PROVE  IInv /\ Wire
<1>1. /\ pc = "idle" /\ op = "none" /\ kept = Null /\ response = Cleared
      /\ held = [b \in Blocks |-> 0] /\ faults = {}
  BY DEF Init
<1>2. Calling /\ Keeping /\ NoAnswerYet
  BY <1>1 DEF Calling, Keeping, NoAnswerYet, Active, Net
<1>3. Responding
  BY <1>1 DEF Responding, Cleared, Net
<1>4. Holding
  BY <1>1 DEF Holding, Active, Net
<1>5. Returned = {}
  BY <1>1 DEF Returned, Owned, Cleared, Plain
<1>6. NothingLeaked
  BY <1>1, <1>5 DEF NothingLeaked, One
<1>7. Wire
  BY DEF Init, Wire
<1>. QED
  BY <1>2, <1>3, <1>4, <1>6, <1>7 DEF IInv

LEMMA LocalUnchanged ==
  ASSUME IInv, UNCHANGED local
  PROVE  IInv'
<1>1. UNCHANGED <<op, call, pc, http_resp, response, kept, held, faults>>
  BY DEF local
<1>2. Calling' /\ Keeping' /\ Responding' /\ NoAnswerYet'
  BY <1>1 DEF IInv, Calling, Keeping, Responding, NoAnswerYet
<1>3. NothingLeaked'
  BY <1>1 DEF IInv, NothingLeaked, Returned, Owned, Body
<1>4. Holding'
  BY <1>1 DEF IInv, Holding, Prepares, Holds, Owned, Body, Kept, Connection, Sent
<1>. QED
  BY <1>2, <1>3, <1>4 DEF IInv

LEMMA StepWell ==
  ASSUME IInv, Wire, [Next]_vars, Clears \subseteq {TRUE}
  PROVE  IInv'
<1>1. CASE AssistantInit \/ TestToolInit \/ ChatInit \/ UNCHANGED vars
  BY <1>1, LocalUnchanged DEF AssistantInit, TestToolInit, ChatInit, CloudInit, vars
<1>2. ASSUME NEW o \in Ops, Begin(o) \/ Refuse(o)
      PROVE  IInv'
  BY <1>2, BeginWell, RefuseWell
<1>3. CASE Prepare \/ PrepareFails \/ Ask
  BY <1>3, PrepareWell, PrepareFailsWell, AskWell
<1>4. CASE Resolve \/ Socket \/ Connect \/ Request \/ Send \/ Buffer \/ RecvEnds
  BY <1>4, ClientSteps
<1>5. CASE Recv \/ ParseNothing \/ Parse
  BY <1>5, Receives, Parses
<1>6. CASE HandleFailure
  <2>1. Answered(Calls \ Plain) /\ Answered(Calls) /\ UNCHANGED faults
    BY <1>6 DEF HandleFailure, Answered
  <2>2. "overwritten" \notin faults'
    BY <2>1, ClearedNow
  <2>. QED
    BY <1>6, <2>1, <2>2, ReportsWell DEF HandleFailure
<1>7. CASE HandleText \/ HandleAudio \/ HandleNull \/ HandlePlain
  BY <1>7, HandleTextWell, HandleAudioWell, HandleNullWell, HandlePlainWell
<1>8. CASE Custom \/ Return \/ DuplexFails \/ Reply \/ DuplexEnds \/ Free
  BY <1>8, CustomWell, ReturnWell, DuplexFailsWell, ReplyWell, DuplexEndsWell, FreeWell
<1>. QED
  BY <1>1, <1>2, <1>3, <1>4, <1>5, <1>6, <1>7, <1>8 DEF Next

LEMMA WireStep ==
  ASSUME IInv, Wire, [Next]_vars
  PROVE  Wire'
<1>1. CASE UNCHANGED <<answer, got>>
  BY <1>1 DEF Wire
<1>2. CASE Ask
  <2>1. call \in Calls /\ answer' \in Answers[call] /\ got' = 0
    BY <1>2, CallsAre DEF Ask
  <2>. QED
    BY <2>1, AnswersAssumption DEF Wire
<1>3. CASE Recv
  <2>1. PICK n \in 1 .. (IF Len(answer) < RecvMax THEN Len(answer) ELSE RecvMax) - got :
          got' = got + n
    BY <1>3 DEF Recv
  <2>. QED
    BY <1>3, <2>1, AnswersAssumption DEF Wire, Recv
<1>4. CASE Free
  BY <1>4 DEF Free, Wire
<1>. QED
  BY <1>1, <1>2, <1>3, <1>4
  DEF Next, vars, local, wire, AssistantInit, TestToolInit, ChatInit, CloudInit, Begin, Refuse,
      Prepare, PrepareFails, Resolve, Socket, Connect, Request, Send, Buffer, RecvEnds, Goes,
      Fails, ParseNothing, Parse, HandleFailure, HandleText, HandleAudio, HandleNull, HandlePlain,
      Audible, Inaudible, Reports, Handled, Custom, Return, DuplexFails, Reply, DuplexEnds

\* If every caller clears its response, nothing is lost and nothing is freed
\* twice, but for the overwritten error text, whatever fails and whatever the
\* service answers.
\* (the error paths of web_client.c, ai_cloud_service.c and ai_chat_service.c)
THEOREM NothingIsLeaked ==
  ASSUME Clears \subseteq {TRUE}
  PROVE  Spec => []NothingLeaked
<1>1. Init => IInv /\ Wire
  BY InitWell
<1>2. IInv /\ Wire /\ [Next]_vars => (IInv /\ Wire)'
  BY StepWell, WireStep
<1>3. IInv /\ Wire => NothingLeaked
  BY DEF IInv
<1>. QED
  BY <1>1, <1>2, <1>3, PTL DEF Spec

-----------------------------------------------------------------------------
(* The types. *)

\* What is held has its type because of what the invariant says of it.
Typed ==
  /\ api_url \in {"none", "stt_url", "tts_url"} /\ chat_ready \in BOOLEAN /\ assistant \in BOOLEAN
  /\ op \in Ops \cup {"none"} /\ call \in Ops \cup {"none"}
  /\ posted \in {"none", "own", "stt_url", "tts_url"}
  /\ got <= RecvMax
  /\ http_resp.status \in Statuses \cup {0}
  /\ response.error \in BOOLEAN /\ response.error_code \in Statuses \cup {-1, 0}
  /\ ret \in {OK, ERROR}
  /\ faults \subseteq {"inaudible", "no_status", "null_read", "overwritten"}

\* A block is held once at most, and an error text twice only when it has been
\* stored over another.
HeldOnce ==
  /\ held \in [Blocks -> Nat]
  /\ \A b \in Blocks : held[b] <= 1 + One(b = "error" /\ "overwritten" \in faults)

LEMMA BlocksAreHeldOnce ==
  ASSUME IInv
  PROVE  HeldOnce
<1>1. held \in [Blocks -> Int]
  BY DEF IInv, Holding
<1>2. ASSUME NEW S, Holds(S) PROVE HeldOnce
  BY <1>2 DEF Holds, One, HeldOnce
<1>3. CASE pc \in {"idle", "done"}
  BY <1>1, <1>3 DEF IInv, NothingLeaked, One, HeldOnce
<1>4. CASE pc = "prepare"
  BY <1>2, <1>4 DEF IInv, Holding, Prepares
<1>5. CASE pc \in Net \cup {"custom", "answered", "handled"}
  BY <1>2, <1>5 DEF IInv, Holding
<1>. QED
  BY <1>3, <1>4, <1>5 DEF IInv, Calling, Active

LEMMA ReportTyped ==
  ASSUME IInv, Typed, NEW code \in Statuses \cup {-1, 0}, Reports(code)
  PROVE  response'.error \in BOOLEAN /\ response'.error_code \in Statuses \cup {-1, 0}
<1>1. PICK error \in BOOLEAN :
        response' = [response EXCEPT !.error = error, !.error_code = code]
  BY DEF Reports, CopyOfText
<1>2. response'.error = error /\ response'.error_code = code
  BY <1>1 DEF IInv, Responding
<1>. QED
  BY <1>2

LEMMA ResponseTyped ==
  ASSUME IInv, Typed, [Next]_vars
  PROVE  response'.error \in BOOLEAN /\ response'.error_code \in Statuses \cup {-1, 0}
<1>. DEFINE OfType(r) == r.error \in BOOLEAN /\ r.error_code \in Statuses \cup {-1, 0}
<1>0. OfType(response) /\ OfType(Cleared)
  BY DEF Typed, Cleared
<1>1. ASSUME NEW r, response' = [response EXCEPT !.text = r] PROVE OfType(response')
  BY <1>0, <1>1 DEF IInv, Responding
<1>2. ASSUME NEW r, response' = [response EXCEPT !.audio = r] PROVE OfType(response')
  BY <1>0, <1>2 DEF IInv, Responding
<1>3. ASSUME NEW code \in Statuses \cup {-1, 0}, Reports(code) PROVE OfType(response')
  BY <1>3, ReportTyped
<1>4. CASE UNCHANGED response
  BY <1>0, <1>4
<1>5. ASSUME NEW o \in Ops, Begin(o) \/ Refuse(o) PROVE OfType(response')
  <2>1. CASE response' = Cleared
    BY <1>0, <2>1
  <2>2. CASE response' = [Cleared EXCEPT !.text = Unset, !.audio = Unset]
    BY <2>2 DEF Cleared
  <2>. QED
    BY <1>5, <2>1, <2>2 DEF Begin, Refuse
<1>6. CASE HandleFailure \/ HandleText \/ HandleAudio \/ HandleNull
  BY <1>1, <1>2, <1>3, <1>4, <1>6
  DEF HandleFailure, HandleText, HandleAudio, HandleNull, Audible, Inaudible, Typed
<1>7. CASE Custom
  <2>1. PICK error \in BOOLEAN :
          response' = [response EXCEPT !.error = error, !.error_code = -1]
    BY <1>7 DEF Custom, CopyOfText
  <2>. QED
    BY <2>1 DEF IInv, Responding
<1>8. CASE DuplexFails
  <2>1. PICK error \in BOOLEAN :
          response' = [Cleared EXCEPT !.error = error, !.error_code = response.error_code]
    BY <1>8 DEF DuplexFails, CopyOfText
  <2>. QED
    BY <1>0, <2>1 DEF Cleared
<1>9. CASE DuplexEnds
  <2>1. CASE response' = [response EXCEPT !.text = kept]
    BY <1>1, <2>1
  <2>2. ASSUME NEW error \in BOOLEAN,
               response' = [response EXCEPT !.text = kept, !.error = error, !.error_code = -1]
        PROVE  OfType(response')
    BY <2>2 DEF IInv, Responding
  <2>. QED
    BY <1>9, <2>1, <2>2 DEF DuplexEnds, CopyOfText
<1>10. CASE Reply \/ Free
  BY <1>0, <1>10 DEF Reply, Free
<1>. QED
  BY <1>4, <1>5, <1>6, <1>7, <1>8, <1>9, <1>10
  DEF Next, vars, local, AssistantInit, TestToolInit, ChatInit, CloudInit,
      Prepare, PrepareFails, Ask, Resolve, Socket, Connect, Request, Send, Buffer, Recv, RecvEnds,
      Goes, Fails, ParseNothing, Parse, HandlePlain, Return

LEMMA TypedStep ==
  ASSUME IInv, Wire, Typed, [Next]_vars
  PROVE  Typed'
<1>1. /\ api_url' \in {"none", "stt_url", "tts_url"}
      /\ chat_ready' \in BOOLEAN /\ assistant' \in BOOLEAN
  <2>1. CASE AssistantInit \/ TestToolInit \/ ChatInit
    BY <2>1 DEF Typed, AssistantInit, TestToolInit, ChatInit, CloudInit
  <2>2. CASE UNCHANGED config
    BY <2>2 DEF Typed, config
  <2>. QED
    BY <2>1, <2>2
    DEF Next, vars, Begin, Refuse, Prepare, PrepareFails, Ask, Resolve, Socket, Connect, Request,
        Send, Buffer, Recv, RecvEnds, Goes, Fails, ParseNothing, Parse, HandleFailure, HandleText,
        HandleAudio, HandleNull, HandlePlain, Audible, Inaudible, Reports, Handled, Custom, Return,
        DuplexFails, Reply, DuplexEnds, Free
<1>2. /\ op' \in Ops \cup {"none"} /\ call' \in Ops \cup {"none"} /\ ret' \in {OK, ERROR}
  <2>1. CASE UNCHANGED <<op, call>> /\ ret' \in {ret, OK, ERROR}
    BY <2>1 DEF Typed
  <2>2. ASSUME NEW o \in Ops, Begin(o) \/ Refuse(o)
        PROVE  op' \in Ops \cup {"none"} /\ call' \in Ops \cup {"none"} /\ ret' \in {OK, ERROR}
    BY <2>2 DEF Typed, Begin, Refuse, Ops, Calls
  <2>3. CASE Reply \/ Free
    BY <2>3 DEF Typed, Reply, Free, Ops, Calls
  <2>. QED
    BY <2>1, <2>2, <2>3
    DEF Next, vars, local, AssistantInit, TestToolInit, ChatInit, CloudInit, Prepare, PrepareFails,
        Ask, Resolve, Socket, Connect, Request, Send, Buffer, Recv, RecvEnds, Goes, Fails,
        ParseNothing, Parse, HandleFailure, HandleText, HandleAudio, HandleNull, HandlePlain,
        Audible, Inaudible, Reports, Handled, Custom, Return, DuplexFails, DuplexEnds
<1>3. /\ posted' \in {"none", "own", "stt_url", "tts_url"} /\ got' <= RecvMax
  <2>1. CASE UNCHANGED wire
    BY <2>1 DEF Typed, wire
  <2>2. CASE Ask \/ Free
    BY <2>2, AnswersAssumption DEF Typed, Ask, Free
  <2>3. CASE Recv
    <3>1. PICK n \in 1 .. (IF Len(answer) < RecvMax THEN Len(answer) ELSE RecvMax) - got :
            got' = got + n
      BY <2>3 DEF Recv
    <3>. QED
      BY <2>3, <3>1, AnswersAssumption DEF Typed, Wire, Recv
  <2>. QED
    BY <2>1, <2>2, <2>3
    DEF Next, vars, local, AssistantInit, TestToolInit, ChatInit, CloudInit, Begin, Refuse,
        Prepare, PrepareFails, Resolve, Socket, Connect, Request, Send, Buffer, RecvEnds, Goes,
        Fails, ParseNothing, Parse, HandleFailure, HandleText, HandleAudio, HandleNull,
        HandlePlain, Audible, Inaudible, Reports, Handled, Custom, Return, DuplexFails, Reply,
        DuplexEnds
<1>4. http_resp'.status \in Statuses \cup {0}
  <2>1. CASE UNCHANGED http_resp
    BY <2>1 DEF Typed
  <2>2. CASE Ask \/ Free \/ http_resp' = NoHttp
    BY <2>2 DEF Ask, Free, NoHttp
  <2>3. CASE Parse
    BY <2>3 DEF Parse
  <2>. QED
    BY <2>1, <2>2, <2>3
    DEF Next, vars, local, AssistantInit, TestToolInit, ChatInit, CloudInit, Begin, Refuse,
        Prepare, PrepareFails, Resolve, Socket, Connect, Request, Send, Buffer, Recv, RecvEnds,
        Goes, Fails, ParseNothing, HandleFailure, HandleText, HandleAudio, HandleNull,
        HandlePlain, Audible, Inaudible, Reports, Handled, Custom, Return, DuplexFails, Reply,
        DuplexEnds
<1>5. faults' \subseteq {"inaudible", "no_status", "null_read", "overwritten"}
  <2>. DEFINE known == {"inaudible", "no_status", "null_read", "overwritten"}
  <2>1. ASSUME NEW F \in SUBSET known, faults' = faults \cup F PROVE faults' \subseteq known
    BY <2>1 DEF Typed
  <2>2. CASE faults' = {} \/ UNCHANGED faults
    BY <2>2 DEF Typed
  <2>3. CASE HandleAudio \/ DuplexEnds \/ Parse
    BY <2>1, <2>2, <2>3 DEF HandleAudio, DuplexEnds, Audible, Inaudible, Parse
  <2>4. CASE HandleNull
    BY <2>4 DEF HandleNull, Typed
  <2>. QED
    BY <2>2, <2>3, <2>4
    DEF Next, vars, local, AssistantInit, TestToolInit, ChatInit, CloudInit, Begin, Refuse, Forget,
        Prepare, PrepareFails, Ask, Resolve, Socket, Connect, Request, Send, Buffer, Recv,
        RecvEnds, Goes, Fails, ParseNothing, HandleFailure, HandleText, HandlePlain,
        Custom, Return, DuplexFails, Reply, Free
<1>. QED
  BY <1>1, <1>2, <1>3, <1>4, <1>5, ResponseTyped DEF Typed

\* Every variable has its type, whatever fails: a block is held once at most and
\* never freed more often than allocated, but for the error text a full duplex
\* call overwrites; an answer never outgrows its buffer, an error code is a
\* status, -1 or 0.
\* (web_client.c, ai_cloud_service.c and ai_chat_service.c)
THEOREM TypeCorrect ==
  ASSUME Clears \subseteq {TRUE}
  PROVE  Spec => []TypeOK
<1>1. Init => IInv /\ Wire /\ Typed
  <2>1. ASSUME Init PROVE Typed
    <3>1. got <= RecvMax /\ http_resp.status = 0 /\ response.error = FALSE /\ response.error_code = 0
      BY <2>1, AnswersAssumption DEF Init, NoHttp, Cleared
    <3>. QED
      BY <2>1, <3>1 DEF Init, Typed
  <2>. QED
    BY <2>1, InitWell
<1>2. IInv /\ Wire /\ Typed /\ [Next]_vars => (IInv /\ Wire /\ Typed)'
  BY StepWell, WireStep, TypedStep
<1>3. IInv /\ Wire /\ Typed => TypeOK
  BY BlocksAreHeldOnce DEF HeldOnce, Typed, TypeOK, Wire, IInv, Calling, Active, Net
<1>. QED
  BY <1>1, <1>2, <1>3, PTL DEF Spec

-----------------------------------------------------------------------------
(* A success has its result. *)

\* What a call has found out, from the answer to its return.
SuccessInv ==
  /\ pc = "answered" /\ ret = OK => http_resp.status # 0 \/ "no_status" \in faults
  /\ pc = "handled" /\ ret = OK /\ response.error_code = 0 /\ call \notin Plain =>
       \/ "no_status" \in faults
       \/ /\ call # "tts" => response.text # Null
          /\ call = "tts" => response.audio # Null \/ "inaudible" \in faults
  /\ SuccessHasResult

LEMMA SuccessUnchanged ==
  ASSUME SuccessInv, UNCHANGED local
  PROVE  SuccessInv'
BY DEF SuccessInv, SuccessHasResult, local

\* Before an answer there is nothing to show.
LEMMA NothingYet ==
  ASSUME pc' \notin {"answered", "handled", "done"}
  PROVE  SuccessInv'
BY DEF SuccessInv, SuccessHasResult

LEMMA ErrorIsNoSuccess ==
  ASSUME ret' = ERROR
  PROVE  SuccessInv'
BY DEF SuccessInv, SuccessHasResult, OK, ERROR

LEMMA AnsweredCleared ==
  ASSUME IInv, pc = "answered"
  PROVE  response = Cleared
BY DEF IInv, Responding

\* An error code other than 0 is no success.
LEMMA ReportedWell ==
  ASSUME IInv, pc = "answered", NEW code, code # 0, Reports(code)
  PROVE  SuccessInv'
<1>1. PICK error \in CopyOfText :
        response' = [response EXCEPT !.error = error, !.error_code = code] /\ pc' = "handled"
  BY DEF Reports, Handled
<1>2. response'.error_code # 0
  BY <1>1, AnsweredCleared DEF Cleared
<1>. QED
  BY <1>1, <1>2 DEF SuccessInv, SuccessHasResult

LEMMA HandledSuccess ==
  ASSUME IInv, SuccessInv,
         HandleFailure \/ HandleText \/ HandleAudio \/ HandleNull \/ HandlePlain
  PROVE  SuccessInv'
<1>. USE AnsweredCleared DEF Cleared
<1>1. CASE HandleFailure
  <2>1. pc = "answered" /\ ~Success /\ Reports(http_resp.status)
    BY <1>1 DEF HandleFailure, Answered
  <2>2. CASE http_resp.status # 0
    BY <2>1, <2>2, ReportedWell
  <2>3. CASE ret # OK \/ "no_status" \in faults
    <3>1. UNCHANGED faults
      BY <1>1 DEF HandleFailure
    <3>. QED
      BY <2>1, <2>3, <3>1 DEF Reports, Handled, SuccessInv, SuccessHasResult
  <2>. QED
    BY <2>1, <2>2, <2>3 DEF SuccessInv
<1>2. CASE HandleText
  <2>1. pc = "answered" /\ call \in {"stt"} \cup Chats
    BY <1>2 DEF HandleText, Answered
  <2>2. CASE Reports(-1)
    BY <2>1, <2>2, ReportedWell
  <2>3. CASE Text # Null /\ Handled({"text"}) /\ response' = [response EXCEPT !.text = Text]
    <3>1. response'.text # Null /\ pc' = "handled" /\ call' = call /\ call # "tts"
      BY <2>1, <2>3 DEF Handled, Chats
    <3>. QED
      BY <3>1 DEF SuccessInv, SuccessHasResult
  <2>. QED
    BY <1>2, <2>2, <2>3 DEF HandleText
<1>3. CASE HandleAudio
  <2>1. pc = "answered" /\ call = "tts"
    BY <1>3 DEF HandleAudio, Answered
  <2>2. CASE Reports(-1)
    BY <2>1, <2>2, ReportedWell
  <2>3. CASE Inaudible
    BY <2>1, <2>3 DEF Inaudible, Handled, SuccessInv, SuccessHasResult
  <2>4. ASSUME NEW audio, audio # Null, Audible(audio)
        PROVE  SuccessInv'
    <3>1. response'.audio # Null /\ pc' = "handled" /\ call' = call
      BY <2>1, <2>4 DEF Audible, Handled
    <3>. QED
      BY <2>1, <3>1 DEF SuccessInv, SuccessHasResult
  <2>. QED
    BY <1>3, <2>2, <2>3, <2>4 DEF HandleAudio
<1>4. CASE HandleNull
  <2>1. pc = "answered"
    BY <1>4 DEF HandleNull, Answered
  <2>2. CASE Reports(-1)
    BY <2>1, <2>2, ReportedWell
  <2>3. CASE /\ call = "tts" /\ Handled({"audio"})
             /\ response' = [response EXCEPT !.audio = <<"garbage">>]
    <3>1. response'.audio # Null /\ pc' = "handled" /\ call' = call
      BY <2>1, <2>3 DEF Handled, Null
    <3>. QED
      BY <2>3, <3>1 DEF SuccessInv, SuccessHasResult
  <2>4. CASE Handled({}) /\ call = "tts" /\ "inaudible" \in faults'
    BY <2>1, <2>4 DEF Handled, SuccessInv, SuccessHasResult
  <2>. QED
    BY <1>4, <2>2, <2>3, <2>4 DEF HandleNull
<1>5. CASE HandlePlain
  BY <1>5 DEF HandlePlain, Answered, SuccessInv, SuccessHasResult
<1>. QED
  BY <1>1, <1>2, <1>3, <1>4, <1>5

\* A full duplex call has its text kept aside and its audio from the second part.
LEMMA ReturnedSuccess ==
  ASSUME IInv, SuccessInv, Return \/ DuplexEnds
  PROVE  SuccessInv'
<1>1. CASE Return
  <2>1. pc = "handled" /\ op # "duplex" /\ pc' = "done"
        /\ UNCHANGED <<op, call, response, ret, faults>>
    BY <1>1 DEF Return, Goes
  <2>2. op = call
    BY <2>1 DEF IInv, Calling, Active
  <2>. QED
    BY <2>1, <2>2 DEF SuccessInv, SuccessHasResult
<1>2. CASE DuplexEnds
  <2>1. pc = "handled" /\ op = "duplex" /\ call = "tts" /\ pc' = "done" /\ UNCHANGED <<op, ret>>
    BY <1>2 DEF DuplexEnds
  <2>2. CASE ret # OK
    BY <2>1, <2>2 DEF SuccessInv, SuccessHasResult
  <2>3. CASE ret = OK
    <3>1. kept # Null
      BY <2>1 DEF IInv, Keeping, Active
    <3>2. response' = [response EXCEPT !.text = kept] /\ UNCHANGED faults
      BY <1>2, <2>3 DEF DuplexEnds
    <3>3. /\ response'.text = kept
          /\ response'.audio = response.audio
          /\ response'.error_code = response.error_code
      BY <3>2 DEF IInv, Responding
    <3>. QED
      BY <2>1, <2>3, <3>1, <3>2, <3>3 DEF SuccessInv, SuccessHasResult, Plain
  <2>. QED
    BY <2>2, <2>3
<1>. QED
  BY <1>1, <1>2

LEMMA SuccessStep ==
  ASSUME IInv, SuccessInv, [Next]_vars
  PROVE  SuccessInv'
<1>1. CASE AssistantInit \/ TestToolInit \/ ChatInit \/ UNCHANGED vars
  BY <1>1, SuccessUnchanged DEF AssistantInit, TestToolInit, ChatInit, CloudInit, vars
<1>2. ASSUME NEW o \in Ops, Begin(o)
      PROVE  SuccessInv'
  BY <1>2, NothingYet DEF Begin
<1>3. ASSUME NEW o \in Ops, Refuse(o)
      PROVE  SuccessInv'
  BY <1>3, ErrorIsNoSuccess DEF Refuse
<1>4. CASE Prepare \/ Ask \/ Recv \/ RecvEnds \/ Reply \/ Free
  <2>1. pc' \notin {"answered", "handled", "done"}
    BY <1>4 DEF Prepare, Ask, Recv, RecvEnds, Reply, Free, Goes
  <2>. QED
    BY <2>1, NothingYet
<1>5. CASE PrepareFails \/ ParseNothing \/ Custom \/ DuplexFails
  <2>1. ret' = ERROR
    BY <1>5 DEF PrepareFails, ParseNothing, Custom, DuplexFails
  <2>. QED
    BY <2>1, ErrorIsNoSuccess
<1>6. CASE Resolve \/ Socket \/ Connect \/ Request \/ Send \/ Buffer
  <2>1. pc' \notin {"answered", "handled", "done"} \/ ret' = ERROR
    BY <1>6 DEF Resolve, Socket, Connect, Request, Send, Buffer, Goes, Fails
  <2>. QED
    BY <2>1, NothingYet, ErrorIsNoSuccess
<1>7. CASE Parse
  <2>1. pc' = "answered" /\ (http_resp'.status = 0 => "no_status" \in faults')
    BY <1>7 DEF Parse
  <2>. QED
    BY <2>1 DEF SuccessInv, SuccessHasResult
<1>8. CASE HandleFailure \/ HandleText \/ HandleAudio \/ HandleNull \/ HandlePlain
  BY <1>8, HandledSuccess
<1>9. CASE Return \/ DuplexEnds
  BY <1>9, ReturnedSuccess
<1>. QED
  BY <1>1, <1>2, <1>3, <1>4, <1>5, <1>6, <1>7, <1>8, <1>9 DEF Next

\* A call that returns RT_EOK with error code 0 has its result, whatever fails, but
\* for the two paths that forget the code: a status line that could not be read,
\* and audio that could not be allocated.
\* (each other path without a result reports -1 or a status that is not 0)
THEOREM SuccessHasItsResult ==
  ASSUME Clears \subseteq {TRUE}
  PROVE  Spec => []SuccessHasResult
<1>1. Init => IInv /\ Wire /\ SuccessInv
  <2>1. Init => SuccessInv
    BY DEF Init, SuccessInv, SuccessHasResult
  <2>. QED
    BY <2>1, InitWell
<1>2. IInv /\ Wire /\ SuccessInv /\ [Next]_vars => (IInv /\ Wire /\ SuccessInv)'
  BY StepWell, WireStep, SuccessStep
<1>3. SuccessInv => SuccessHasResult
  BY DEF SuccessInv
<1>. QED
  BY <1>1, <1>2, <1>3, PTL DEF Spec

-----------------------------------------------------------------------------
(* A text or quoted audio is whole. *)

\* A quote the service opens is closed, once, at the end of its answer.
ClosesQuotes(a) ==
  Len(a) > 1 /\ a[2] = "open" =>
    /\ Len(a) > 2 /\ a[Len(a)] = "close"
    /\ \A i \in 3 .. Len(a) - 1 : a[i] # "close"

\* What is found between two quotes in a part of an answer is what the answer
\* has between its quotes: a part without the closing quote has nothing.
LEMMA QuotedIsWhole ==
  ASSUME Wire, ClosesQuotes(answer), http_resp.body = SubSeq(answer, 2, got),
         NEW ends, ends \in {{"close"}, {"close", "escape"}},
         "escape" \in ends => "escape" \notin ToSet(answer),
         Quoted(ends) # Null
  PROVE  Quoted(ends) = Content
<1>. DEFINE a == answer
            body == SubSeq(a, 2, got)
            closing == {i \in 2 .. Len(body) : body[i] \in ends}
<1>1. a \in Seq(Parts) /\ Len(a) \in Nat /\ got \in 0 .. Len(a)
  BY DEF Wire
<1>2. /\ body # <<>> /\ body[1] = "open" /\ closing # {}
      /\ Quoted(ends) = SubSeq(body, 2, Min(closing) - 1)
  BY DEF Quoted
<1>3. got >= 2
  BY <1>1, <1>2
<1>4. Len(body) = got - 1 /\ \A i \in 1 .. got - 1 : body[i] = a[i + 1]
  BY <1>1, <1>3
<1>5. a[2] = "open" /\ Len(a) > 1
  BY <1>1, <1>2, <1>3, <1>4
<1>6. ASSUME NEW i \in closing
      PROVE  i = Len(a) - 1 /\ got = Len(a)
  <2>1. i \in 2 .. got - 1 /\ a[i + 1] \in ends
    <3>. HIDE DEF body
    <3>1. i \in 2 .. Len(body) /\ body[i] \in ends
      OBVIOUS
    <3>2. i \in 2 .. got - 1 /\ i \in 1 .. got - 1
      BY <1>1, <1>3, <1>4, <3>1
    <3>. QED
      BY <1>4, <3>1, <3>2
  <2>2. a[i + 1] \in ToSet(a)
    BY <1>1, <2>1 DEF ToSet
  <2>3. a[i + 1] = "close"
    BY <2>1, <2>2
  <2>. QED
    BY <1>1, <1>5, <2>1, <2>3 DEF ClosesQuotes
<1>7. closing = {Len(a) - 1} /\ got = Len(a) /\ Len(a) > 2
  BY <1>1, <1>2, <1>5, <1>6 DEF ClosesQuotes
<1>8. Min(closing) = Len(a) - 1
  BY <1>1, <1>7 DEF Min
<1>9. SubSeq(body, 2, Len(a) - 2) = SubSeq(a, 3, Len(a) - 1)
  <2>. DEFINE b == SubSeq(a, 2, Len(a))
  <2>1. b \in Seq(Parts) /\ Len(b) = Len(a) - 1 /\ \A i \in 1 .. Len(a) - 1 : b[i] = a[i + 1]
    BY <1>1, <1>4, <1>7
  <2>2. /\ SubSeq(b, 2, Len(a) - 2) = [i \in 1 .. Len(a) - 3 |-> b[i + 1]]
        /\ SubSeq(a, 3, Len(a) - 1) = [i \in 1 .. Len(a) - 3 |-> a[i + 2]]
    <3>. HIDE DEF b
    <3>. QED
      BY <1>1, <1>7, <2>1
  <2>3. \A i \in 1 .. Len(a) - 3 : b[i + 1] = a[i + 2]
    BY <1>1, <1>7, <2>1
  <2>. QED
    BY <1>7, <2>2, <2>3
<1>10. Min(closing) - 1 = Len(a) - 2
  <2>. HIDE DEF closing
  <2>. QED
    BY <1>1, <1>8
<1>11. Quoted(ends) = SubSeq(body, 2, Len(a) - 2)
  <2>. HIDE DEF closing, body
  <2>. QED
    BY <1>2, <1>10
<1>. QED
  BY <1>9, <1>11 DEF Content

LEMMA TextIsWhole ==
  ASSUME Wire, ClosesQuotes(answer), http_resp.body = SubSeq(answer, 2, got)
  PROVE  /\ Quoted({"close"}) # Null => Quoted({"close"}) = Content
         /\ Quoted({"close", "escape"}) # Null /\ "escape" \notin ToSet(answer)
              => Quoted({"close", "escape"}) = Content
<1>1. "escape" \notin {"close"}
  OBVIOUS
<1>. QED
  BY <1>1, QuotedIsWhole

WholeInv ==
  /\ pc \in Net \cup {"answered"} => answer \in Answers[call]
  /\ pc = "answered" /\ http_resp.body # Null => http_resp.body = SubSeq(answer, 2, got)
  /\ AnswerIsWhole

LEMMA WholeHandled ==
  ASSUME IInv, Wire, WholeInv, \A c \in Calls : \A a \in Answers[c] : ClosesQuotes(a),
         HandleFailure \/ HandleText \/ HandleAudio \/ HandleNull \/ HandlePlain
  PROVE  WholeInv'
<1>. USE DEF Cleared
<1>1. /\ pc = "answered" /\ pc' = "handled"
      /\ UNCHANGED <<call, answer, got, http_resp>>
  BY DEF HandleFailure, HandleText, HandleAudio, HandleNull, HandlePlain, Answered, Reports,
         Audible, Inaudible, Handled, wire
<1>2. response = Cleared /\ ClosesQuotes(answer)
  BY <1>1, AnsweredCleared, CallsAre DEF WholeInv
<1>3. pc' \notin Net \cup {"answered"}
  BY <1>1 DEF Net
<1>4. ASSUME response'.text = Null, response'.audio = Null
      PROVE  WholeInv'
  BY <1>1, <1>3, <1>4 DEF WholeInv, AnswerIsWhole
<1>5. ASSUME NEW code, Reports(code)
      PROVE  WholeInv'
  <2>1. response'.text = Null /\ response'.audio = Null
    BY <1>2, <1>5 DEF Reports
  <2>. QED
    BY <1>4, <2>1
<1>6. CASE HandleFailure
  BY <1>5, <1>6 DEF HandleFailure
<1>7. CASE HandlePlain
  BY <1>2, <1>4, <1>7 DEF HandlePlain
<1>8. CASE HandleText
  <2>1. CASE Reports(-1)
    BY <1>5, <2>1
  <2>2. CASE Text # Null /\ response' = [response EXCEPT !.text = Text]
    <3>1. response'.text = Text /\ response'.audio = Null
      BY <1>2, <2>2
    <3>2. http_resp.body = SubSeq(answer, 2, got)
      BY <1>1, <1>8 DEF HandleText, WholeInv
    <3>3. (call = "stt" => "escape" \notin ToSet(answer)) => Text = Content
      <4>1. Text = Quoted(IF call = "stt" THEN {"close", "escape"} ELSE {"close"})
        BY DEF Text
      <4>2. CASE call = "stt"
        BY <1>2, <2>2, <3>2, <4>1, <4>2, TextIsWhole
      <4>3. CASE call # "stt"
        BY <1>2, <2>2, <3>2, <4>1, <4>3, TextIsWhole
      <4>. QED
        BY <4>2, <4>3
    <3>4. Content' = Content
      BY <1>1 DEF Content
    <3>. QED
      BY <1>1, <1>3, <3>1, <3>3, <3>4 DEF WholeInv, AnswerIsWhole
  <2>. QED
    BY <1>8, <2>1, <2>2 DEF HandleText
<1>9. CASE HandleAudio
  <2>1. http_resp.body # Null /\ http_resp.body = SubSeq(answer, 2, got)
    BY <1>1, <1>9 DEF HandleAudio, WholeInv
  <2>2. CASE Reports(-1)
    BY <1>5, <2>2
  <2>3. CASE Inaudible
    BY <1>2, <1>4, <2>3 DEF Inaudible
  <2>4. CASE Quoted({"close"}) # Null /\ Audible(Quoted({"close"}))
    <3>1. response'.text = Null /\ response'.audio = Quoted({"close"})
      BY <1>2, <2>4 DEF Audible
    <3>2. Quoted({"close"}) = Content
      BY <1>2, <2>1, <2>4, TextIsWhole
    <3>3. Content' = Content
      BY <1>1 DEF Content
    <3>. QED
      BY <1>1, <1>3, <3>1, <3>2, <3>3 DEF WholeInv, AnswerIsWhole
  <2>5. CASE /\ http_resp.body # <<>> /\ http_resp.body[1] = "pcm"
             /\ Audible(http_resp.body)
    <3>1. response'.text = Null
      BY <1>2, <2>5 DEF Audible
    <3>2. answer[2] = "pcm"
      BY <2>1, <2>5 DEF Wire
    <3>. QED
      BY <1>1, <1>3, <3>1, <3>2 DEF WholeInv, AnswerIsWhole
  <2>. QED
    BY <1>9, <2>2, <2>3, <2>4, <2>5 DEF HandleAudio
<1>10. CASE HandleNull
  <2>1. CASE Reports(-1)
    BY <1>5, <2>1
  <2>2. CASE /\ call = "tts" /\ got > 1
             /\ response' = [response EXCEPT !.audio = <<"garbage">>]
    <3>1. response'.text = Null
      BY <1>2, <2>2
    <3>2. "null_read" \in faults'
      BY <1>10, <2>2 DEF HandleNull, Wire
    <3>. QED
      BY <1>1, <1>3, <3>1, <3>2 DEF WholeInv, AnswerIsWhole
  <2>3. CASE UNCHANGED response
    BY <1>2, <1>4, <2>3
  <2>. QED
    BY <1>10, <2>1, <2>2, <2>3 DEF HandleNull
<1>. QED
  BY <1>6, <1>7, <1>8, <1>9, <1>10

LEMMA WholeStep ==
  ASSUME IInv, Wire, WholeInv, [Next]_vars,
         \A c \in Calls : \A a \in Answers[c] : ClosesQuotes(a)
  PROVE  WholeInv'
<1>. USE DEF Net
<1>1. ASSUME pc' \notin Net \cup {"answered", "handled"}
      PROVE  WholeInv'
  BY <1>1 DEF WholeInv, AnswerIsWhole
<1>2. ASSUME UNCHANGED <<call, answer, got, http_resp>>, pc \in Net,
             pc' \in Net \cup {"answered"}
      PROVE  WholeInv'
  <2>1. http_resp.body = Null
    BY <1>2 DEF IInv, NoAnswerYet, NoHttp
  <2>. QED
    BY <1>2, <2>1 DEF WholeInv, AnswerIsWhole
<1>3. CASE AssistantInit \/ TestToolInit \/ ChatInit \/ UNCHANGED vars
  <2>1. UNCHANGED local
    BY <1>3 DEF AssistantInit, TestToolInit, ChatInit, CloudInit, vars
  <2>. QED
    BY <2>1 DEF local, wire, WholeInv, AnswerIsWhole, Content
<1>4. ASSUME NEW o \in Ops, Begin(o) \/ Refuse(o)
      PROVE  WholeInv'
  BY <1>1, <1>4 DEF Begin, Refuse
<1>5. CASE Prepare \/ DuplexFails \/ Reply \/ DuplexEnds \/ Return \/ Free
  BY <1>1, <1>5 DEF Prepare, DuplexFails, Reply, DuplexEnds, Return, Free, Goes
<1>6. CASE PrepareFails
  <2>1. response' = Cleared /\ pc' = "handled"
    BY <1>6 DEF PrepareFails, IInv, Responding
  <2>. QED
    BY <2>1 DEF WholeInv, AnswerIsWhole, Cleared
<1>7. CASE Custom
  <2>1. response'.text = Null /\ response'.audio = Null /\ pc' = "handled"
    BY <1>7 DEF Custom, IInv, Responding, Cleared
  <2>. QED
    BY <2>1 DEF WholeInv, AnswerIsWhole
<1>8. CASE Ask
  BY <1>8 DEF Ask, WholeInv, AnswerIsWhole
<1>9. CASE Resolve \/ Socket \/ Connect \/ Request \/ Send \/ Buffer \/ RecvEnds \/ ParseNothing
  BY <1>2, <1>9
  DEF Resolve, Socket, Connect, Request, Send, Buffer, RecvEnds, ParseNothing, Goes, Fails, wire
<1>10. CASE Recv
  BY <1>10 DEF Recv, WholeInv, AnswerIsWhole
<1>11. CASE Parse
  BY <1>11 DEF Parse, WholeInv, AnswerIsWhole, wire
<1>12. CASE HandleFailure \/ HandleText \/ HandleAudio \/ HandleNull \/ HandlePlain
  BY <1>12, WholeHandled
<1>. QED
  BY <1>3, <1>4, <1>5, <1>6, <1>7, <1>8, <1>9, <1>10, <1>11, <1>12 DEF Next

\* If the service closes the quotes it opens, once and at the end, a text or the
\* audio of a quoted field is what it has between them, or is not returned,
\* wherever the answer was cut, by a buffer of any size or by the network.
\* (the search for the closing quote, in each of the services)
THEOREM AnswerIsAlwaysWhole ==
  ASSUME Clears \subseteq {TRUE}, \A c \in Calls : \A a \in Answers[c] : ClosesQuotes(a)
  PROVE  Spec => []AnswerIsWhole
<1>1. Init => IInv /\ Wire /\ WholeInv
  <2>1. Init => WholeInv
    BY DEF Init, WholeInv, AnswerIsWhole, Net
  <2>. QED
    BY <2>1, InitWell
<1>2. IInv /\ Wire /\ WholeInv /\ [Next]_vars => (IInv /\ Wire /\ WholeInv)'
  BY StepWell, WireStep, WholeStep
<1>3. WholeInv => AnswerIsWhole
  BY DEF WholeInv
<1>. QED
  BY <1>1, <1>2, <1>3, PTL DEF Spec
=============================================================================
