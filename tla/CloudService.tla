---------------------------- MODULE CloudService ----------------------------
(***************************************************************************)
(* The device's side of the cloud: the HTTP client web_client.c and its    *)
(* users ai_cloud_service.c (speech to text, text to speech, both in a     *)
(* row) and ai_chat_service.c, all in src/applications.                    *)
(*                                                                         *)
(* One thread makes one call after the other; each call keeps its data on  *)
(* its own stack and heap, only the configuration is shared.  What is      *)
(* followed is what a call holds (held), what it is told and what it       *)
(* returns.  A value of pc is the next step of the call.                   *)
(*                                                                         *)
(* An answer is a sequence of parts: "header" up to its empty line, "open" *)
(* the name of the field and a quote, "escape" a quote behind a backslash, *)
(* "close" a quote; "pcm" raw audio, "other" anything else.  "status" is a *)
(* header cut short.                                                       *)
(***************************************************************************)
EXTENDS Integers, Sequences, SequencesExt, FiniteSetsExt

CONSTANTS
  Answers,     \* Answers[call]: what the service may send
  Statuses,    \* HTTP statuses a status line may have
  RecvMax,     \* parts that fit HTTP_RESPONSE_MAX
  MayFail,     \* steps of a call, and "field", "result", "strdup"
  Clears       \* whether a caller clears its response before a call

VARIABLES
  api_url,     \* g_ai_config.api_url, or "none" before ai_cloud_service_init
  chat_ready,  \* g_chat_initialized
  assistant,   \* voice_assistant_init has succeeded
  op,          \* the function that was called
  call,        \* the part of it that runs: a full duplex call has two
  pc,
  posted,      \* the URL of the request
  answer, got, \* what the service sends, and how much has been received
  http_resp,   \* status 0 until a header has been read
  response,    \* ai_response_t or ai_chat_response_t
  kept,        \* stt_response.text_result of the full duplex call
  ret,
  held,        \* blocks and sockets this call has not given back
  faults       \* history: what went wrong unnoticed in this call

config == <<api_url, chat_ready, assistant>>
wire == <<answer, got, posted>>
local == <<op, call, pc, wire, http_resp, response, kept, ret, held, faults>>
vars == <<config, local>>

Null == <<"null">>
Unset == <<"unset">>   \* an uninitialised pointer
OK == "RT_EOK"
ERROR == "-RT_ERROR"

Calls == {"stt", "tts", "openai", "wenxin", "wenxin_v2", "get", "file"}
Chats == {"openai", "wenxin", "wenxin_v2"}
Plain == {"get", "file"}   \* the caller gets the HTTP response itself
Ops == Calls \cup {"duplex", "custom"}

Parts == {"header", "status", "open", "escape", "close", "pcm", "other", "x", "y"}

ASSUME AnswersAssumption ==
  RecvMax \in Nat /\ \A c \in Calls : Answers[c] \subseteq Seq(Parts)

Blocks == {"base64", "json", "header", "multipart", "socket", "request", "buffer",
           "body", "text", "audio", "error"}

NoHttp == [status |-> 0, body |-> Null]
Cleared == [text |-> Null, audio |-> Null, error |-> FALSE, error_code |-> 0]

Init ==
  /\ api_url = "none" /\ chat_ready = FALSE /\ assistant = FALSE
  /\ op = "none" /\ call = "none" /\ pc = "idle"
  /\ posted = "none" /\ answer = <<>> /\ got = 0
  /\ http_resp = NoHttp /\ response = Cleared /\ kept = Null
  /\ ret = OK
  /\ held = [b \in Blocks |-> 0]
  /\ faults = {}

\* Whether rt_strdup of an error text gives one.
CopyOfText == IF "strdup" \in MayFail THEN BOOLEAN ELSE {TRUE}

One(condition) == IF condition THEN 1 ELSE 0

\* A step that allocates the blocks gained and frees the blocks freed.
Moves(gained, freed) ==
  held' = [b \in Blocks |-> held[b] + One(b \in gained) - One(b \in freed)]

-----------------------------------------------------------------------------
(* The configuration and the calls. *)

\* ai_cloud_service_init: one URL for all services.
CloudInit(url) ==
  /\ api_url' = url
  /\ UNCHANGED <<chat_ready, local>>

\* The command va_init, until it has succeeded once.
AssistantInit == ~assistant /\ CloudInit("stt_url") /\ assistant' = TRUE

\* The first ai_say calls it; ai_test init does the same with a URL typed in.
TestToolInit == CloudInit("tts_url") /\ UNCHANGED assistant

ChatInit ==
  /\ chat_ready' = TRUE
  /\ UNCHANGED <<api_url, assistant, local>>

Ready(o) ==
  /\ o \in {"stt", "tts", "duplex"} => api_url # "none"
  /\ o \in Chats \cup {"custom"} => chat_ready

\* What an earlier call has lost is not this call's.
Forget == held' = [b \in Blocks |-> 0] /\ faults' = {}

Begin(o) ==
  /\ pc = "idle"
  /\ Ready(o)
  /\ op' = o
  /\ call' = IF o = "duplex" THEN "stt" ELSE o
  /\ pc' = IF o = "custom" THEN "custom" ELSE "prepare"
  /\ http_resp' = NoHttp
  /\ response' = Cleared
  /\ Forget
  /\ UNCHANGED <<config, wire, kept, ret>>

\* The response is left as the caller gave it.
Refuse(o) ==
  /\ pc = "idle"
  /\ ~Ready(o)
  /\ op' = o /\ call' = o
  /\ pc' = "done"
  /\ ret' = ERROR
  /\ \E clear \in Clears :
       response' = IF clear THEN Cleared
                   ELSE [Cleared EXCEPT !.text = Unset, !.audio = Unset]
  /\ Forget
  /\ UNCHANGED <<config, wire, http_resp, kept>>

\* The blocks a call prepares, in their order.
Inputs ==
  [stt |-> <<"base64", "json">>, tts |-> <<"json">>, openai |-> <<"json">>,
   wenxin |-> <<"json">>, wenxin_v2 |-> <<"json", "header">>,
   file |-> <<"multipart">>, get |-> <<>>]

Prepared == {b \in ToSet(Inputs[call]) : held[b] > 0}

Prepare ==
  /\ pc = "prepare"
  /\ Prepared # ToSet(Inputs[call])
  /\ Moves({Inputs[call][Cardinality(Prepared) + 1]}, {})
  /\ UNCHANGED <<config, op, call, pc, wire, http_resp, response, kept, ret, faults>>

PrepareFails ==
  /\ pc = "prepare"
  /\ "prepare" \in MayFail
  /\ Prepared # ToSet(Inputs[call])
  /\ Moves({}, Prepared)
  /\ ret' = ERROR
  /\ pc' = "handled"
  /\ UNCHANGED <<config, op, call, wire, http_resp, response, kept, faults>>

Ask ==
  /\ pc = "prepare"
  /\ Prepared = ToSet(Inputs[call])
  /\ posted' = IF call = "stt" THEN api_url ELSE "own"
  /\ answer' \in Answers[call]
  /\ got' = 0
  /\ http_resp' = NoHttp
  /\ pc' = "resolve"
  /\ UNCHANGED <<config, op, call, response, kept, ret, held, faults>>

-----------------------------------------------------------------------------
(* web_client_get, web_client_post, web_client_post_with_header. *)

Goes(at, next, gained, freed) ==
  /\ pc = at
  /\ pc' = next
  /\ Moves(gained, freed)
  /\ UNCHANGED <<config, op, call, wire, http_resp, response, kept, ret, faults>>

\* Nothing has been received: an error, with what is held given back.
Fails(at, freed) ==
  /\ pc = at
  /\ at \in MayFail
  /\ pc' = "answered"
  /\ ret' = ERROR
  /\ Moves({}, freed)
  /\ UNCHANGED <<config, op, call, wire, http_resp, response, kept, faults>>

\* Mutant: an error keeps the request.
SendKeeping == Goes("send", "buffer", {}, {"request"}) \/ Fails("send", {"socket"})

\* Mutant: the request is freed before it is allocated.
RequestTwice ==
  Goes("request", "send", {"request"}, {}) \/ Fails("request", {"request", "socket"})

Resolve == Goes("resolve", "socket", {}, {}) \/ Fails("resolve", {})
Socket == Goes("socket", "connect", {"socket"}, {}) \/ Fails("socket", {})
Connect ==
  \/ Goes("connect", IF call = "get" THEN "send" ELSE "request", {}, {})
  \/ Fails("connect", {"socket"})
Request == Goes("request", "send", {"request"}, {}) \/ Fails("request", {"socket"})
Sent == IF call = "get" THEN {} ELSE {"request"}
Send == Goes("send", "buffer", {}, Sent) \/ Fails("send", {"socket"} \cup Sent)
Buffer == Goes("buffer", "recv", {"buffer"}, {}) \/ Fails("buffer", {"socket"})

\* The loop ends when the buffer is full; the answer is then cut.
Recv ==
  /\ pc = "recv"
  /\ \E n \in 1 .. (IF Len(answer) < RecvMax THEN Len(answer) ELSE RecvMax) - got :
       /\ got' = got + n
       /\ pc' = IF got + n = RecvMax THEN "parse" ELSE "recv"
  /\ UNCHANGED <<config, op, call, answer, posted, http_resp, response, kept, ret, held, faults>>

\* The service has closed the connection, or an error or the time limit ends
\* the answer early; the loop does not tell them apart.
RecvEnds ==
  /\ got = Len(answer) \/ "recv" \in MayFail
  /\ Goes("recv", "parse", {}, {})

HasHeader == got > 0 /\ answer[1] = "header"

ParseNothing ==
  /\ pc = "parse"
  /\ ~HasHeader
  /\ ret' = ERROR
  /\ pc' = "answered"
  /\ Moves({}, {"buffer", "socket"})
  /\ UNCHANGED <<config, op, call, wire, http_resp, response, kept, faults>>

\* Nobody looks at what sscanf returns: a status line it cannot read leaves the
\* status 0.  Nor is a body that cannot be copied, a null pointer, an error.
Parse ==
  /\ pc = "parse"
  /\ HasHeader
  /\ ret' = OK
  /\ pc' = "answered"
  /\ \E status \in Statuses \cup {0} :
       \/ /\ http_resp' = [status |-> status, body |-> SubSeq(answer, 2, got)]
          /\ Moves({"body"}, {"buffer", "socket"})
       \/ /\ "body" \in MayFail
          /\ http_resp' = [status |-> status, body |-> Null]
          /\ Moves({}, {"buffer", "socket"})
  /\ faults' = IF http_resp'.status = 0 THEN faults \cup {"no_status"} ELSE faults
  /\ UNCHANGED <<config, op, call, wire, response, kept>>

-----------------------------------------------------------------------------
(* What the services make of the answer. *)

Body == IF http_resp.body = Null THEN {} ELSE {"body"}

\* Mutant: what follows the opening quote, closed or not.
QuotedLoose(ends) ==
  LET body == http_resp.body
      close == {i \in 2 .. Len(body) : body[i] \in ends}
  IN IF body = <<>> \/ body[1] # "open" THEN Null
     ELSE SubSeq(body, 2, IF close = {} THEN Len(body) ELSE Min(close) - 1)

\* The text from the opening quote to the first of ends.
Quoted(ends) ==
  LET body == http_resp.body
      close == {i \in 2 .. Len(body) : body[i] \in ends}
  IN IF body = <<>> \/ body[1] # "open" \/ close = {} THEN Null
     ELSE SubSeq(body, 2, Min(close) - 1)

\* The call returns: it frees its inputs and the body.
Handled(gained) ==
  /\ pc' = "handled"
  /\ Moves(gained, Prepared \cup Body)
  /\ UNCHANGED <<config, op, call, wire, http_resp, kept, ret>>

\* Mutant: the error has a text and no code.
ReportsText(code) ==
  /\ Handled({"error"})
  /\ response' = [response EXCEPT !.error = TRUE]

Reports(code) ==
  \E error \in CopyOfText :
    /\ Handled(IF error THEN {"error"} ELSE {})
    /\ response' = [response EXCEPT !.error = error, !.error_code = code]

Answered(calls) == pc = "answered" /\ call \in calls

Success == ret = OK /\ http_resp.status = 200

HandleFailure ==
  /\ Answered(Calls \ Plain)
  /\ ~Success
  /\ Reports(http_resp.status)
  /\ UNCHANGED faults

\* strchr finds the first quote, extract_json_string the first without a
\* backslash.
Text == Quoted(IF call = "stt" THEN {"close", "escape"} ELSE {"close"})

HandleText ==
  /\ Answered({"stt"} \cup Chats)
  /\ Success /\ http_resp.body # Null
  /\ \/ /\ Text # Null
        /\ Handled({"text"})
        /\ response' = [response EXCEPT !.text = Text]
     \/ /\ Text = Null \/ "result" \in MayFail
        /\ Reports(-1)
  /\ UNCHANGED faults

\* The audio cannot be allocated: neither a result nor an error.
Inaudible ==
  /\ "result" \in MayFail
  /\ Handled({})
  /\ faults' = faults \cup {"inaudible"}
  /\ UNCHANGED response

Audible(audio) ==
  /\ Handled({"audio"})
  /\ response' = [response EXCEPT !.audio = audio]
  /\ UNCHANGED faults

HandleAudio ==
  /\ Answered({"tts"})
  /\ Success /\ http_resp.body # Null
  /\ LET audio == Quoted({"close"})
         body == http_resp.body
         raw == body # <<>> /\ body[1] = "pcm"
     IN \/ audio \notin {Null, <<>>} /\ (Audible(audio) \/ Inaudible)
        \/ raw /\ (Audible(body) \/ Inaudible)
        \/ audio \in {Null, <<>>} /\ ~raw /\ Reports(-1) /\ UNCHANGED faults
        \/ audio \notin {Null, <<>>} /\ "field" \in MayFail /\ Reports(-1) /\ UNCHANGED faults

\* A body that is a null pointer is searched, unless its length is known to be 0:
\* nothing is found, or at address 0 there are bytes that look like audio.
HandleNull ==
  /\ Answered(Calls \ Plain)
  /\ Success /\ http_resp.body = Null
  /\ LET searched == IF call = "tts" /\ got = 1 THEN faults ELSE faults \cup {"null_read"}
     IN \/ Reports(-1) /\ faults' = searched
        \/ /\ call = "tts" /\ got > 1
           /\ \/ /\ Handled({"audio"})
                 /\ response' = [response EXCEPT !.audio = <<"garbage">>]
                 /\ faults' = searched
              \/ /\ "result" \in MayFail
                 /\ Handled({})
                 /\ faults' = searched \cup {"inaudible"}
                 /\ UNCHANGED response

\* web_client_post_file frees its data; the body is the caller's.
HandlePlain ==
  /\ Answered(Plain)
  /\ pc' = "handled"
  /\ Moves({}, Prepared)
  /\ UNCHANGED <<config, op, call, wire, http_resp, response, kept, ret, faults>>

Custom ==
  /\ pc = "custom"
  /\ \E error \in CopyOfText :
       /\ Moves(IF error THEN {"error"} ELSE {}, {})
       /\ response' = [response EXCEPT !.error = error, !.error_code = -1]
  /\ ret' = ERROR
  /\ pc' = "handled"
  /\ UNCHANGED <<config, op, call, wire, http_resp, kept, faults>>

Return ==
  /\ op # "duplex"
  /\ Goes("handled", "done", {}, {})

-----------------------------------------------------------------------------
(* ai_cloud_service_full_duplex. *)

Owned(r) ==
  (IF r.text # Null THEN {"text"} ELSE {})
    \cup (IF r.audio # Null THEN {"audio"} ELSE {})
    \cup (IF r.error THEN {"error"} ELSE {})

Heard == ret = OK /\ response.text # Null

DuplexFails ==
  /\ pc = "handled" /\ op = "duplex" /\ call = "stt"
  /\ ~Heard
  /\ \E error \in CopyOfText :
       /\ Moves(IF error THEN {"error"} ELSE {}, Owned(response))
       /\ response' = [Cleared EXCEPT !.error = error, !.error_code = response.error_code]
  /\ ret' = ERROR
  /\ pc' = "done"
  /\ UNCHANGED <<config, op, call, wire, http_resp, kept, faults>>

\* text_to_speech clears the response; the recognised text is kept aside.
Reply ==
  /\ pc = "handled" /\ op = "duplex" /\ call = "stt"
  /\ Heard
  /\ kept' = response.text
  /\ response' = Cleared
  /\ call' = "tts"
  /\ pc' = "prepare"
  /\ UNCHANGED <<config, op, wire, http_resp, ret, held, faults>>

\* The error text of text_to_speech, if it left one, is overwritten and lost.
DuplexEnds ==
  /\ pc = "handled" /\ op = "duplex" /\ call = "tts"
  /\ \/ /\ ret = OK
        /\ response' = [response EXCEPT !.text = kept]
        /\ UNCHANGED <<held, faults>>
     \/ /\ ret # OK
        /\ \E error \in CopyOfText :
             /\ Moves(IF error THEN {"error"} ELSE {}, {})
             /\ response' = [response EXCEPT !.text = kept, !.error = error, !.error_code = -1]
        /\ faults' = IF response.error THEN faults \cup {"overwritten"} ELSE faults
  /\ kept' = Null
  /\ pc' = "done"
  /\ UNCHANGED <<config, op, call, wire, http_resp, ret>>

\* The caller frees the response, and what it points to if nothing was written
\* to it.
Free ==
  /\ pc = "done"
  /\ Moves({}, Owned(response) \cup (IF op \in Plain THEN Body ELSE {}))
  /\ op' = "none" /\ call' = "none" /\ pc' = "idle"
  /\ posted' = "none" /\ answer' = <<>> /\ got' = 0
  /\ response' = Cleared /\ http_resp' = NoHttp
  /\ ret' = OK
  /\ UNCHANGED <<config, kept, faults>>

Next ==
  \/ AssistantInit \/ TestToolInit \/ ChatInit
  \/ \E o \in Ops : Begin(o) \/ Refuse(o)
  \/ Prepare \/ PrepareFails \/ Ask
  \/ Resolve \/ Socket \/ Connect \/ Request \/ Send \/ Buffer
  \/ Recv \/ RecvEnds \/ ParseNothing \/ Parse
  \/ HandleFailure \/ HandleText \/ HandleAudio \/ HandleNull \/ HandlePlain
  \/ Custom \/ Return \/ DuplexFails \/ Reply \/ DuplexEnds \/ Free

Spec == Init /\ [][Next]_vars

-----------------------------------------------------------------------------
(* Properties. *)

TypeOK ==
  /\ api_url \in {"none", "stt_url", "tts_url"} /\ chat_ready \in BOOLEAN
  /\ assistant \in BOOLEAN
  /\ op \in Ops \cup {"none"} /\ call \in Ops \cup {"none"}
  /\ pc \in {"idle", "custom", "prepare", "resolve", "socket", "connect", "request",
            "send", "buffer", "recv", "parse", "answered", "handled", "done"}
  /\ posted \in {"none", "own", "stt_url", "tts_url"}
  /\ answer \in Seq(Parts) /\ got \in 0 .. RecvMax
  /\ http_resp.status \in Statuses \cup {0}
  /\ response.error \in BOOLEAN /\ response.error_code \in Statuses \cup {-1, 0}
  /\ ret \in {OK, ERROR}
  /\ held \in [Blocks -> Nat]
  /\ \A b \in Blocks : held[b] <= 1 + One(b = "error" /\ "overwritten" \in faults)
  /\ faults \subseteq {"inaudible", "no_status", "null_read", "overwritten"}

\* What a call that has returned, or freed its response, may hold.
Returned == Owned(response) \cup (IF op \in Plain THEN Body ELSE {})

\* Whatever fails, a call that has returned holds what its response points to,
\* once, and nothing when that is freed: nothing is left open or allocated, and
\* nothing is freed twice.  The one block lost is the error text a full duplex
\* call overwrites, which NothingOverwritten is about.
\* (the error paths of web_client.c and of the two services)
NothingLeaked ==
  pc \in {"idle", "done"} =>
    \A b \in Blocks :
      held[b] = One(b \in Returned) + One(b = "error" /\ "overwritten" \in faults)

\* What the service put between the quotes.
Content == SubSeq(answer, 3, Len(answer) - 1)

\* A text, or the audio of a quoted field, is returned whole or not at all,
\* wherever the answer was cut, by the buffer or by the network.  Speech to
\* text excepts a text with a quote in it, which it takes for the end.
\* (the search for the closing quote, which is all that tells a whole answer)
AnswerIsWhole ==
  pc = "handled" =>
    /\ response.text # Null /\ (call = "stt" => "escape" \notin ToSet(answer)) =>
         response.text = Content
    /\ response.audio # Null /\ "null_read" \notin faults /\ answer[2] # "pcm" =>
         response.audio = Content

\* A call that returns RT_EOK with error_code 0 has its result, through both parts
\* of a full duplex call and whatever failed, but for two paths that forget the
\* code: no status could be read, or the audio could not be allocated.
\* (the paths without a result; ai_ask looks at nothing but the two codes)
SuccessHasResult ==
  pc = "done" /\ ret = OK /\ response.error_code = 0 /\ op \notin Plain =>
    \/ "no_status" \in faults
    \/ /\ op # "tts" => response.text # Null
       /\ op \in {"tts", "duplex"} => response.audio # Null \/ "inaudible" \in faults

(* What the comments say and the code does not do. *)

\* "STT URL: Point to PC proxy server": once the assistant is initialised,
\* speech is sent to that URL.  ai_say replaces the one URL of all services.
SpeechGoesToProxy == assistant /\ call = "stt" => posted \in {"none", "stt_url"}

\* "initialise the response structures, lest uninitialised memory be freed"
\* (in Chinese): ai_test tts does not, and a call before ai_test init writes
\* nothing to them.
FreesOwnPointers == pc = "done" => response.text # Unset

\* "Step 2: display the AI's reply" (in Chinese, ai_dialog_tool.c): an ai_ask that
\* goes on to step 2 has a reply.
ReplyIsShown ==
  pc = "done" /\ op \in Chats /\ ret = OK /\ response.error_code = 0 => response.text # Null

\* The error text of one step is freed before that of the next is stored.
NothingOverwritten == "overwritten" \notin faults

\* A body that could not be copied is not searched.
BodyIsThere == "null_read" \notin faults

=============================================================================
