----------------------------- MODULE ClientTalk -----------------------------
(***************************************************************************)
(* One client of a worker's event loop, from evserver_client_new to its    *)
(* release: the callbacks of event_server_callback.c, the step machine of  *)
(* client_talk.c, the receive loops of http_request.c and the idle timer.  *)
(*                                                                         *)
(* A request is abstracted to what decides its fate: the length of its     *)
(* header in units (0 if the blank line never comes), whether its path is  *)
(* the log path, the Content-Length that httpRequest_get_content_length    *)
(* reads from it (0 if absent or not a number), the units the peer sends   *)
(* after the header, and whether they hold a gzip stream.  Callbacks run   *)
(* one after another in the loop and take no time; while a step is AGAIN   *)
(* the callback goes on, each step an action.                              *)
(***************************************************************************)
EXTENDS Integers, FiniteSets

CONSTANTS
  Requests,    \* requests the peer may send
  HeaderCap,   \* HTTP_REQUEST_HEADER_BUF_SIZE - 1
  Timeout,     \* CLIENT_TIMEOUT_SEC
  Period       \* seconds between two timer callbacks

ASSUME HeaderCapAssumption == HeaderCap \in Nat \ {0}
ASSUME TimesAssumption == Timeout \in Nat /\ Period \in Nat \ {0}
ASSUME RequestsAssumption ==
  Requests \subseteq [hdr : Nat, url : BOOLEAN, len : Nat, body : Nat, gzip : BOOLEAN]

VARIABLES
  req,         \* the request the peer sends
  lowMemory,   \* calloc and evbuffer_add may fail in this behaviour
  unsent,      \* units of it the peer has not sent yet
  sock,        \* units in the socket, not read by the bufferevent yet
  peer,        \* "open", "shut" (it closed its sending side) or "reset"
  client,      \* "open" until evserver_client_release
  talking,     \* a callback is inside client_talk
  step,        \* client_option->step, "NONE" before client_option_arg_init
  input,       \* units in the bufferevent's and the client's input buffers
  header_len,  \* httpRequest->header_len
  context_buf, \* httpRequest->context_buf is allocated
  data_len,    \* httpRequest->data_len
  saved,       \* what skylog_save did: "no", "ok" or "failed"
  out,         \* response in the output buffer
  delivered,   \* response written to the socket
  firstSec,    \* SYSTEM_SEC is still 0
  zero,        \* client->time_count is 0
  idle,        \* SYSTEM_SEC - client->time_count
  silent,      \* seconds since the last I/O of this client
  phase        \* seconds to the next timer callback

sockVars == <<req, lowMemory, unsent, sock, peer>>
talkVars == <<step, input, header_len, context_buf, data_len, saved, out, delivered>>
timeVars == <<firstSec, zero, idle, silent, phase>>
vars == <<sockVars, client, talking, talkVars, timeVars>>

Steps == {"NONE", "READ_HEADER", "CHECK_URL_PATH", "READ_CONTEXT", "SKYLOG_SAVE",
          "SEND_SUCCESS", "SEND_ERROR", "FINISHED"}
Responses == {"none", "success", "error"}

(* Units of the request in all; a header that never ends fills the buffer. *)
Total(r) == IF r.hdr = 0 THEN HeaderCap ELSE r.hdr + r.body

(* evserver_client_new: time_count = SYSTEM_SEC, the timer is armed. *)
Init ==
  /\ req \in Requests
  /\ lowMemory \in BOOLEAN
  /\ unsent = Total(req)
  /\ sock = 0
  /\ peer = "open"
  /\ client = "open"
  /\ talking = FALSE
  /\ step = "NONE"
  /\ input = 0
  /\ header_len = 0
  /\ context_buf = FALSE
  /\ data_len = 0
  /\ saved = "no"
  /\ out = "none"
  /\ delivered = "none"
  /\ firstSec \in BOOLEAN
  /\ zero = firstSec
  /\ idle = 0
  /\ silent = 0
  /\ phase = Period

-----------------------------------------------------------------------------
(* The peer. *)

peer_send ==
  /\ peer = "open"
  /\ \E n \in 1 .. unsent : /\ unsent' = unsent - n
                            /\ sock' = sock + n
  /\ UNCHANGED <<req, lowMemory, peer, client, talking, talkVars, timeVars>>

peer_close ==
  /\ peer = "open"
  /\ peer' \in {"shut", "reset"}
  /\ UNCHANGED <<req, lowMemory, unsent, sock, client, talking, talkVars, timeVars>>

-----------------------------------------------------------------------------
(* The event loop and its callbacks. *)

InLoop == client = "open" /\ ~talking

(* evserver_client_exit: in the pool the client is freed and closed. *)
evserver_client_exit ==
  /\ client' = "closed"
  /\ talking' = FALSE

(* client->time_count = SYSTEM_SEC *)
TouchTime ==
  /\ idle' = 0
  /\ silent' = 0
  /\ zero' = firstSec
  /\ UNCHANGED <<firstSec, phase>>

(* Mutant: the read callback does not refresh time_count. *)
read_callback_without_touch ==
  /\ InLoop
  /\ sock > 0
  /\ out = "none"
  /\ sock' = 0
  /\ input' = input + sock
  /\ talking' = TRUE
  /\ silent' = 0
  /\ UNCHANGED <<req, lowMemory, unsent, peer, client, step, header_len, context_buf, data_len,
                 saved, out, delivered, firstSec, zero, idle, phase>>

(* The bufferevent reads what the socket holds and calls back.  libevent   *)
(* runs a pending write of the same socket first (external).               *)
ev_buffered_read_callback ==
  /\ InLoop
  /\ sock > 0
  /\ out = "none"
  /\ sock' = 0
  /\ input' = input + sock
  /\ talking' = TRUE
  /\ TouchTime
  /\ UNCHANGED <<req, lowMemory, unsent, peer, client, step, header_len, context_buf, data_len,
                 saved, out, delivered>>

(* The output buffer is written to the socket and the bufferevent calls    *)
(* back because it is drained; a socket that was reset cannot be written.  *)
ev_buffered_write_callback ==
  /\ InLoop
  /\ out # "none"
  /\ peer # "reset"
  /\ delivered' = out
  /\ out' = "none"
  /\ talking' = TRUE
  /\ TouchTime
  /\ UNCHANGED <<sockVars, client, step, input, header_len, context_buf, data_len, saved>>

(* End of file once everything was read, or a reset. *)
ev_buffered_error_callback ==
  /\ InLoop
  /\ \/ peer = "shut" /\ sock = 0 /\ out = "none"
     \/ peer = "reset"
  /\ evserver_client_exit
  /\ UNCHANGED <<sockVars, talkVars, timeVars>>

(* Mutant: every callback that finds the client alive restarts its count. *)
timer_callback_restarts ==
  /\ InLoop
  /\ phase = 0
  /\ zero' = FALSE
  /\ \/ /\ idle > Timeout
        /\ idle' = idle
        /\ evserver_client_exit
        /\ UNCHANGED phase
     \/ /\ idle <= Timeout
        /\ idle' = 0
        /\ phase' = Period
        /\ UNCHANGED <<client, talking>>
  /\ UNCHANGED <<sockVars, talkVars, firstSec, silent>>

(* Every Period seconds; a time_count of 0 counts as not set yet. *)
ev_timer_callback ==
  /\ InLoop
  /\ phase = 0
  /\ zero' = FALSE
  /\ idle' = IF zero THEN 0 ELSE idle
  /\ \/ /\ idle' > Timeout
        /\ evserver_client_exit
        /\ UNCHANGED phase
     \/ /\ idle' <= Timeout
        /\ phase' = Period
        /\ UNCHANGED <<client, talking>>
  /\ UNCHANGED <<sockVars, talkVars, firstSec, silent>>

(* A second passes.  The loop is not blocked (Dispatch tells when it is):  *)
(* it runs within the second what is active, I/O or a due timer.           *)
tick ==
  /\ InLoop
  /\ phase > 0
  /\ sock = 0 /\ out = "none" /\ peer = "open"
  /\ phase' = phase - 1
  /\ idle' = idle + 1
  /\ silent' = silent + 1
  /\ firstSec' = FALSE
  /\ UNCHANGED <<sockVars, client, talking, talkVars, zero>>

-----------------------------------------------------------------------------
(* client_talk: one action per _client_option_step. *)

(* AGAIN: the same callback goes on with step s. *)
Again(s) == step' = s /\ UNCHANGED <<client, talking>>

(* ONCE: the callback returns and the client stays. *)
Once == talking' = FALSE /\ UNCHANGED client

(* FINISHED: the callback calls evserver_client_exit. *)
Finished == evserver_client_exit

client_option_arg_init ==
  /\ talking
  /\ step = "NONE"
  /\ \/ Again("READ_HEADER")
     \/ lowMemory /\ Finished /\ UNCHANGED step
  /\ UNCHANGED <<sockVars, input, header_len, context_buf, data_len, saved, out, delivered, timeVars>>

Least(a, b) == IF a <= b THEN a ELSE b

(* Units the header can still take: to its blank line or to a full buffer. *)
HeaderRoom ==
  (IF req.hdr = 0 THEN HeaderCap ELSE Least(req.hdr, HeaderCap)) - header_len

(* Mutant: the blank line is looked for before the buffer is found full. *)
recv_header_end_first ==
  /\ talking
  /\ step = "READ_HEADER"
  /\ LET n == Least(input, HeaderRoom) IN
       /\ header_len' = header_len + n
       /\ input' = input - n
  /\ \/ header_len' = req.hdr /\ Again("CHECK_URL_PATH")
     \/ header_len' # req.hdr /\ header_len' >= HeaderCap /\ Finished /\ UNCHANGED step
     \/ header_len' # req.hdr /\ header_len' < HeaderCap /\ Once /\ UNCHANGED step
  /\ UNCHANGED <<sockVars, context_buf, data_len, saved, out, delivered, timeVars>>

(* Mutant: AGAIN where the code has ONCE when the input runs out. *)
recv_header_spins ==
  /\ talking
  /\ step = "READ_HEADER"
  /\ LET n == Least(input, HeaderRoom) IN
       /\ header_len' = header_len + n
       /\ input' = input - n
  /\ \/ header_len' >= HeaderCap /\ Finished /\ UNCHANGED step
     \/ header_len' < HeaderCap /\ header_len' = req.hdr /\ Again("CHECK_URL_PATH")
     \/ header_len' < HeaderCap /\ header_len' # req.hdr /\ Again("READ_HEADER")
  /\ UNCHANGED <<sockVars, context_buf, data_len, saved, out, delivered, timeVars>>

(* A unit at a time until the buffer is full (tested first), the blank     *)
(* line is there, or the input is empty.                                   *)
client_talk_recv_header ==
  /\ talking
  /\ step = "READ_HEADER"
  /\ LET n == Least(input, HeaderRoom) IN
       /\ header_len' = header_len + n
       /\ input' = input - n
  /\ \/ header_len' >= HeaderCap /\ Finished /\ UNCHANGED step
     \/ header_len' < HeaderCap /\ header_len' = req.hdr /\ Again("CHECK_URL_PATH")
     \/ header_len' < HeaderCap /\ header_len' # req.hdr /\ Once /\ UNCHANGED step
  /\ UNCHANGED <<sockVars, context_buf, data_len, saved, out, delivered, timeVars>>

client_talk_check_request_url_path ==
  /\ talking
  /\ step = "CHECK_URL_PATH"
  /\ Again(IF req.url THEN "READ_CONTEXT" ELSE "SEND_ERROR")
  /\ UNCHANGED <<sockVars, input, header_len, context_buf, data_len, saved, out, delivered, timeVars>>

(* Mutant: the step is over as soon as some of the content is there. *)
recv_context_partial ==
  /\ talking
  /\ step = "READ_CONTEXT"
  /\ LET n == Least(input, req.len - data_len) IN
       /\ data_len' = data_len + n
       /\ input' = input - n
       /\ Again("SKYLOG_SAVE")
  /\ UNCHANGED <<sockVars, header_len, context_buf, saved, out, delivered, timeVars>>

(* Mutant: the callback waits for another one before it reads content. *)
recv_context_waits ==
  /\ talking
  /\ step = "READ_CONTEXT"
  /\ Once
  /\ UNCHANGED <<step, input, data_len>>
  /\ UNCHANGED <<sockVars, header_len, context_buf, saved, out, delivered, timeVars>>

(* _httpRequest_context_buf_init finds a positive Content-Length. *)
HasContent == req.len > 0

(* Without a Content-Length there is nothing to receive; otherwise the     *)
(* buffer is allocated and filled until it holds Content-Length units.     *)
client_talk_recv_context ==
  /\ talking
  /\ step = "READ_CONTEXT"
  /\ \/ /\ ~HasContent
        /\ Again("SKYLOG_SAVE")
        /\ UNCHANGED <<input, context_buf, data_len>>
     \/ /\ HasContent /\ ~context_buf /\ lowMemory
        /\ Finished
        /\ UNCHANGED <<step, input, context_buf, data_len>>
     \/ /\ HasContent
        /\ context_buf' = TRUE
        /\ LET n == Least(input, req.len - data_len) IN
             /\ data_len' = data_len + n
             /\ input' = input - n
        /\ \/ data_len' = req.len /\ Again("SKYLOG_SAVE")
           \/ data_len' < req.len /\ Once /\ UNCHANGED step
  /\ UNCHANGED <<sockVars, header_len, saved, out, delivered, timeVars>>

(* Without content, or without a gzip stream in it, the answer is an       *)
(* error; otherwise skylog_save runs and its result is not looked at.      *)
client_talk_skylog_save ==
  /\ talking
  /\ step = "SKYLOG_SAVE"
  /\ \/ /\ data_len > 0 /\ req.gzip
        /\ saved' \in {"ok", "failed"}
        /\ Again("SEND_SUCCESS")
     \/ /\ data_len = 0 \/ ~req.gzip
        /\ Again("SEND_ERROR")
        /\ UNCHANGED saved
  /\ UNCHANGED <<sockVars, input, header_len, context_buf, data_len, out, delivered, timeVars>>

(* Mutant: FINISHED at once, before the response is written. *)
response_finishes ==
  /\ talking
  /\ step \in {"SEND_SUCCESS", "SEND_ERROR"}
  /\ out' = IF step = "SEND_SUCCESS" THEN "success" ELSE "error"
  /\ step' = "FINISHED"
  /\ Finished
  /\ UNCHANGED <<sockVars, input, header_len, context_buf, data_len, saved, delivered, timeVars>>

(* evserver_send_client puts the response in the output buffer, its result *)
(* ignored; the loop must run again for it to be written.                  *)
client_talk_response ==
  /\ talking
  /\ step \in {"SEND_SUCCESS", "SEND_ERROR"}
  /\ \/ out' = IF step = "SEND_SUCCESS" THEN "success" ELSE "error"
     \/ lowMemory /\ UNCHANGED out
  /\ step' = "FINISHED"
  /\ Once
  /\ UNCHANGED <<sockVars, input, header_len, context_buf, data_len, saved, delivered, timeVars>>

client_talk_finished ==
  /\ talking
  /\ step = "FINISHED"
  /\ Finished
  /\ UNCHANGED <<sockVars, talkVars, timeVars>>

client_talk ==
  \/ client_option_arg_init
  \/ client_talk_recv_header
  \/ client_talk_check_request_url_path
  \/ client_talk_recv_context
  \/ client_talk_skylog_save
  \/ client_talk_response
  \/ client_talk_finished

LoopCallback ==
  \/ ev_buffered_read_callback
  \/ ev_buffered_write_callback
  \/ ev_buffered_error_callback
  \/ ev_timer_callback

Next == peer_send \/ peer_close \/ LoopCallback \/ client_talk \/ tick

Spec == Init /\ [][Next]_vars

(* The loop runs what is active, a callback runs to its end, time passes.  *)
(* The peer owes nothing.                                                  *)
FairSpec ==
  /\ Spec
  /\ WF_vars(LoopCallback)
  /\ WF_vars(client_talk)
  /\ WF_vars(tick)

-----------------------------------------------------------------------------
(* Properties. *)

(* Every variable keeps its type. *)
TypeOK ==
  /\ req \in Requests /\ lowMemory \in BOOLEAN
  /\ unsent \in Nat /\ sock \in Nat /\ input \in Nat
  /\ header_len \in Nat /\ data_len \in Nat
  /\ peer \in {"open", "shut", "reset"}
  /\ client \in {"open", "closed"}
  /\ talking \in BOOLEAN /\ context_buf \in BOOLEAN
  /\ step \in Steps
  /\ saved \in {"no", "ok", "failed"}
  /\ out \in Responses /\ delivered \in Responses
  /\ firstSec \in BOOLEAN /\ zero \in BOOLEAN
  /\ idle \in Nat /\ silent \in Nat /\ phase \in 0 .. Period

(* A header that is accepted leaves room for its terminating zero, which   *)
(* straddr and strchr rely on, and the content never overruns the buffer   *)
(* of Content-Length bytes.                                                *)
BuffersNotOverrun ==
  /\ step \notin {"NONE", "READ_HEADER"} => header_len < HeaderCap
  /\ data_len <= req.len

(* 200 is sent only for a log upload received to its last byte, 400 only   *)
(* for a request that is none.                                             *)
AnswerFitsRequest ==
  \A r \in {out, delivered} :
    /\ r = "success" => /\ req.url /\ req.gzip
                        /\ req.len > 0 /\ data_len = req.len
                        /\ header_len = req.hdr
                        /\ saved # "no"
    /\ r = "error" => ~req.url \/ ~req.gzip \/ req.len = 0

(* The server does not close a connection that was not reset while a       *)
(* response to it waits in the output buffer: what "must return once and   *)
(* not finished, or the message cannot be sent" in client_talk.c is for.   *)
ResponseNotDropped == client = "closed" /\ peer # "reset" => out = "none"

(* An idle client outlives the timeout by at most one timer period; two if *)
(* its time_count was still 0 at the first callback.                       *)
IdleBounded ==
  client = "open" => silent <= Timeout + Period + (IF silent = idle THEN 0 ELSE Period)

(* The timer never releases a client that did I/O within the timeout.      *)
TimeoutNotEarly ==
  [][client = "open" /\ client' = "closed" /\ ~talking /\ peer = "open"
       => silent > Timeout]_vars

(* Every client is released, whatever its peer does or omits to do.        *)
ClientReleased == <>(client = "closed")

ValidRequest ==
  /\ req.hdr > 0 /\ req.hdr < HeaderCap
  /\ req.url /\ req.gzip
  /\ req.len > 0 /\ req.len <= req.body

(* A whole log upload that reached the socket of an open client within the *)
(* timeout is answered 200 unless the peer leaves or calloc fails: no unit *)
(* is left unread in a buffer while the loop waits for more.  (What comes  *)
(* after the timeout races the timer callback.)                            *)
WholeRequestAnswered ==
  (/\ ValidRequest /\ unsent = 0 /\ silent <= Timeout
   /\ client = "open" /\ peer = "open" /\ ~lowMemory)
    ~> (delivered = "success" \/ peer # "open")

(* 200 means that the received content was saved to a file.                *)
SuccessMeansSaved == delivered = "success" => saved = "ok"
=============================================================================
