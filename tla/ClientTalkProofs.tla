--------------------------- MODULE ClientTalkProofs ---------------------------
(***************************************************************************)
(* Proofs about ClientTalk, for every set of requests, header buffer,      *)
(* timeout and timer period, with and without failing allocations: the     *)
(* buffers, the answers, the response that is not dropped and the idle     *)
(* timer.                                                                  *)
(***************************************************************************)
EXTENDS ClientTalk, TLAPS

-----------------------------------------------------------------------------
(* What makes the properties inductive. *)

(* Where a header ends: at its blank line or where the buffer is full. *)
HeaderEnd == IF req.hdr = 0 THEN HeaderCap ELSE Least(req.hdr, HeaderCap)

(* The header never passes its end and is whole in all later steps; the    *)
(* content is whole where it is saved.                                     *)
Received ==
  /\ header_len <= HeaderEnd
  /\ data_len <= req.len
  /\ step \notin {"NONE", "READ_HEADER"} => header_len = req.hdr /\ header_len < HeaderCap
  /\ step = "SKYLOG_SAVE" => data_len = req.len

(* Each step is reached only by the requests it is for. *)
Sorted ==
  /\ step \in {"READ_CONTEXT", "SKYLOG_SAVE", "SEND_SUCCESS"} => req.url
  /\ step = "SEND_SUCCESS" => /\ req.gzip /\ req.len > 0 /\ data_len = req.len
                              /\ saved # "no"
  /\ step = "SEND_ERROR" => ~req.url \/ ~req.gzip \/ req.len = 0

(* A response exists only after the last step. *)
RespondsLast == out # "none" \/ delivered # "none" => step = "FINISHED"

(* A callback that talks has just done I/O, with an empty output buffer    *)
(* and a client that is open; a response waits no second for its write.    *)
Fresh ==
  /\ talking => client = "open" /\ out = "none"
  /\ client = "open" /\ (talking \/ out # "none") => idle = 0

(* idle counts from the last I/O, or from a timer callback at most one     *)
(* period after it; the timer keeps it within the timeout.                 *)
TimerBounds ==
  /\ idle <= silent /\ silent <= idle + Period
  /\ zero => silent = idle /\ idle + phase <= Period
  /\ client = "open" => idle + phase <= Timeout + Period

IInv == TypeOK /\ Received /\ Sorted /\ RespondsLast /\ AnswerFitsRequest
          /\ Fresh /\ ResponseNotDropped /\ TimerBounds

-----------------------------------------------------------------------------
(* The type invariant in two parts: the flags and the rest. *)
TypeFlags ==
  /\ lowMemory \in BOOLEAN /\ talking \in BOOLEAN /\ context_buf \in BOOLEAN
  /\ firstSec \in BOOLEAN /\ zero \in BOOLEAN

TypeData ==
  /\ req \in Requests
  /\ unsent \in Nat /\ sock \in Nat /\ input \in Nat
  /\ header_len \in Nat /\ data_len \in Nat
  /\ peer \in {"open", "shut", "reset"}
  /\ client \in {"open", "closed"}
  /\ step \in Steps
  /\ saved \in {"no", "ok", "failed"}
  /\ out \in Responses /\ delivered \in Responses
  /\ idle \in Nat /\ silent \in Nat /\ phase \in 0 .. Period

(* The two parts are the whole. *)
LEMMA TypeParts == (TypeOK <=> TypeFlags /\ TypeData) /\ (TypeOK' <=> TypeFlags' /\ TypeData')
BY DEF TypeOK, TypeFlags, TypeData

(* A request has the fields its readers use. *)
LEMMA RequestFields ==
  ASSUME TypeOK
  PROVE  /\ req.hdr \in Nat /\ req.len \in Nat /\ req.body \in Nat
         /\ req.url \in BOOLEAN /\ req.gzip \in BOOLEAN
BY RequestsAssumption DEF TypeOK

(* A new client satisfies the inductive invariant. *)
LEMMA InitIInv == Init => IInv
<1> SUFFICES ASSUME Init PROVE IInv
  OBVIOUS
<1>1. TypeOK
  <2>1. Total(req) \in Nat
    BY RequestsAssumption, HeaderCapAssumption DEF Init, Total
  <2>2. TypeFlags
    BY DEF Init, TypeFlags
  <2>3. TypeData
    BY <2>1, TimesAssumption DEF Init, TypeData, Steps, Responses
  <2> QED BY <2>2, <2>3, TypeParts
<1>2. Received
  BY <1>1, RequestFields, HeaderCapAssumption DEF Init, Received, HeaderEnd, Least
<1>3. Sorted /\ RespondsLast /\ AnswerFitsRequest /\ Fresh /\ ResponseNotDropped
  BY DEF Init, Sorted, RespondsLast, AnswerFitsRequest, Fresh, ResponseNotDropped
<1>4. TimerBounds
  BY TimesAssumption DEF Init, TimerBounds
<1> QED BY <1>1, <1>2, <1>3, <1>4 DEF IInv

(* What the peer does changes neither buffers nor answers nor times. *)
LEMMA PeerStep ==
  ASSUME IInv, peer_send \/ peer_close PROVE IInv'
<1>1. TypeOK'
  BY DEF IInv, TypeOK, peer_send, peer_close, talkVars, timeVars
<1>2. (Received /\ Sorted /\ RespondsLast /\ AnswerFitsRequest)'
  BY DEF IInv, peer_send, peer_close, talkVars, timeVars, Received, HeaderEnd, Sorted,
         RespondsLast, AnswerFitsRequest
<1>3. (Fresh /\ ResponseNotDropped /\ TimerBounds)'
  BY DEF IInv, peer_send, peer_close, talkVars, timeVars, Fresh, ResponseNotDropped,
         TimerBounds
<1> QED BY <1>1, <1>2, <1>3 DEF IInv

(* The callbacks of the loop, up to client_talk. *)
LEMMA CallbackStep ==
  ASSUME IInv, LoopCallback PROVE IInv'
<1> USE DEF IInv, sockVars, talkVars, timeVars
<1>1. CASE ev_buffered_read_callback
  <2> USE <1>1, TimesAssumption DEF ev_buffered_read_callback, TouchTime, InLoop
  <2>1. TypeOK'
    <3>1. TypeFlags' BY TypeParts DEF TypeFlags
    <3>2. TypeData' BY TypeParts DEF TypeData
    <3> QED BY <3>1, <3>2, TypeParts
  <2>2. (Received /\ Sorted /\ RespondsLast /\ AnswerFitsRequest)'
    BY DEF Received, HeaderEnd, Sorted, RespondsLast, AnswerFitsRequest
  <2>3. (Fresh /\ ResponseNotDropped)' BY DEF Fresh, ResponseNotDropped
  <2>4. TimerBounds' BY DEF TimerBounds, TypeOK
  <2> QED BY <2>1, <2>2, <2>3, <2>4
<1>2. CASE ev_buffered_write_callback
  <2> USE <1>2, TimesAssumption DEF ev_buffered_write_callback, TouchTime, InLoop
  <2>1. TypeOK'
    <3>1. TypeFlags' BY TypeParts DEF TypeFlags
    <3>2. TypeData'
      <4>1. /\ UNCHANGED <<req, unsent, sock, peer, client, step, input, header_len, data_len,
                            saved, phase>>
            /\ delivered' = out /\ out' = "none" /\ idle' = 0 /\ silent' = 0
        OBVIOUS
      <4>2. TypeData
        BY TypeParts
      <4> QED BY ONLY <4>1, <4>2 DEF TypeData, Responses
    <3> QED BY <3>1, <3>2, TypeParts
  <2>2. (Received /\ Sorted /\ RespondsLast)'
    BY DEF Received, HeaderEnd, Sorted, RespondsLast
  <2>3. AnswerFitsRequest' BY DEF AnswerFitsRequest
  <2>4. (Fresh /\ ResponseNotDropped)' BY DEF Fresh, ResponseNotDropped
  <2>5. TimerBounds' BY DEF TimerBounds, TypeOK
  <2> QED BY <2>1, <2>2, <2>3, <2>4, <2>5
<1>3. CASE ev_buffered_error_callback
  <2> USE <1>3 DEF ev_buffered_error_callback, evserver_client_exit, InLoop
  <2>1. TypeOK'
    <3>1. TypeFlags' BY TypeParts DEF TypeFlags
    <3>2. TypeData' BY TypeParts DEF TypeData
    <3> QED BY <3>1, <3>2, TypeParts
  <2>2. (Received /\ Sorted /\ RespondsLast /\ AnswerFitsRequest)'
    BY DEF Received, HeaderEnd, Sorted, RespondsLast, AnswerFitsRequest
  <2>3. (Fresh /\ ResponseNotDropped)' BY DEF Fresh, ResponseNotDropped
  <2>4. TimerBounds' BY DEF TimerBounds
  <2> QED BY <2>1, <2>2, <2>3, <2>4
<1>4. CASE ev_timer_callback
  <2> USE <1>4, TimesAssumption DEF ev_timer_callback, evserver_client_exit, InLoop
  <2>1. TypeOK'
    <3>1. TypeFlags' BY TypeParts DEF TypeFlags
    <3>2. TypeData' BY TypeParts DEF TypeData
    <3> QED BY <3>1, <3>2, TypeParts
  <2>2. (Received /\ Sorted /\ RespondsLast /\ AnswerFitsRequest)'
    BY DEF Received, HeaderEnd, Sorted, RespondsLast, AnswerFitsRequest
  <2>3. (Fresh /\ ResponseNotDropped)' BY DEF Fresh, ResponseNotDropped, TypeOK
  <2>4. TimerBounds' BY DEF TimerBounds, TypeOK
  <2> QED BY <2>1, <2>2, <2>3, <2>4
<1> QED BY <1>1, <1>2, <1>3, <1>4 DEF LoopCallback

(* A second that passes finds nothing to do. *)
LEMMA TickStep ==
  ASSUME IInv, tick PROVE IInv'
<1> USE DEF IInv, sockVars, talkVars, tick, InLoop
<1>1. TypeOK'
  <2>1. TypeFlags' BY TypeParts DEF TypeFlags
  <2>2. TypeData' BY TypeParts, TimesAssumption DEF TypeData
  <2> QED BY <2>1, <2>2, TypeParts
<1>2. (Received /\ Sorted /\ RespondsLast /\ AnswerFitsRequest)'
  BY DEF Received, HeaderEnd, Sorted, RespondsLast, AnswerFitsRequest
<1>3. (Fresh /\ ResponseNotDropped)' BY DEF Fresh, ResponseNotDropped
<1>4. TimerBounds' BY TimesAssumption DEF TimerBounds, TypeOK
<1> QED BY <1>1, <1>2, <1>3, <1>4

(* The steps that receive: the header and the content. *)
LEMMA ReceiveStep ==
  ASSUME IInv, client_talk_recv_header \/ client_talk_recv_context PROVE IInv'
<1> USE RequestFields, HeaderCapAssumption
    DEF IInv, sockVars, timeVars, Again, Once, Finished, evserver_client_exit
<1>1. CASE client_talk_recv_header
  <2> DEFINE n == Least(input, HeaderRoom)
  <2>1. /\ talking /\ step = "READ_HEADER"
        /\ header_len' = header_len + n /\ input' = input - n
        /\ UNCHANGED <<sockVars, context_buf, data_len, saved, out, delivered, timeVars>>
    BY <1>1 DEF client_talk_recv_header
  <2>2. /\ n \in Nat /\ n <= input /\ header_len + n <= HeaderEnd
    BY DEF TypeOK, Received, HeaderEnd, HeaderRoom, Least
  <2> HIDE DEF n
  <2>3. \/ client' = "closed" /\ talking' = FALSE /\ step' = step
        \/ /\ header_len' < HeaderCap /\ header_len' = req.hdr
           /\ step' = "CHECK_URL_PATH" /\ UNCHANGED <<client, talking>>
        \/ talking' = FALSE /\ UNCHANGED <<client, step>>
    BY <1>1 DEF client_talk_recv_header
  <2>4. TypeOK'
    <3>1. TypeFlags' BY <2>1, <2>3, TypeParts DEF TypeFlags
    <3>2. TypeData'
      <4>1. /\ UNCHANGED <<req, unsent, sock, peer, data_len, saved, out, delivered, idle,
                            silent, phase>>
            /\ header_len' = header_len + n /\ input' = input - n
            /\ step' \in {step, "CHECK_URL_PATH"} /\ client' \in {client, "closed"}
        BY <2>1, <2>3
      <4>2. TypeData
        BY TypeParts
      <4> QED BY ONLY <4>1, <4>2, <2>2 DEF TypeData, Steps
    <3> QED BY <3>1, <3>2, TypeParts
  <2>5. Received' BY <2>1, <2>2, <2>3 DEF Received, HeaderEnd, TypeOK
  <2>6. (Sorted /\ RespondsLast)' BY <2>1, <2>3 DEF Sorted, RespondsLast
  <2>7. AnswerFitsRequest' BY <2>1 DEF AnswerFitsRequest, RespondsLast
  <2>8. (Fresh /\ ResponseNotDropped)' BY <2>1, <2>3 DEF Fresh, ResponseNotDropped
  <2>9. TimerBounds' BY <2>1, <2>3 DEF TimerBounds, Fresh
  <2> QED BY <2>4, <2>5, <2>6, <2>7, <2>8, <2>9
<1>2. CASE client_talk_recv_context
  <2> DEFINE n == Least(input, req.len - data_len)
  <2>1. /\ talking /\ step = "READ_CONTEXT"
        /\ UNCHANGED <<sockVars, header_len, saved, out, delivered, timeVars>>
    BY <1>2 DEF client_talk_recv_context
  <2>2. n \in Nat /\ n <= input /\ data_len + n <= req.len
    BY DEF TypeOK, Received, Least
  <2> HIDE DEF n
  <2>3. /\ context_buf' \in BOOLEAN
        /\ \/ UNCHANGED <<input, data_len>>
           \/ data_len' = data_len + n /\ input' = input - n
    BY <1>2 DEF client_talk_recv_context, n, TypeOK
  <2>4. \/ client' = "closed" /\ talking' = FALSE /\ step' = step
        \/ /\ data_len' = req.len
           /\ step' = "SKYLOG_SAVE" /\ UNCHANGED <<client, talking>>
        \/ talking' = FALSE /\ UNCHANGED <<client, step>>
    <3>1. ~HasContent => data_len = req.len
      BY DEF HasContent, TypeOK, Received
    <3>2. CASE ~HasContent /\ Again("SKYLOG_SAVE") /\ UNCHANGED data_len
      BY <3>1, <3>2
    <3>3. CASE Finished /\ UNCHANGED step
      BY <3>3
    <3>4. CASE \/ data_len' = req.len /\ Again("SKYLOG_SAVE")
               \/ data_len' < req.len /\ Once /\ UNCHANGED step
      BY <3>4
    <3> QED BY <1>2, <3>2, <3>3, <3>4 DEF client_talk_recv_context
  <2>5. TypeOK'
    <3>1. TypeFlags' BY <2>1, <2>3, <2>4, TypeParts DEF TypeFlags
    <3>2. TypeData'
      <4>1. /\ UNCHANGED <<req, unsent, sock, peer, header_len, saved, out, delivered, idle,
                            silent, phase>>
            /\ step' \in {step, "SKYLOG_SAVE"} /\ client' \in {client, "closed"}
            /\ \/ UNCHANGED <<input, data_len>>
               \/ data_len' = data_len + n /\ input' = input - n
        BY <2>1, <2>3, <2>4
      <4>2. TypeData
        BY TypeParts
      <4> QED BY ONLY <4>1, <4>2, <2>2 DEF TypeData, Steps
    <3> QED BY <3>1, <3>2, TypeParts
  <2>6. Received' BY <2>1, <2>2, <2>3, <2>4 DEF Received, HeaderEnd, TypeOK
  <2>7. (Sorted /\ RespondsLast)' BY <2>1, <2>4 DEF Sorted, RespondsLast
  <2>8. AnswerFitsRequest' BY <2>1 DEF AnswerFitsRequest, RespondsLast
  <2>9. (Fresh /\ ResponseNotDropped)' BY <2>1, <2>4 DEF Fresh, ResponseNotDropped
  <2>10. TimerBounds' BY <2>1, <2>4 DEF TimerBounds, Fresh
  <2> QED BY <2>5, <2>6, <2>7, <2>8, <2>9, <2>10
<1> QED BY <1>1, <1>2

(* The steps that decide: which request it is and what to answer. *)
LEMMA DecideStep ==
  ASSUME IInv,
         \/ client_option_arg_init
         \/ client_talk_check_request_url_path
         \/ client_talk_skylog_save
         \/ client_talk_response
         \/ client_talk_finished
  PROVE  IInv'
<1> USE RequestFields
    DEF IInv, sockVars, talkVars, timeVars, Again, Once, Finished, evserver_client_exit
<1>1. /\ talking
      /\ UNCHANGED <<sockVars, input, header_len, context_buf, data_len, delivered, timeVars>>
  BY DEF client_option_arg_init, client_talk_check_request_url_path,
         client_talk_skylog_save, client_talk_response, client_talk_finished
<1>2. CASE client_option_arg_init
  <2> USE <1>2 DEF client_option_arg_init
  <2>1. TypeOK'
    <3>1. TypeFlags' BY TypeParts DEF TypeFlags
    <3>2. TypeData' BY TypeParts DEF TypeData, Steps
    <3> QED BY <3>1, <3>2, TypeParts
  <2>2. (Received /\ Sorted /\ RespondsLast /\ AnswerFitsRequest)'
    BY DEF Received, HeaderEnd, Sorted, RespondsLast, AnswerFitsRequest
  <2>3. (Fresh /\ ResponseNotDropped /\ TimerBounds)'
    BY DEF Fresh, ResponseNotDropped, TimerBounds
  <2> QED BY <2>1, <2>2, <2>3
<1>3. CASE client_talk_check_request_url_path
  <2> USE <1>3 DEF client_talk_check_request_url_path
  <2>1. TypeOK'
    <3>1. TypeFlags' BY TypeParts DEF TypeFlags
    <3>2. TypeData' BY TypeParts DEF TypeData, Steps
    <3> QED BY <3>1, <3>2, TypeParts
  <2>2. (Received /\ Sorted /\ RespondsLast /\ AnswerFitsRequest)'
    BY DEF Received, HeaderEnd, Sorted, RespondsLast, AnswerFitsRequest
  <2>3. (Fresh /\ ResponseNotDropped /\ TimerBounds)'
    BY DEF Fresh, ResponseNotDropped, TimerBounds
  <2> QED BY <2>1, <2>2, <2>3
<1>4. CASE client_talk_skylog_save
  <2> USE <1>4 DEF client_talk_skylog_save
  <2>1. TypeOK'
    <3>1. TypeFlags' BY TypeParts DEF TypeFlags
    <3>2. TypeData' BY TypeParts DEF TypeData, Steps
    <3> QED BY <3>1, <3>2, TypeParts
  <2>2. Received' BY DEF Received, HeaderEnd
  <2>3. (Sorted /\ RespondsLast)' BY DEF Received, Sorted, RespondsLast, TypeOK
  <2>4. AnswerFitsRequest' BY DEF AnswerFitsRequest, RespondsLast
  <2>5. (Fresh /\ ResponseNotDropped /\ TimerBounds)'
    BY DEF Fresh, ResponseNotDropped, TimerBounds
  <2> QED BY <2>1, <2>2, <2>3, <2>4, <2>5
<1>5. CASE client_talk_response
  <2> USE <1>5 DEF client_talk_response
  <2>1. TypeOK'
    <3>1. TypeFlags' BY TypeParts DEF TypeFlags
    <3>2. TypeData' BY TypeParts DEF TypeData, Steps, Responses
    <3> QED BY <3>1, <3>2, TypeParts
  <2>2. (Received /\ Sorted /\ RespondsLast)'
    BY DEF Received, HeaderEnd, Sorted, RespondsLast
  <2>3. AnswerFitsRequest'
    BY DEF AnswerFitsRequest, Sorted, Received, RespondsLast, Fresh
  <2>4. (Fresh /\ ResponseNotDropped)' BY DEF Fresh, ResponseNotDropped
  <2>5. TimerBounds' BY DEF TimerBounds
  <2> QED BY <2>1, <2>2, <2>3, <2>4, <2>5
<1>6. CASE client_talk_finished
  <2> USE <1>6 DEF client_talk_finished
  <2>1. TypeOK'
    <3>1. TypeFlags' BY TypeParts DEF TypeFlags
    <3>2. TypeData' BY TypeParts DEF TypeData
    <3> QED BY <3>1, <3>2, TypeParts
  <2>2. (Received /\ Sorted /\ RespondsLast /\ AnswerFitsRequest)'
    BY DEF Received, HeaderEnd, Sorted, RespondsLast, AnswerFitsRequest
  <2>3. (Fresh /\ ResponseNotDropped /\ TimerBounds)'
    BY DEF Fresh, ResponseNotDropped, TimerBounds
  <2> QED BY <2>1, <2>2, <2>3
<1> QED BY <1>2, <1>3, <1>4, <1>5, <1>6

(* The inductive invariant of ClientTalk holds throughout. *)
THEOREM IInvCorrect == Spec => []IInv
<1>1. IInv /\ [Next]_vars => IInv'
  <2> SUFFICES ASSUME IInv, [Next]_vars PROVE IInv'
    OBVIOUS
  <2>1. CASE Next
    BY <2>1, PeerStep, CallbackStep, TickStep, ReceiveStep, DecideStep DEF Next, client_talk
  <2>2. CASE UNCHANGED vars
    <3> USE <2>2 DEF vars, sockVars, talkVars, timeVars, IInv
    <3>1. TypeOK' BY DEF TypeOK
    <3>2. (Received /\ Sorted /\ RespondsLast /\ AnswerFitsRequest)'
      BY DEF Received, HeaderEnd, Sorted, RespondsLast, AnswerFitsRequest
    <3>3. (Fresh /\ ResponseNotDropped /\ TimerBounds)'
      BY DEF Fresh, ResponseNotDropped, TimerBounds
    <3> QED BY <3>1, <3>2, <3>3
  <2> QED BY <2>1, <2>2
<1> QED BY <1>1, InitIInv, PTL DEF Spec

(* Every variable of ClientTalk keeps its type. *)
THEOREM TypeCorrect == Spec => []TypeOK
<1>1. IInv => TypeOK
  BY DEF IInv
<1> QED BY <1>1, IInvCorrect, PTL

(* Neither the header buffer of client_talk_recv_header nor the content    *)
(* buffer of client_talk_recv_context is overrun, and a header that is     *)
(* parsed ends with its zero, however the request is cut into pieces.      *)
THEOREM BuffersHold == Spec => []BuffersNotOverrun
<1>1. IInv => BuffersNotOverrun
  BY DEF IInv, Received, BuffersNotOverrun
<1> QED BY <1>1, IInvCorrect, PTL

(* client_talk answers 200 only to a whole log upload and 400 only to a    *)
(* request that is none.                                                   *)
THEOREM AnswersFit == Spec => []AnswerFitsRequest
<1>1. IInv => AnswerFitsRequest
  BY DEF IInv
<1> QED BY <1>1, IInvCorrect, PTL

(* No callback, the timer's included, closes the connection over a         *)
(* response that waits to be written.                                      *)
THEOREM ResponsesKept == Spec => []ResponseNotDropped
<1>1. IInv => ResponseNotDropped
  BY DEF IInv
<1> QED BY <1>1, IInvCorrect, PTL

(* ev_timer_callback lets no client outlive its timeout by more than a     *)
(* period, or two if its time_count was 0.                                 *)
THEOREM IdleIsBounded == Spec => []IdleBounded
<1>1. IInv => IdleBounded
  BY TimesAssumption DEF IInv, TypeOK, TimerBounds, IdleBounded
<1> QED BY <1>1, IInvCorrect, PTL

(* ev_timer_callback releases no client that did I/O within the timeout. *)
THEOREM NotTimedOutEarly == Spec => TimeoutNotEarly
<1>1. IInv /\ [Next]_vars
        => [client = "open" /\ client' = "closed" /\ ~talking /\ peer = "open"
              => silent > Timeout]_vars
  <2> SUFFICES ASSUME IInv, Next, client = "open", client' = "closed", ~talking,
                      peer = "open"
               PROVE  silent > Timeout
    OBVIOUS
  <2>1. ev_timer_callback
    BY DEF Next, peer_send, peer_close, LoopCallback, client_talk, tick, talkVars, sockVars,
           ev_buffered_read_callback, ev_buffered_write_callback, ev_buffered_error_callback,
           client_option_arg_init, client_talk_recv_header, client_talk_recv_context,
           client_talk_check_request_url_path, client_talk_skylog_save, client_talk_response,
           client_talk_finished
  <2> QED BY <2>1, TimesAssumption DEF ev_timer_callback, IInv, TypeOK, TimerBounds
<1> QED BY <1>1, IInvCorrect, PTL DEF Spec, TimeoutNotEarly
===============================================================================
