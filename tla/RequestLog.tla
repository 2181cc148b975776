----------------------------- MODULE RequestLog -----------------------------
(***************************************************************************)
(* The rows that the two logging interceptors store about requests:        *)
(* GlobalLoggingInterceptor about every request (api_request_logs), and,   *)
(* inside it, RequestLoggingInterceptor about POST /sensors/data           *)
(* (sensor_request_logs).  A handler that returns is answered at once, and *)
(* both rows are written behind the answer; one that throws is answered    *)
(* after the sensor row, and then the api row, were tried.  Requests that  *)
(* a guard or a limiter refuses never get here.                            *)
(***************************************************************************)
EXTENDS Naturals

CONSTANTS Requests

VARIABLES
  outcome,    \* the status code the handler ended with; 0: it has not ended
  answer,     \* the status code that was sent; 0: none
  sensorLog,  \* the row of sensor_request_logs: "none", "due", "lost", or its status
  apiLog      \* the row of api_request_logs, likewise

SensorStatuses == {"SUCCESS", "VALIDATION_FAILED", "ERROR"}
ApiStatuses == {"SUCCESS", "VALIDATION_ERROR", "CLIENT_ERROR", "SERVER_ERROR"}

\* Faulty: the statuses of the other log.
SensorStatusOfApi(code) ==
  IF code < 400 THEN "SUCCESS" ELSE IF code = 400 THEN "VALIDATION_ERROR" ELSE "SERVER_ERROR"

SensorStatusOf(code) ==
  IF code < 400 THEN "SUCCESS" ELSE IF code = 400 THEN "VALIDATION_FAILED" ELSE "ERROR"

\* getStatus.
ApiStatusOf(code) ==
  CASE code \in 200 .. 299 -> "SUCCESS"
    [] code \in {400, 422} -> "VALIDATION_ERROR"
    [] code \in (400 .. 499) \ {400, 422} -> "CLIENT_ERROR"
    [] OTHER -> "SERVER_ERROR"

Init ==
  /\ outcome = [r \in Requests |-> 0]
  /\ answer = [r \in Requests |-> 0]
  /\ sensorLog = [r \in Requests |-> "none"]
  /\ apiLog = [r \in Requests |-> "none"]

\* The handler ends with `code'; `watched' are the requests for /sensors/data.
End(r, code, watched) ==
  /\ outcome' = [outcome EXCEPT ![r] = code]
  /\ sensorLog' = [sensorLog EXCEPT ![r] = IF watched THEN "due" ELSE "none"]
  /\ apiLog' = [apiLog EXCEPT ![r] = "due"]

Return(r, code, watched) ==
  /\ End(r, code, watched)
  /\ answer' = [answer EXCEPT ![r] = code]

Raise(r, code, watched) ==
  /\ End(r, code, watched)
  /\ UNCHANGED answer

\* Faulty: the row of a failed request says what one of a successful one says.
WriteSensorLogAlike(r, hasBody) ==
  /\ sensorLog[r] = "due"
  /\ sensorLog' = [sensorLog EXCEPT ![r] = "SUCCESS"]
  /\ UNCHANGED <<outcome, answer, apiLog>>

\* The INSERT, or its failure, which is only logged.  rawRequest is the body as
\* text and may not be null: a request without a body has no row.  Its httpStatus
\* is left out: that of the error, and 200 of every success, though POST answers 201.
WriteSensorLog(r, hasBody) ==
  /\ sensorLog[r] = "due"
  /\ \E row \in {"lost"} \cup (IF hasBody THEN {SensorStatusOf(outcome[r])} ELSE {}) :
       sensorLog' = [sensorLog EXCEPT ![r] = row]
  /\ UNCHANGED <<outcome, answer, apiLog>>

\* Faulty: a request whose row cannot be written is not answered.
WriteApiLogThenAnswer(r) ==
  /\ apiLog[r] = "due"
  /\ answer[r] # 0 \/ sensorLog[r] # "due"
  /\ \E row \in {"lost", ApiStatusOf(outcome[r])} :
       /\ apiLog' = [apiLog EXCEPT ![r] = row]
       /\ answer' = IF row = "lost" THEN answer ELSE [answer EXCEPT ![r] = outcome[r]]
  /\ UNCHANGED <<outcome, sensorLog>>

\* The INSERT, or its failure; an error is answered only now.
WriteApiLog(r) ==
  /\ apiLog[r] = "due"
  /\ answer[r] # 0 \/ sensorLog[r] # "due"
  /\ \E row \in {"lost", ApiStatusOf(outcome[r])} : apiLog' = [apiLog EXCEPT ![r] = row]
  /\ answer' = [answer EXCEPT ![r] = outcome[r]]
  /\ UNCHANGED <<outcome, sensorLog>>

\* The process dies: rows that are due are never written.
Restart ==
  LET Dropped(log) == [r \in Requests |-> IF log[r] = "due" THEN "lost" ELSE log[r]]
  IN /\ sensorLog' = Dropped(sensorLog)
     /\ apiLog' = Dropped(apiLog)
     /\ UNCHANGED <<outcome, answer>>
=============================================================================
