---------------------------- MODULE MitmTraffic -----------------------------
(***************************************************************************)
(* The log of the proxy between the servers: the addon appends a line to   *)
(* traffic.jsonl per exchange (scripts/python/lib/mitm/mitmproxy_jsonl.py) *)
(* while a test reads the file, counts what it can parse and later looks   *)
(* only at what comes after that many records                              *)
(* (cypress/support/shared/mitm-traffic.ts). The record and its newline    *)
(* are two writes, each of which may fail at any byte: what follows the    *)
(* last newline of the log is nothing, a piece of a record, or a record    *)
(* without its newline. A reader skips the piece and counts the record;    *)
(* the next line is glued to either, and then neither can be parsed.       *)
(***************************************************************************)
EXTENDS Naturals, Sequences

CONSTANTS
  MaxRecords,   \* bound: exchanges
  MaxErrors     \* bound: lines of connect-errors.v1.jsonl

ASSUME TrafficAssumption == MaxRecords \in Nat /\ MaxErrors \in Nat

VARIABLES
  whole,        \* the lines of the log that can be parsed, as event numbers
  eventSeq,     \* _event_seq
  writing,      \* the event whose line is being written, or 0
  out,          \* its record has got out, the newline is still to come
  tail,         \* what follows the last newline
  recordCount,  \* _record_count
  failures,     \* history: writes that have failed
  connectErrors,\* the kinds in connect-errors.v1.jsonl
  session,      \* record_count of session.json, once it is written
  marker        \* the test's marker; history: the events begun before it,
                \* and the event counted last if its newline was missing

logVars == <<whole, eventSeq, writing, out, tail, recordCount, failures,
             connectErrors, session, marker>>

Unset == [set |-> FALSE, count |-> 0]

NoMarker == [set |-> FALSE, count |-> 0, begun |-> 0, open |-> 0]

(* load truncates both files; no session is written.                       *)
LogInit ==
  /\ whole = <<>> /\ eventSeq = 0 /\ writing = 0
  /\ out = FALSE /\ tail = "none"
  /\ recordCount = 0 /\ failures = 0 /\ connectErrors = <<>>
  /\ session = Unset /\ marker = NoMarker

Kinds == {"name-resolution", "server-connect-refused", "server-connect-timeout",
          "tls-handshake", "client-disconnect", "other"}

LogTypeOK ==
  /\ whole \in Seq(1..MaxRecords)
  /\ eventSeq \in 0..MaxRecords /\ writing \in 0..MaxRecords
  /\ out \in BOOLEAN /\ tail \in {"none", "piece", "record"}
  /\ recordCount \in 0..MaxRecords /\ failures \in Nat
  /\ connectErrors \in Seq(Kinds)
  /\ session \in [set : BOOLEAN, count : Nat]
  /\ marker \in [set : BOOLEAN, count : Nat, begun : Nat, open : Nat]

-----------------------------------------------------------------------------
(* response and error take the lock of _append_jsonl; there are no hooks   *)
(* any more once the proxy is done.                                        *)
BeginRecord ==
  /\ writing = 0 /\ eventSeq < MaxRecords /\ ~session.set
  /\ eventSeq' = eventSeq + 1
  /\ writing' = eventSeq'
  /\ UNCHANGED <<whole, out, tail, recordCount, failures, connectErrors, session,
                 marker>>

(* Mutant: the record is counted whether it got out or not.                *)
CountAfterAny(written) == recordCount + 1

CountAfter(written) == IF written THEN recordCount + 1 ELSE recordCount

(* What can still be parsed once something more is written.                *)
Kept == IF tail = "record" THEN SubSeq(whole, 1, Len(whole) - 1) ELSE whole

(* f.write(line): the first bytes, if a record stands in front of them, and *)
(* the rest.                                                               *)
WritePiece ==
  /\ writing # 0 /\ ~out /\ tail = "record"
  /\ whole' = Kept /\ tail' = "piece"
  /\ UNCHANGED <<eventSeq, writing, out, recordCount, failures, connectErrors,
                 session, marker>>

WriteRecord ==
  /\ writing # 0 /\ ~out /\ out' = TRUE
  /\ \/ tail = "none" /\ whole' = Append(whole, writing) /\ tail' = "record"
     \/ tail # "none" /\ whole' = Kept /\ tail' = "piece"
  /\ UNCHANGED <<eventSeq, writing, recordCount, failures, connectErrors, session,
                 marker>>

(* f.write("\n"), and the count.                                           *)
FinishRecord ==
  /\ out /\ out' = FALSE
  /\ writing' = 0 /\ tail' = "none"
  /\ recordCount' = CountAfter(TRUE)
  /\ UNCHANGED <<whole, eventSeq, failures, connectErrors, session, marker>>

(* Nothing more gets out, or a piece of the record; or all of it does and  *)
(* only closing the file fails.                                            *)
FailRecord ==
  /\ writing # 0
  /\ \/ UNCHANGED <<whole, tail>>
     \/ ~out /\ whole' = Kept /\ tail' = "piece"
     \/ out /\ tail' = "none" /\ UNCHANGED whole
  /\ writing' = 0 /\ out' = FALSE
  /\ failures' = failures + 1
  /\ recordCount' = CountAfter(FALSE)
  /\ UNCHANGED <<eventSeq, connectErrors, session, marker>>

(* _classify_tcp_error, and the kinds of the other two hooks.              *)
TcpKinds        == {"name-resolution", "server-connect-refused",
                    "server-connect-timeout", "other"}
ServerKinds     == {"name-resolution", "other"}
DisconnectKinds == {"tls-handshake", "client-disconnect"}

(* _append_connect_error, with the same lock.                              *)
AppendConnectError(kinds) ==
  /\ writing = 0 /\ Len(connectErrors) < MaxErrors /\ ~session.set
  /\ \E k \in kinds : connectErrors' = Append(connectErrors, k)
  /\ UNCHANGED <<whole, eventSeq, writing, out, tail, recordCount, failures, session,
                 marker>>

TcpError            == AppendConnectError(TcpKinds)
ServerConnect       == AppendConnectError(ServerKinds)
ClientDisconnected  == AppendConnectError(DisconnectKinds)

(* done writes session.json, without the lock.                             *)
Done ==
  /\ ~session.set
  /\ session' = [set |-> TRUE, count |-> recordCount]
  /\ UNCHANGED <<whole, eventSeq, writing, out, tail, recordCount, failures,
                 connectErrors, marker>>

Addon == BeginRecord \/ WritePiece \/ WriteRecord \/ FinishRecord \/ FailRecord
         \/ TcpError \/ ServerConnect \/ ClientDisconnected \/ Done

-----------------------------------------------------------------------------
(* parseMitmTrafficJsonl.                                                  *)
Parsed == whole

(* Mutant: a line that cannot be parsed counts as well.                    *)
AfterCountLines == Len(Parsed) + (IF tail = "piece" THEN 1 ELSE 0)

AfterCount == Len(Parsed)

(* captureMitmTrafficScopeMarker.                                          *)
CaptureMarker ==
  /\ marker' = [set |-> TRUE, count |-> AfterCount, begun |-> eventSeq,
                 open |-> IF tail = "record" THEN whole[Len(whole)] ELSE 0]
  /\ UNCHANGED <<whole, eventSeq, writing, out, tail, recordCount, failures,
                 connectErrors, session>>

(* Mutant: the slice starts one record too early.                          *)
InScopeFrom(k) == k >= marker.count

(* recordsAfterMarker: which of the parsed records the slice has.          *)
InScope(k) == k > marker.count

LogNext == Addon \/ CaptureMarker

LogSpec == LogInit /\ [][LogNext]_logVars

-----------------------------------------------------------------------------
(* The marker ignores what earlier retries left in the log: of the events  *)
(* that had begun before it at most one, whose line was just then being    *)
(* written, is taken for a new one.                                        *)
AtMostOneStaleRecord ==
  marker.set =>
    \A j, k \in DOMAIN Parsed :
      (/\ InScope(j) /\ Parsed[j] <= marker.begun
       /\ InScope(k) /\ Parsed[k] <= marker.begun) => j = k

(* A record of an event after the marker is ignored in one case only: it   *)
(* stands in the place of a record that the marker counted while its       *)
(* newline was missing, and that was lost when that write failed and the   *)
(* next line was glued to it. So one new record at most is ignored,        *)
(* whatever else was unfinished or failed.                                 *)
NewRecordsAreInScope ==
  marker.set =>
    \A k \in DOMAIN Parsed :
      Parsed[k] > marker.begun =>
        \/ InScope(k)
        \/ /\ k = marker.count
           /\ marker.open # 0
           /\ \A i \in DOMAIN Parsed : Parsed[i] # marker.open

(* The count in session.json is that of the log, but for a record that was *)
(* unfinished when the proxy stopped and one line per failed write, which  *)
(* may have lost a record or only have been reported as failed.            *)
SessionCountsTheLog ==
  session.set =>
    /\ Len(Parsed) <= session.count + failures + 1
    /\ session.count <= Len(Parsed) + failures

=============================================================================
