----------------------------- MODULE KVMessage ------------------------------
(***************************************************************************)
(* How requests and responses travel: hw4/src/kvmessage.c over libhttp.c   *)
(* and liburl.c.  A text is a sequence of words ("PUT", "/", "?", "key",   *)
(* "=", ...; a space is "SP"), which may be cut between any two of them:   *)
(* what a cut within a word does is what the cut before it does.           *)
(*                                                                         *)
(* The receiver makes a single read() and takes what has come so far for   *)
(* the whole message.  One request is followed from a client to the leader *)
(* (tpcleader_handle), on to a follower (kvserver_handle), through both    *)
(* phases, and its answer all the way back.                                *)
(***************************************************************************)
EXTENDS Integers, SequencesExt

CONSTANTS
  Words,       \* the words that a text is made of
  Meant,       \* the requests that clients send with kvrequest_send
  Typed,       \* the texts that other clients send
  Bodies,      \* the values of the store
  TooLong,     \* words with which a URL outgrows the buffer of url_encode
  NULL

kvrequest(type, key, val) == [type |-> type, key |-> key, val |-> val]
kvresponse(type, body)    == [type |-> type, body |-> body]

(* The words that the code writes itself.                                  *)
Marks == {"GET", "PUT", "DELETE", "POST", "/", "register", "commit", "abort", "?", "key",
          "val", "=", "&", "SP", "HTTP/1.1", "\r\n", "200", "201", "202", "204", "500",
          "status", "Content-Length", ":", "length", "com", "mit", "error", "reason"}

(* A key or a value is a part of a URL, and of one parameter of it: a      *)
(* request line ends its URL with a space or a newline, and url_decode a   *)
(* value with "&".  (The hostname and the port that a follower registers   *)
(* have none of them; nothing is escaped.)                                 *)
IsParam(s) ==
  s \in Seq(Words) /\ \A i \in 1 .. Len(s) : s[i] \notin {"SP", "\n", "\r\n", "&"}

ASSUME MessageAssumption ==
  /\ Marks \subseteq Words
  /\ Typed \cup Bodies \subseteq Seq(Words)
  /\ NULL \notin Meant \cup Seq(Words)
  /\ \A r \in Meant :
       /\ r = kvrequest(r.type, r.key, r.val)
       /\ r.type \in {"GETREQ", "PUTREQ", "DELREQ", "REGISTER"}
       /\ IsParam(r.key)
       /\ r.val = NULL \/ IsParam(r.val)

VARIABLES
  leg,         \* the message under way, "done", or "dead" (with the leader)
  out,         \* its words not yet sent
  wire,        \* its words not yet read
  meant,       \* the client's request (NULL: it has typed a text)
  lreq, freq,  \* the last request decoded by the leader, and by the follower
  sent, rcvd,  \* the last response encoded, and decoded
  vote,        \* the follower's response to the request, when it is sent
  is_commit

vars == <<leg, out, wire, meant, lreq, freq, sent, rcvd, vote, is_commit>>

-----------------------------------------------------------------------------
(* Encoding a request (liburl.c, libhttp.c).                               *)
Method == [GETREQ |-> "GET", PUTREQ |-> "PUT", DELREQ |-> "DELETE",
           REGISTER |-> "POST", COMMIT |-> "POST", ABORT |-> "POST"]
Path(type) ==
  CASE type = "REGISTER" -> <<"register">>
    [] type = "COMMIT"   -> <<"commit">>
    [] type = "ABORT"    -> <<"abort">>
    [] OTHER             -> << >>

(* The last character, an "&" or the "?" without parameters, is cut off.   *)
url_encode(path, key, val) ==
  Front(<<"/">> \o path \o <<"?">>
          \o (IF key = NULL THEN << >> ELSE <<"key", "=">> \o key \o <<"&">>)
          \o (IF val = NULL THEN << >> ELSE <<"val", "=">> \o val \o <<"&">>))

kvrequest_send(r) ==
  <<Method[r.type], "SP">> \o url_encode(Path(r.type), r.key, r.val)
    \o <<"SP", "HTTP/1.1", "\r\n", "\r\n">>

(* The buffer of url_encode has 128 places.                                *)
Overflows(r) ==
  \E s \in {r.key, r.val} \ {NULL} : \E i \in DOMAIN s : s[i] \in TooLong

-----------------------------------------------------------------------------
(* Decoding a request.                                                     *)
Find(s, words) == SelectInSeq(s, LAMBDA x : x \in words)   \* strchr, strcspn; or 0
From(s, i) == SubSeq(s, i, Len(s))

(* The parameter that starts at i of a query: its name is what stands      *)
(* before the next "=", its value what follows up to the next "&".         *)
Name(q, i) ==
  IF Find(From(q, i), {"="}) = 0 THEN NULL
  ELSE SubSeq(q, i, i + Find(From(q, i), {"="}) - 2)

Value(q, i) ==
  LET amp == Find(From(q, i), {"&"}) IN
  SubSeq(q, i + Find(From(q, i), {"="}), IF amp = 0 THEN Len(q) ELSE i + amp - 2)

(* The last parameter with one of these names, or NULL.                    *)
Param(q, names) ==
  LET starts == {i \in 1 .. Len(q) : (i = 1 \/ q[i - 1] = "&") /\ Name(q, i) \in names}
  IN IF starts = {} THEN NULL
     ELSE Value(q, CHOOSE i \in starts : \A j \in starts : j <= i)

(* A name need only be a prefix of "key" or "val", and "key" comes first.  *)
url_decode(url) ==
  LET mark  == Find(url, {"?"})
      path  == SubSeq(url, 2, IF mark = 0 THEN Len(url) ELSE mark - 1)
      query == IF mark = 0 THEN << >> ELSE From(url, mark + 1)
  IN [path |-> path,
      key  |-> Param(query, {<< >>, <<"key">>}),
      val  |-> Param(query, {<<"val">>})]

(* Mutant of Url: the text may end within the path.                        *)
UrlUnended(text) ==
  LET start == Find(text, {"SP"}) + 1
      end   == Find(From(text, start), {"SP"})
  IN SubSeq(text, start, IF end = 0 THEN Len(text) ELSE start + end - 2)

(* http_request_parse: a method, a space, and a path up to the next space  *)
(* or newline; << >> if there is none.                                     *)
Url(text) ==
  LET start == Find(text, {"SP"}) + 1
      end   == Find(From(text, start), {"SP", "\n", "\r\n"})
  IN IF start = 1 \/ start > Len(text) \/ end = 0 THEN << >>
     ELSE SubSeq(text, start, start + end - 2)

kvrequest_recieve(text) ==
  LET url    == Url(text)
      method == text[1]
      p      == url_decode(url)
      type   == CASE method = "GET" /\ p.key = NULL                           -> "INDEX"
                  [] method = "GET" /\ p.key # NULL                           -> "GETREQ"
                  [] method = "PUT" /\ p.key # NULL /\ p.val # NULL           -> "PUTREQ"
                  [] method = "DELETE" /\ p.key # NULL                        -> "DELREQ"
                  [] method = "POST" /\ p.path = <<"register">>
                       /\ p.key # NULL /\ p.val # NULL                        -> "REGISTER"
                  [] method = "POST" /\ p.path = <<"commit">>                 -> "COMMIT"
                  [] method = "POST" /\ p.path = <<"abort">>                  -> "ABORT"
                  [] OTHER                                                    -> "EMPTY"
  IN IF url = << >> \/ Head(url) # "/" \/ type = "EMPTY" THEN NULL
     ELSE kvrequest(type, p.key, p.val)

-----------------------------------------------------------------------------
(* Responses.                                                              *)
Code == [GETRESP |-> "200", SUCCESS |-> "201", ERROR |-> "500", VOTE |-> "202",
         ACK |-> "204"]

NoBody(body) == IF body = NULL THEN << >> ELSE body

kvresponse_send(r) ==
  <<"HTTP/1.1", "SP", Code[r.type], "SP", "status", "\r\n",
    "Content-Length", ":", "length", "\r\n", "\r\n">> \o NoBody(r.body)

(* Mutant of Headers: the first empty line is not waited for.              *)
HeadersShort(text) == SelectInSeq(text, LAMBDA x : x = "\r\n")

(* http_response_parse: the headers end with the first empty line, and are *)
(* malformed without one; what follows is the body, whatever its length    *)
(* was to be.                                                              *)
Headers(text) ==
  LET ends == {i \in 2 .. Len(text) : text[i] = "\r\n" /\ text[i - 1] = "\r\n"} IN
  IF ends = {} THEN 0 ELSE CHOOSE i \in ends : \A j \in ends : i <= j

kvresponse_recieve(text) ==
  IF Headers(text) = 0 THEN NULL
  ELSE kvresponse(CHOOSE t \in DOMAIN Code : Code[t] = text[3], From(text, Headers(text) + 1))

-----------------------------------------------------------------------------
Agree  == <<"com", "mit">>                \* MSG_COMMIT
Reason == <<"error", "reason">>         \* any of the error messages
Decision == kvrequest(IF is_commit THEN "COMMIT" ELSE "ABORT", NULL, NULL)

(* The responses a follower can give, in whatever state it is.             *)
Answers(r) ==
  IF r = NULL THEN {kvresponse("ERROR", Reason)}
  ELSE CASE r.type = "GETREQ" ->
              {kvresponse("GETRESP", b) : b \in Bodies} \cup {kvresponse("ERROR", Reason)}
         [] r.type \in {"PUTREQ", "DELREQ"} ->
              {kvresponse("VOTE", Agree), kvresponse("VOTE", Reason), kvresponse("ERROR", Reason)}
         [] r.type \in {"COMMIT", "ABORT"} -> {kvresponse("ACK", NULL)}

(* A message is sent on the next leg.                                      *)
Send(next, text) == leg' = next /\ out' = text /\ wire' = << >>

(* No message follows.                                                     *)
Stop(next) == leg' = next /\ out' = << >> /\ wire' = << >>

Init ==
  /\ \/ meant \in Meant /\ out = kvrequest_send(meant)
     \/ meant = NULL /\ out \in Typed
  /\ leg = "request"
  /\ wire = << >>
  /\ lreq = NULL /\ freq = NULL
  /\ sent = NULL /\ rcvd = NULL /\ vote = NULL
  /\ is_commit = FALSE

(* http_send_and_free: a write takes some of what is left.                 *)
Write ==
  /\ \E n \in 1 .. Len(out) :
       /\ wire' = wire \o SubSeq(out, 1, n)
       /\ out' = From(out, n + 1)
  /\ UNCHANGED <<leg, meant, lreq, freq, sent, rcvd, vote, is_commit>>

(* The sender is gone, or has kept the receiver waiting for too long.      *)
Cut ==
  /\ out # << >>
  /\ out' = << >>
  /\ UNCHANGED <<leg, wire, meant, lreq, freq, sent, rcvd, vote, is_commit>>

(* read() returns: what is there, or nothing when the sender is gone.      *)
Arrived(l) == leg = l /\ (wire # << >> \/ out = << >>)

(* tpcleader_handle.  It prints the fields of what it has received, NULL   *)
(* or not; and url_encode may not survive a long key or value.             *)
LeaderReads ==
  /\ Arrived("request")
  /\ lreq' = (IF wire = << >> THEN NULL ELSE kvrequest_recieve(wire))
  /\ \/ lreq' = NULL /\ Stop("dead") /\ UNCHANGED sent
     \/ lreq' # NULL /\ lreq'.type = "INDEX" /\ Stop("done") /\ UNCHANGED sent
     \/ /\ lreq' # NULL /\ lreq'.type \in {"COMMIT", "ABORT", "REGISTER"}
        /\ sent' \in {kvresponse("ERROR", Reason)}
             \cup (IF lreq'.type = "REGISTER" THEN {kvresponse("SUCCESS", NULL)} ELSE {})
        /\ Send("answer", kvresponse_send(sent'))
     \/ /\ lreq' # NULL /\ lreq'.type \in {"GETREQ", "PUTREQ", "DELREQ"}
        /\ \/ Send("op", kvrequest_send(lreq'))
           \/ Overflows(lreq') /\ Stop("dead")
        /\ UNCHANGED sent
  /\ UNCHANGED <<meant, freq, rcvd, vote, is_commit>>

(* kvserver_handle: the request, and then the decision.                    *)
FollowerReads ==
  /\ Arrived("op") \/ Arrived("decision")
  /\ freq' = (IF wire = << >> THEN NULL ELSE kvrequest_recieve(wire))
  /\ sent' \in Answers(freq')
  /\ vote' = IF leg = "op" THEN sent' ELSE vote
  /\ Send(IF leg = "op" THEN "vote" ELSE "ack", kvresponse_send(sent'))
  /\ UNCHANGED <<meant, lreq, rcvd, is_commit>>

(* Mutant of Agreed: the body is compared up to its own length.            *)
AgreedPrefix(r) == r # NULL /\ IsPrefix(r.body, Agree)

(* The test of a vote in tpcleader_handle_tpc, whatever its type.          *)
Agreed(r) == r # NULL /\ r.body = Agree

(* tpcleader_handle_get and tpcleader_handle_tpc, for the only replica.    *)
LeaderHears ==
  /\ Arrived("vote") \/ Arrived("ack")
  /\ rcvd' = kvresponse_recieve(wire)
  /\ \/ /\ leg = "vote" /\ lreq.type = "GETREQ"
        /\ \/ rcvd' = NULL /\ Stop("dead") /\ UNCHANGED sent
           \/ /\ rcvd' # NULL
              /\ sent' = IF rcvd'.type = "GETRESP" THEN rcvd' ELSE kvresponse("ERROR", Reason)
              /\ Send("answer", kvresponse_send(sent'))
        /\ UNCHANGED is_commit
     \/ /\ leg = "vote" /\ lreq.type # "GETREQ"
        /\ is_commit' = Agreed(rcvd')
        /\ Send("decision", kvrequest_send(Decision'))
        /\ UNCHANGED sent
     \/ /\ leg = "ack"
        /\ \/ /\ rcvd' # NULL /\ rcvd'.type = "ACK"
              /\ sent' = IF is_commit THEN kvresponse("SUCCESS", NULL)
                                      ELSE kvresponse("ERROR", Reason)
              /\ Send("answer", kvresponse_send(sent'))
           \/ /\ ~(rcvd' # NULL /\ rcvd'.type = "ACK")
              /\ Send("decision", kvrequest_send(Decision))
              /\ UNCHANGED sent
        /\ UNCHANGED is_commit
  /\ UNCHANGED <<meant, lreq, freq, vote>>

(* The client, or kvserver_register_leader of a follower that registers.   *)
ClientHears ==
  /\ Arrived("answer")
  /\ rcvd' = kvresponse_recieve(wire)
  /\ Stop("done")
  /\ UNCHANGED <<meant, lreq, freq, sent, vote, is_commit>>

Next == Write \/ Cut \/ LeaderReads \/ FollowerReads \/ LeaderHears \/ ClientHears

Spec == Init /\ [][Next]_vars

-----------------------------------------------------------------------------
(* A request reaches the leader as the client meant it, and the follower   *)
(* as the leader has read it, or as NULL: wherever it is cut, and whatever *)
(* the client has typed, no other key, value or type is ever acted on      *)
(* (kvrequest_recieve of a partial read, url_decode of url_encode).        *)
RequestIntact ==
  /\ meant # NULL /\ lreq # NULL => lreq = meant
  /\ leg = "vote" /\ freq # NULL => freq = lreq
  /\ leg = "ack" /\ freq # NULL => freq = Decision

(* The leader decides to commit only if the follower's vote was to commit, *)
(* although it looks at the body only and the body may be cut              *)
(* (tpcleader_handle_tpc, strcmp).                                         *)
CommitWasVoted == is_commit => vote = kvresponse("VOTE", Agree)

(* A response is received with its type, and with its body or, since       *)
(* nobody looks at Content-Length after the cut, a part of it: never with  *)
(* anything the sender did not say (http_response_parse).                  *)
ResponseIsPrefix ==
  leg \in {"done", "decision"} /\ sent # NULL /\ rcvd # NULL =>
    rcvd.type = sent.type /\ IsPrefix(rcvd.body, NoBody(sent.body))
=============================================================================
