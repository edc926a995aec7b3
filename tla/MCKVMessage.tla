----------------------------- MODULE MCKVMessage ----------------------------
(* Instances of KVMessage for TLC.                                         *)
EXTENDS KVMessage

(* Keys and values: plain, empty, with the characters of a query that need *)
(* no escape, and too long for the buffer of url_encode.  A space, newline *)
(* or "&" cannot be in them: they come out of a URL.                       *)
Texts == {<<"a">>, << >>, <<"b", "=", "?">>, <<"key">>, <<"long">>}

MeantRequests ==
  {kvrequest(t, k, NULL) : t \in {"GETREQ", "DELREQ"}, k \in Texts}
    \cup {kvrequest(t, k, v) : t \in {"PUTREQ", "REGISTER"}, k \in Texts, v \in Texts}

Urls ==
  {<<"/">>, <<"/", "?">>, <<"a">>, <<"/", "commit">>, <<"/", "nothing", "?", "key", "=", "a">>,
   <<"/", "?", "=", "a">>, <<"/", "?", "key">>, <<"/", "?", "val", "&", "key", "=", "a">>,
   <<"/", "?", "key", "=", "a", "&", "key", "=", "b", "&">>,
   <<"/", "?", "val", "=", "a", "&", "x", "=", "c", "&", "key", "=", "b">>,
   <<"/", "abort", "?", "key", "=", "=", "a", "&", "val", "=">>}

TypedTexts ==
  {<<m, "SP">> \o u \o <<"SP", "HTTP/1.1", "\r\n", "\r\n">> :
     m \in {"GET", "PUT", "DELETE", "POST", "PATCH"}, u \in Urls}

TextWords ==
  Marks \cup {"a", "b", "c", "x", "v", "w", "long", "nothing", "PATCH"}

StoreValues == {<<"v", "w">>, << >>}
LongWords   == {"long"}
=============================================================================
