--------------------------- MODULE MCInterfaceSteps --------------------------
(* Instances of InterfaceSteps for TLC.                                       *)
EXTENDS InterfaceSteps

(* A parent with two interfaces, each followed by an assertion, and another   *)
(* iteration that sends the first interface as well.                          *)
TwoQueues == [p |-> <<"i", "j", "a">>, q |-> <<"k", "b">>]
SentBy == [i |-> "upload", j |-> "query", k |-> "upload", a |-> "none", b |-> "none"]
Bodies == [upload |-> "form-data", query |-> "json"]

Scripts ==
  [upload |-> { <<>>, <<"update_body_file", "cover_headers">>,
                <<"cover_url", "generate_url">>, <<"generate_url">> },
   query  |-> { <<>>, <<"cover_body_text", "cover_params">>, <<"generate_body">>,
                <<"cover_body_none">> }]
=============================================================================
