---------------------------- MODULE MCHttp3Message ----------------------------
(* An instance of Http3Message for TLC: sections of every form and of every  *)
(* class of status, with no length, a length, a length out of range, and     *)
(* two that disagree.                                                        *)
EXTENDS Http3Message

Plain(form) == [form |-> form, status |-> 0, lengths |-> {}]
Sized(form, lengths) == [form |-> form, status |-> 0, lengths |-> lengths]
Response(status, lengths) == [form |-> "response", status |-> status, lengths |-> lengths]

MCSections ==
  {Plain(form) : form \in Forms \ {"response"}}
    \cup {Sized("request", {1}), Sized("request", {1, 2}), Sized("connect", {1}),
          Sized("request", {4}), Sized("request", {-1}), Sized("regular", {1})}
    \cup {Response(status, lengths) :
            status \in {101, 103, 200, 204, 205, 304, 404}, lengths \in {{}, {2}}}
    \cup {Response(200, {0})}
=============================================================================
