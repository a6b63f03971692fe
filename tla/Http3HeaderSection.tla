-------------------------- MODULE Http3HeaderSection --------------------------
(***************************************************************************)
(* Decoded HTTP/3 field sections, as far as sequencing and content         *)
(* accounting tell them apart, and the role that analyzing one yields      *)
(* (src/http3/headers.rs, and the reading of Content-Length and :status in *)
(* src/http3/content.rs).                                                  *)
(***************************************************************************)
EXTENDS Integers

\* The largest length that fits its integer (u64::MAX).
CONSTANT LengthLimit

ASSUME LengthLimitAssumption == LengthLimit \in Nat

\* The pseudo-fields of a section: a valid request, a valid CONNECT (ordinary or
\* extended), a status, none at all; or fields that no context admits.
Forms == {"request", "connect", "response", "regular", "malformed"}

\* "lengths" are the members of all its Content-Length values; a negative one
\* stands for text that is not a number.  "status" is 0 without a status.
Section == {section \in [form : Forms, status : Nat, lengths : SUBSET Int] :
              section.form # "response" => section.status = 0}

\* The intended role of a section, chosen by the caller before analyzing it.
Contexts == {"Request", "Response", "Trailers"}

-----------------------------------------------------------------------------
IsRequest(section) == section.form \in {"request", "connect"}

IsInformational(section) ==
  section.form = "response" /\ section.status \in (100 .. 199) \ {101}

IsFinal(section) == section.form = "response" /\ section.status \in 200 .. 599

\* The role of a section in a context, or "Invalid".
Analyzed(section, context) ==
  IF context = "Request" /\ IsRequest(section) THEN "Request"
  ELSE IF context = "Response" /\ IsInformational(section) THEN
       "InformationalResponse"
  ELSE IF context = "Response" /\ IsFinal(section) THEN "FinalResponse"
  ELSE IF context = "Trailers" /\ section.form = "regular" THEN "Trailers"
  ELSE "Invalid"

-----------------------------------------------------------------------------
HasContentLength(section) == section.lengths # {}

\* Every member is a number that fits, and they agree.
HasValidLengths(section) ==
  /\ section.lengths \subseteq 0 .. LengthLimit
  /\ \A m, n \in section.lengths : m = n
=============================================================================
