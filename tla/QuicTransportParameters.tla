------------------------ MODULE QuicTransportParameters ------------------------
(***************************************************************************)
(* QUIC transport parameters (src/src/quic/transport_parameters): the list *)
(* of identifiers and values a TLS extension carries, the rules of version *)
(* 1 on what either end may send, and the check of a handshake against the *)
(* connection IDs that its packets have used.                              *)
(***************************************************************************)
EXTENDS QuicVarInt

ORIGINAL_DESTINATION_CONNECTION_ID == 0
STATELESS_RESET_TOKEN == 2
MAX_UDP_PAYLOAD_SIZE == 3
MAX_STREAMS_PARAMETERS == {8, 9}
ACK_DELAY_EXPONENT == 10
MAX_ACK_DELAY == 11
DISABLE_ACTIVE_MIGRATION == 12
PREFERRED_ADDRESS == 13
ACTIVE_CONNECTION_ID_LIMIT == 14
INITIAL_SOURCE_CONNECTION_ID == 15
RETRY_SOURCE_CONNECTION_ID == 16

ConnectionIds == {ORIGINAL_DESTINATION_CONNECTION_ID, INITIAL_SOURCE_CONNECTION_ID,
                  RETRY_SOURCE_CONNECTION_ID}
ServerOnly == {ORIGINAL_DESTINATION_CONNECTION_ID, STATELESS_RESET_TOKEN,
               PREFERRED_ADDRESS, RETRY_SOURCE_CONNECTION_ID}
IntegerParameters == {1, 4, 5, 6, 7, MAX_UDP_PAYLOAD_SIZE, ACK_DELAY_EXPONENT,
                      MAX_ACK_DELAY, ACTIVE_CONNECTION_ID_LIMIT}
                         \cup MAX_STREAMS_PARAMETERS

----------------------------------------------------------------------------
(* The list *)

\* parse_at: an identifier, and a value behind its length.
HasParameter(bytes) == HasVarInt(bytes) /\ HasBlock(AfterVarInt(bytes))

\* A list is read as the sequence of its parameters, or is Malformed.
Malformed == <<[id |-> -1]>>

Distinct(list) == \A j, k \in DOMAIN list : list[j].id = list[k].id => j = k

OnlyDistinct(list) ==
    IF (\A k \in DOMAIN list : list[k].id # -1) /\ Distinct(list) THEN list ELSE Malformed

\* QuicTransportParameters::parse
ParametersIn(bytes) ==
    LET from[i \in 1 .. (Len(bytes) + 1)] ==
            LET parameter == From(bytes, i)
                value == AfterVarInt(parameter)
            IN  IF parameter = <<>> THEN <<>>
                ELSE IF ~HasParameter(parameter) THEN Malformed
                ELSE <<[id |-> VarIntIn(parameter), value |-> Block(value)]>>
                         \o from[Len(bytes) + 1 - Len(AfterBlock(value))]
    IN  OnlyDistinct(from[1])

----------------------------------------------------------------------------
(* The rules of version 1 on the sender and the values *)

MaximumCidLength == 20
TokenLength == 16
AddressesLength == 24

\* parse_preferred_address: two addresses with ports, a connection ID, a token, no more.
IsPreferredAddress(value) ==
    LET cid == value[AddressesLength + 1]
    IN  /\ Len(value) > AddressesLength
        /\ cid \in 1 .. MaximumCidLength
        /\ Len(value) = AddressesLength + 1 + cid + TokenLength

IntegerFollowsRules(id, value) ==
    /\ id = MAX_UDP_PAYLOAD_SIZE => value >= 1200
    /\ id \in MAX_STREAMS_PARAMETERS => value <= (Unit \div 4) * ByteValues^7
    /\ id = ACK_DELAY_EXPONENT => value <= 20
    /\ id = MAX_ACK_DELAY => value < 16384
    /\ id = ACTIVE_CONNECTION_ID_LIMIT => value >= 2

\* validate_parameter.  A parameter that is not known may have any value.
ParameterFollowsRules(parameter, sender) ==
    LET id == parameter.id
        value == parameter.value
    IN  /\ sender = "Client" => id \notin ServerOnly
        /\ id \in ConnectionIds => Len(value) <= MaximumCidLength
        /\ id \in IntegerParameters =>
              IsOneVarInt(value) /\ IntegerFollowsRules(id, VarIntIn(value))
        /\ id = STATELESS_RESET_TOKEN => Len(value) = TokenLength
        /\ id = DISABLE_ACTIVE_MIGRATION => value = <<>>
        /\ id = PREFERRED_ADDRESS => IsPreferredAddress(value)

FollowsVersion1(list, sender) ==
    \A k \in DOMAIN list : ParameterFollowsRules(list[k], sender)

----------------------------------------------------------------------------
(* The check against the connection IDs of the handshake.  A context holds  *)
(* the source connection ID of the sender's first Initial, and about a      *)
(* server also the destination of the client's first and the source of its  *)
(* Retry, <<>> when there was none and else <<the connection ID>>.           *)

Values(list, id) == {list[k].value : k \in {k \in DOMAIN list : list[k].id = id}}

\* Mutant: a server that leaves the source of its Retry out is believed.
IsAuthenticWithoutRetry(list, sender, context) ==
    /\ Values(list, INITIAL_SOURCE_CONNECTION_ID) = {context.initial}
    /\ sender = "Server" =>
          /\ Values(list, ORIGINAL_DESTINATION_CONNECTION_ID) = {context.original}
          /\ Values(list, RETRY_SOURCE_CONNECTION_ID)
                \subseteq {context.retry[k] : k \in DOMAIN context.retry}

\* validate_handshake
IsAuthentic(list, sender, context) ==
    /\ Values(list, INITIAL_SOURCE_CONNECTION_ID) = {context.initial}
    /\ sender = "Server" =>
          /\ Values(list, ORIGINAL_DESTINATION_CONNECTION_ID) = {context.original}
          /\ Values(list, RETRY_SOURCE_CONNECTION_ID)
                = {context.retry[k] : k \in DOMAIN context.retry}

\* What an endpoint makes of the other's extension: parse, validate_v1, validate_handshake.
Accepted(bytes, sender, context) ==
    LET list == ParametersIn(bytes)
    IN  IF list = Malformed THEN FALSE
        ELSE FollowsVersion1(list, sender) /\ IsAuthentic(list, sender, context)

=============================================================================
