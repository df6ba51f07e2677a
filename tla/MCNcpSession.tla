----------------------------- MODULE MCNcpSession -----------------------------
(***************************************************************************)
(* Clients with every pair of relevant preferences, one whose version the  *)
(* server does not speak, and a server with the default profile, scaled    *)
(* down: a short header carries at most ShortMax payload bytes.            *)
(***************************************************************************)
EXTENDS NcpSession

Profile == [min |-> <<0, 1>>, max |-> <<0, 11>>,
            encodings |-> {"msgpack", "json", "binary_vector.v1"},
            protocols |-> {"ncp", "nwp"}, payload |-> 3, ext |-> FALSE, streams |-> 32]

HelloOf(encodings) ==
    [min |-> "absent", max |-> <<0, 11>>, encodings |-> encodings,
     protocols |-> <<"ncp", "nwp">>, payload |-> 3, ext |-> FALSE, streams |-> 1]

ClientHellos == {HelloOf(<<"json", "msgpack">>),
                 HelloOf(<<"binary_vector.v1", "msgpack">>),
                 [HelloOf(<<"json">>) EXCEPT !.max = <<1, 0>>]}

\* The serving loop's defaults: MsgPack.
MsgPackHellos == {HelloOf(<<"msgpack">>)}

=============================================================================
