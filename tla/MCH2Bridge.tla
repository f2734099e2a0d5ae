----------------------------- MODULE MCH2Bridge -----------------------------
(***************************************************************************)
(* Responses of every framing, with and without content and trailers.      *)
(***************************************************************************)
EXTENDS H2Bridge

Plan(framing, tokens) == [framing |-> framing, tokens |-> tokens]
Chunk == <<"size", "data", "crlf">>

MCResponses ==
    { Plan("none", <<>>), Plan("none", <<"data">>), Plan("upgrade", <<"data">>),
      Plan("length", <<>>), Plan("length", <<"data", "data">>),
      Plan("close", <<"data", "data">>),
      Plan("chunked", Chunk \o Chunk \o <<"last", "crlf">>),
      Plan("chunked", Chunk \o <<"last", "trailers">>) }
=============================================================================
