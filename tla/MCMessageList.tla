---------------------------- MODULE MCMessageList ---------------------------
(***************************************************************************)
(* MessageList with two messages, arriving or loaded: one links a picture,  *)
(* the other a broken one, and either may be taller than the window.        *)
(***************************************************************************)
EXTENDS MessageList

MCPicturesOf == ("a" :> <<"w">>) @@ ("b" :> <<"u">>)
MCHas == [c \in {"a", "b"} |-> {"s"}]
MCReloads == {<<>>, <<"b">>}
=============================================================================
