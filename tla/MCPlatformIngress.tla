-------------------------- MODULE MCPlatformIngress --------------------------
(* Instance of PlatformIngress for TLC.                                    *)
EXTENDS PlatformIngress

Message(id, text) == [kind |-> "message", id |-> id, text |-> text]
Other(kind) == [kind |-> kind, id |-> 0, text |-> "none"]

\* Two messages with different texts; one item that is skipped and one that ends
\* the worker; one that raises ValueError.
MCChats == {<<Message(1, "a"), Message(2, "b")>>,
            <<Other("blank"), Other("odd")>>,
            <<Message(1, "a"), Other("invalid")>>}
MCNotices == {Message(3, "a"), Other("odd")}
MCPosts == {Message(1, "a")}
=============================================================================
