---------------------------- MODULE EventStreamMC ----------------------------
(***************************************************************************)
(* A small provider: texts of one letter, every kind of event and line, an *)
(* event spread over two lines, with and without carriage return.          *)
(***************************************************************************)
EXTENDS EventStream

MCLetter == {"a", "b"}

Data(type, t, size) == [field |-> "data", event |-> [type |-> type, text |-> t],
                        size |-> size, cr |-> FALSE]
Plain(field, size, cr) == [field |-> field, event |-> Malformed, size |-> size, cr |-> cr]

MCLine ==
    { Data("delta", <<"a">>, 2), Data("item", <<"b">>, 2), Data("item", <<>>, 2),
      Data("done", <<"b">>, 2), Data("completed", <<>>, 2), Data("failed", <<>>, 2),
      Data("ignored", <<>>, 2), Data("head", <<>>, 2), Data("tail", <<"b">>, 2),
      Plain("other", 3, TRUE), Plain("binary", 3, FALSE), Plain("blank", 0, FALSE) }
=============================================================================
