--------------------------- MODULE MCHttpExchange ---------------------------
(* Routes that share pieces of their URLs, with and without parameters and
   trailing slashes, and one handler of each kind.                           *)
EXTENDS HttpExchange, UrlTrie

MCMethods == {"Get", "Head", "Post", "Options"}

Route(url, methods, does, code, size) ==
  [url |-> url, methods |-> methods, does |-> does, code |-> code, size |-> size]

MCRoutes == {
  Route(<<"/", "a", "/">>,             {"Get", "Post"}, "value", 200, 5),
  Route(<<"/", "a">>,                  {"Get", "Head"}, "late", 200, 1),
  Route(<<"/", "a", "/", "<path>">>,   {"Get"},         "file", 200, 0),
  Route(<<"/", "<string>">>,           {"Post"},        "endsThenThrows", 299, 1),
  Route(<<"/", "<string>", "/", "b">>, {"Get"},         "nofile", 200, 0),
  Route(<<"/", "<int>">>,              {"Get"},         "endsThenThrows", 200, 5),
  Route(<<"/", "<int>", "b">>,         {"Get"},         "redirects", 200, 0),
  Route(<<"/", "<double>">>,           {"Get", "Post"}, "throws", 200, 0),
  Route(<<"/", "<uint>">>,             {"Post"},        "socket", 200, 0),
  Route(<<"/", "a", "1">>,             {"Post"},        "nothing", 200, 0)}

MCUrls == {<<"/">>, <<"/", "a">>, <<"/", "a", "/">>, <<"/", "a", "/", "b">>, <<"/", "*">>,
           <<"/", "-", "1">>, <<"/", "1", "2">>, <<"/", "1", ".", "5">>, <<"/", "1", "b">>}

Manner(v11, host, keep, close, upgrade) ==
  [v11 |-> v11, host |-> host, keep |-> keep, close |-> close, upgrade |-> upgrade]
MCManners == {Manner(TRUE, TRUE, FALSE, FALSE, FALSE), Manner(FALSE, TRUE, TRUE, FALSE, FALSE),
              Manner(TRUE, FALSE, FALSE, FALSE, FALSE), Manner(FALSE, FALSE, FALSE, TRUE, FALSE),
              Manner(TRUE, TRUE, FALSE, FALSE, TRUE)}
=============================================================================
