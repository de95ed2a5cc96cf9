---- MODULE MCServices ----
EXTENDS Services
CONSTANTS d1, d2
MCBeginningOf == {<<d1, d2>>}
MCStringValues == {<<>>, <<"b">>, <<"a", "backslash", "quote">>}
MCProducts == {<<7>>, <<7, 200, 5>>}
MCTargets == {<<"h">>, <<"h", "h", "h", "h">>, <<"h", "/">>, <<"h", "/", "p", "#", "f">>,
              <<"h", "#", "/">>, <<"h", "h", "/", "p", "p", "/", "p", "p">>,
              <<"h", "/", "p", "p", "p", "p", "p", "p">>, <<"h", "h", "h", "/">>}
MCMethods == <<"softap", "smart">>
====
