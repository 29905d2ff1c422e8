------------------------------ MODULE MCPrintk ------------------------------
(***************************************************************************)
(* Two callers and two ticket values, so that the tickets wrap around; a   *)
(* screen of two rows of three, which every call but the shortest scrolls. *)
(***************************************************************************)
EXTENDS Printk

P(kind, v) == [kind |-> kind, v |-> v]
NL == P("newline", "")

MCLoaderCall == { <<P("lit", "a"), P("int", 10), NL>>,
                  <<P("str", <<"k", "d">>), P("percent", ""), P("char", "c"), P("long", 7)>> }
MCKernelCall ==
  { <<P("lit", "u"), P("int", 3), NL, P("unsigned", -1)>>,
    <<P("lit", "d"), P("unsignedlong", -2), P("long", -13), NL>>,
    <<P("str", <<"x">>), P("tab", ""), P("longhex", -10), P("hex", 3), P("char", "%"), P("percent", "")>>,
    <<NL, NL, NL, NL, NL, NL, NL, NL, NL, NL, NL, NL, NL>> }
MCJunk == {"?"}
=============================================================================
