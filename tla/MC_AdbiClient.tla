--------------------------- MODULE MC_AdbiClient ---------------------------
(***************************************************************************)
(* A small instance of AdbiClient: typed calls of every request shape of  *)
(* adbi.py (no payload as ping, a u32 as attach, a string as ls, several  *)
(* arguments as dump), the listings dump, ls, get_memory and the          *)
(* injectable symbols, a 'which' that passes the 'EIA' test and one that  *)
(* does not; and replies of every element kind and every type request     *)
(* treats differently.                                                    *)
(***************************************************************************)
EXTENDS AdbiClient

\* ASCII codes of the names the agent uses.
OKAY == <<79, 75, 65, 89>>
Msg  == <<109, 115, 103>>
Ret  == <<114, 101, 116>>

MCCalls ==
    { [op |-> "ping",   args |-> << >>],
      [op |-> "attach", args |-> <<7>>],
      [op |-> "dump",   args |-> <<7, 4096, 8>>],
      [op |-> "ls",     args |-> <<<<47>>>>],
      [op |-> "get_memory", args |-> <<7>>],
      [op |-> "injectable_symbols", args |-> <<1, <<69>>>>],
      [op |-> "injectable_symbols", args |-> <<1, << >>>>],
      [op |-> "injectable_symbols", args |-> <<1, <<88>>>>] }

\* Every request type the calls send.
AllTypes == {Encode(c).type : c \in MCCalls}

\* A reply to the types in to, packed as Payload.pack does, and what it
\* tells the caller.
Reply(to, type, els, means) ==
    [to |-> to, type |-> type, els |-> els, raw |-> PayloadPack(els), means |-> means]

\* Memory 01 02 03 04 10 20 30 f0 at 4096, as two little-endian words, the
\* second one sent signed.
MemdWords == << U32El(N.size, 2), U32El(Idx(N.word, 0), 67305985),
                Element(Idx(N.word, 1), I32, -265281520, << >>) >>

\* Two segments, the higher one first.
Seg(i, lo, hi) == << U64El(Idx(N.seglo, i), lo), U64El(Idx(N.seghi, i), hi),
                     U32El(Idx(N.segtype, i), 1), StrEl(Idx(N.segfile, i), <<120>>),
                     U64El(Idx(N.segoff, i), 0) >>

\* The last reply has an empty payload, on which Payload.unpack_from
\* fails; the second MEMD reply lacks word[1].
MCReplies ==
    { Reply({T.PING, T.ATTC}, OKAY, << >>, NoResult),
      Reply({T.ATTC}, OKAY, << Element(Ret, I32, -2, << >>) >>, NoResult),
      Reply({T.MEMD}, OKAY, MemdWords, <<1, 2, 3, 4, 16, 32, 48, 240>>),
      Reply({T.MEMD}, OKAY, SubSeq(MemdWords, 1, 2), NoResult),
      Reply({T.LDIR}, OKAY, << U32El(N.entc, 2), StrEl(Idx(N.entv, 0), <<97>>),
                               U32El(Idx(N.entd, 0), 1), StrEl(Idx(N.entv, 1), <<98>>),
                               U32El(Idx(N.entd, 1), 0) >>, {<<97, 47>>, <<98>>}),
      Reply({T.MAPS}, OKAY, <<U32El(N.segc, 2)>> \o Seg(0, 8192, 12288) \o Seg(1, 4096, 8192),
            << <<4096, 8192, 1, <<120>>, 0>>, <<8192, 12288, 1, <<120>>, 0>> >>),
      Reply({T.INJ \o <<69>>}, OKAY, << U32El(N.symc, 1), U64El(Idx(N.symad, 0), 4096),
                                       StrEl(Idx(N.symnm, 0), <<102>>) >>, << <<4096, <<102>>>> >>),
      Reply(AllTypes, FAIL, << StrEl(Msg, <<120>>) >>, NoResult),
      [to |-> AllTypes, type |-> OKAY, els |-> << >>, raw |-> << >>, means |-> NoResult] }

====
