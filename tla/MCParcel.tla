------------------------------ MODULE MCParcel ------------------------------
(* An instance of Parcel for TLC: one sender's parcels in all formats, what *)
(* others take for containers, and arguments two levels deep.               *)
EXTENDS Parcel

CONSTANTS cid1, cid2

\* One token is a prefix of another, and a longer one comes first.
grant == <<1>>
other == <<1, 0>>
ask   == <<0, 255>>
mail  == <<0>>
scrap == <<2>>
MCToken == {grant, other, ask, mail, scrap}
MCDelegations == {grant, other}
MCInvocations == {ask, mail}
MCOwn == ask

JobsOf(lists) ==
  {ContainerToBase64StdPadding(l, z) : l \in lists, z \in BOOLEAN}
  \cup {ContainerToBase64Url(l, z) : l \in lists, z \in BOOLEAN}
  \cup {ContainerToBytesGzipped(l) : l \in lists} \cup {ContainerToRawBytes(l) : l \in lists}
MCJobs == JobsOf({<<grant, ask>>, <<ask, grant>>, <<grant, other, ask>>, <<ask, other, ask>>})
          \cup {ContainerToRawBytes(<<>>)}

Good(tokens) == Cbor("map", {"ctn-v1"}, "array", tokens)
Contents ==
  {Good(ts) : ts \in {<<grant, ask>>, <<other, scrap, ask>>, <<grant, NotBytes>>}}
  \cup {Cbor("map", {"ctn-v1", "ctn-v2"}, "array", <<grant, ask>>),
        Cbor("map", {"ctn-v1", "__proto__"}, "array", <<grant, ask>>), Cbor("map", {"ctn-v2"}, "array", <<ask>>),
        Cbor("map", {"ctn-v1"}, "other", <<>>), Cbor("other", {}, "array", <<>>), Garbage}
Wrapped(p) == {p, Gzip(p), Base64("std", p), Base64("url", Gzip(p)), Gzip(Gzip(p))}
MCStrangers ==
  {[header |-> h, payload |-> p] :
     h \in Known, p \in UNION {Wrapped(content) : content \in Contents}}
  \cup {[header |-> 65, payload |-> Good(<<grant, ask>>)]}

----------------------------------------------------------------------------
(* Arguments                                                               *)

\* MaxSafe is 4 in the instance: 5 is unsafe, as a number or as a bigint.
Leaves ==
  {Null, Bool(TRUE), Str("Null"), BytesOf(<<>>), BytesOf(<<0, 255>>), Link(cid1),
   Integer(Number(2)), Integer(BigInt(1)), Integer(BigInt(5)), Integer(Number(10)),
   Float(Number(1)), Float(Number(2)), Float(Number(10)), Float(Number(NaN)), Float(Number(Infinity)),
   Wait("waitOk", cid1), Wait("waitErr", cid2), Wait("waitAny", cid1)}

\* Two keys that DAG-CBOR sorts the other way round.
MCKeyOrder ==
  <<"y", "x", "Ok", "Map", "Err", "Bool", "List", "Link", "Null", "Bytes", "Float", "String",
    "WaitOk", "Integer", "WaitErr", "WaitAny", "PendingOk", "PendingErr", "PendingAny", "PendingTagged">>
Pair(v, w) == MapOf([k \in {"x", "y"} |-> IF k = "x" THEN v ELSE w], <<"x", "y">>)

Nested == {List(<<p, q>>) : p, q \in Leaves} \cup {Pair(p, q) : p, q \in Leaves} \cup {List(<<>>)}
Deep   == {List(<<p, Pair(q, p)>>) : p, q \in {Null, Float(Number(2)), Wait("waitOk", cid1), Wait("waitErr", cid2)}}
Outcomes ==
  {Ok(p) : p \in Leaves \cup Nested \cup Deep} \cup {Err(p) : p \in Leaves}
  \cup {[kind |-> kind, cid |-> cid2] : kind \in Pending}

\* Data, and data that looks like promises.
Looks == {Number(2), Number(1), BigInt(1), BigInt(5), Null, Str("Null"), BytesOf(<<7>>), Link(cid1),
          Tagged("WaitOk", Link(cid1)), Tagged("Null", Null), Tagged("Integer", Number(2))}
PlainData == {Data(i) : i \in Looks \cup {List(<<i, j>>) : i, j \in Looks} \cup {Pair(i, j) : i, j \in Looks}}

\* What others enclose: any tag over any value, two keys, none, and no map.
Insides == Looks \cup {Bool(FALSE), Number(-2), List(<<>>), List(<<Number(510)>>), List(<<Number(512)>>),
                       List(<<Str("Null"), Tagged("Bool", Null)>>), List(<<Str("Null"), Str("Null")>>),
                       Tagged("x", Str("Null")), Tagged("x", Null), Pair(Str("Null"), Tagged("Link", Link(cid2)))}
Tags == {PromisedTag(kind) : kind \in PromisedKinds} \cup {"Null"}
Forms == Insides \cup {Tagged(t, v) : t \in Tags, v \in Insides}
         \cup {MapOf([t \in {"Bool", "Link"} |-> IF t = "Bool" THEN Bool(TRUE) ELSE Link(cid1)], <<"Bool", "Link">>)}
Letters ==
  {Tagged("Ok", f) : f \in Forms} \cup {Tagged("Err", f) : f \in Insides}
  \cup {Tagged(t, v) : t \in PendingTags \cup {"x"}, v \in Insides} \cup Insides
  \cup {MapOf([t \in {"Ok", "Err"} |-> Str("Null")], <<"Ok", "Err">>)}
MCLetters == {ToDagCbor(v) : v \in Letters}

Held == {a.value : a \in {a \in Outcomes : a.kind \notin Pending} \cup PlainData} \cup Letters
DepthOf[v \in UNION {Within(v) : v \in Held}] == 1 + Max({0} \cup {DepthOf[part] : part \in Parts(v)})
MCDepth == DepthOf

----------------------------------------------------------------------------
(* One argument in every kind of parcel; what others take for a container;  *)
(* every argument in one parcel, sent by this library or by another.        *)

Plain == [header |-> 64, payload |-> Good(<<mail, grant>>)]
Nothing  == ContainerToRawBytes(<<>>)
Rewrites == {[header |-> 77, payload |-> Gzip(Good(<<scrap>>))], [header |-> 64, payload |-> Garbage]}
MCOccasions ==
  {[jobs |-> MCJobs, arguments |-> {Ok(Null)}, letters |-> {Str("Null")},
    strangers |-> {}, rewrites |-> Rewrites],
   [jobs |-> {Nothing}, arguments |-> {Ok(Null)}, letters |-> {Str("Null")},
    strangers |-> MCStrangers, rewrites |-> Rewrites],
   [jobs |-> {ContainerToRawBytes(<<ask, grant>>)}, arguments |-> Outcomes \cup PlainData,
    letters |-> {Str("Null")}, strangers |-> {}, rewrites |-> {}],
   [jobs |-> {ContainerToRawBytes(<<grant, scrap, ask>>), ContainerToRawBytes(<<grant>>)},
    arguments |-> {Ok(Null)}, letters |-> {Str("Null")}, strangers |-> {}, rewrites |-> {}],
   [jobs |-> {Nothing}, arguments |-> {Ok(Null)}, letters |-> MCLetters,
    strangers |-> {Plain}, rewrites |-> {}]}
=============================================================================
