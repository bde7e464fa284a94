------------------------------ MODULE MCQueryEval -------------------------------
(* QueryEval with customers and their purchases, as in Lab3/README.md.           *)
EXTENDS QueryCalls

const_Precision == 1
none == {}

(* Strings, in the order of strcmp. *)
Ann == 1  Bob == 2  Customer == 3  NameKey == 4  Purchased == 5  ZipKey == 6

Value(type, val) == [type |-> type, val |-> val]
Assign(name, value) == [name |-> name, value |-> value, args |-> <<>>, subs |-> <<>>]
Select(name, args, subs) == [name |-> name, value |-> NoValue, args |-> args, subs |-> subs]
Argument(type, key, val, cmp) == [type |-> type, key |-> key, val |-> val, cmp |-> cmp]

NameIs(who) == Assign(NameKey, Value("STRING", who))
ZipIs(zip) == Assign(ZipKey, Value("INT", zip))
Called(who) == <<Argument("STRING", NameKey, who, "EQUAL")>>
Shown == <<Select(ZipKey, <<>>, <<>>)>>
Purchase(subs) == Select(Purchased, <<>>, subs)

Query(type, selections) == [type |-> type, selections |-> selections]

(* A customer who purchased, one who did too and to whom something is below, ... *)
InsertPair == Query("INSERT", <<Select(Customer, <<>>, <<NameIs(Ann), Purchase(<<ZipIs(1)>>)>>)>>)
InsertDeep ==
  Query("INSERT", <<Select(Customer, <<>>, <<NameIs(Bob), Purchase(<<ZipIs(1)>>),
                                             Purchase(<<ZipIs(2)>>)>>)>>)
(* ... two nodes alone, a pair behind them, and a null value. *)
InsertFour ==
  Query("INSERT", <<Select(Customer, <<>>, <<NameIs(Ann)>>), Select(Customer, <<>>, <<NameIs(Bob)>>),
                    Select(Customer, <<>>, <<ZipIs(1), Purchase(<<ZipIs(2)>>)>>)>>)
InsertNull ==
  Query("INSERT", <<Select(Customer, <<>>, <<NameIs(Ann), Purchase(<<Assign(ZipKey, Value(Null, 0))>>)>>)>>)

SelectBelow(zip) ==
  Query("SELECT", <<Select(Customer, <<>>,
                           <<Select(Purchased, <<Argument("INT", ZipKey, zip, "LESS")>>, Shown)>>)>>)
SelectOf(who) == Query("SELECT", <<Select(Customer, Called(who), <<Purchase(Shown)>>)>>)

DeleteAny == Query("DELETE", <<Select(Customer, <<>>, <<Purchase(Shown)>>)>>)
DeleteNamed == Query("DELETE", <<Select(Customer, Called(Ann), Shown)>>)
Rename == Query("MODIFY", <<Select(Customer, Called(Ann), <<NameIs(Bob)>>)>>)

const_Queries == {InsertPair, InsertDeep, InsertFour, InsertNull, SelectBelow(1), SelectOf(Ann),
                  DeleteAny, DeleteNamed, Rename}
================================================================================
