---------------------------- MODULE MCCmlEvents ----------------------------
EXTENDS CmlEvents

CONSTANTS t1, t2, t3, c1, c2

Send(c) == Event("send", c)
Recv(c) == Event("recv", c)

Mixed == {Plain(Send(c1)), Plain(Recv(c1)), Plain(WaitEvent), Signal,
          Sync(<<Send(c1), Send(c2), Recv(c1)>>), Sync(<<Recv(c2), WaitEvent>>)}

OneChoice == {Plain(Recv(c1)), Plain(Recv(c2)), Sync(<<Send(c1), Send(c2)>>)}

Alike == Permutations(Threads)
=============================================================================
