--------------------------- MODULE MCEventDelivery --------------------------
(* Model values for module EventDelivery.                                  *)
EXTENDS EventDelivery

CONSTANTS jita, writer1, writer2, group1, group2, watcher1, watcher2, thread1, thread2,
    order1, order2, chat1, chat2, member1, query1, query2, query3, room1

OneSystem == {jita}
OneWriter == {writer1}
TwoWriters == {writer1, writer2}
TwoGroups == {group1, group2}
TwoWatchers == {watcher1, watcher2}
TwoThreads == {thread1, thread2}
SecondClears == {2}
TwoOrders == {order1, order2}
TwoChats == {chat1, chat2}
OneMember == {member1}
ThreeQueries == {query1, query2, query3}
OneRoom == {room1}
=============================================================================
