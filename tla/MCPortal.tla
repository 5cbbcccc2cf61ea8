-------------------------------- MODULE MCPortal --------------------------------
(* Requests around the limit of a buffer of six bytes, and updates that   *)
(* are fine, refused by one side or the other, or change nothing.           *)
EXTENDS Portal

Get(target) ==
  [target |-> target, http |-> TRUE, head |-> 1, length |-> 0, sent |-> 0, update |-> <<>>]
Update(length, sent, update) ==
  [target |-> "update", http |-> TRUE, head |-> 1, length |-> length, sent |-> sent,
   update |-> update]

Good == [wifi_ssid |-> "ok", mode |-> "ok"]
MCRequests ==
  { Get("elsewhere"), Update(2, 2, Good), Update(1, 1, [wifi_password |-> "ok"]),
    Update(3, 3, [wifi_ssid |-> "ok", mqtt_port |-> "out"]),
    Update(1, 1, [gw_cr |-> "out", mode |-> "ok"]), Update(1, 1, [mode |-> "out"]),
    Update(4, 4, Good), Update(6, 0, Good), Update(3, 1, Good),
    [Get("page") EXCEPT !.http = FALSE] }

=============================================================================
