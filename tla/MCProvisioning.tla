----------------------------- MODULE MCProvisioning -----------------------------
(* Provisioning with two connections, and updates of one to three commands *)
(* that are stored, rejected in the middle, or empty.                      *)
EXTENDS ProvisioningRefinement

MCText == {"", "net", "home", "secret", "broker", "hub"}

MCDefault ==
  [version |-> 1, wifi |-> [ssid |-> "", password |-> ""],
   mqtt |-> [host |-> "", port |-> 1], gateway |-> [host |-> "", port |-> 1],
   mode |-> "bridge"]

MCSerialCommands ==
  {Clear,
   [kind |-> "wifi", value |-> [ssid |-> "net", password |-> "secret"]],
   [kind |-> "mqtt", value |-> [host |-> "broker", port |-> 1]],
   [kind |-> "mqtt", value |-> [host |-> "broker", port |-> 0]]}

MCUpdates ==
  {<<>>,
   [wifi_ssid |-> "net", mode |-> "gateway"],
   [mqtt_port |-> 2],
   [wifi_ssid |-> "home", wifi_password |-> "secret", mqtt_host |-> "hub", gw_port |-> 0]}
===============================================================================
