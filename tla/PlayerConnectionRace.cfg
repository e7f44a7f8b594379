SPECIFICATION Spec
CONSTANT Players = {p1}
PROPERTY FollowsLifecycle
